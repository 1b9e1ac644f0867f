-------------------------- MODULE MCAdministration --------------------------
(***************************************************************************)
(* The objects the admin API manages around the domains, in one instance:  *)
(* hosts, contacts, registrars and quotes.  They share no table, so that   *)
(* one of them moves in each behaviour and the rest stands still.          *)
(***************************************************************************)
EXTENDS HostLifecycle, ContactLifecycle, Registrars, Quotes

VARIABLE part  \* the component that moves

administrationVars ==
    <<part, hostVars, contactVars, rarVars, quoteVars>>

AdministrationInit ==
    /\ part \in {"hosts", "contacts", "contact", "registrars", "quotes"}
    /\ HostInit /\ ContactInit /\ RarInit /\ QuotesInit

AdministrationNext ==
    /\ UNCHANGED part
    /\ \/ /\ part = "hosts" /\ HostNext
          /\ UNCHANGED <<contactVars, rarVars, quoteVars>>
       \/ /\ part = "contacts" /\ ContactTableNext
          /\ UNCHANGED <<hostVars, rarVars, quoteVars>>
       \/ /\ part = "contact" /\ ContactEntityNext
          /\ UNCHANGED <<hostVars, rarVars, quoteVars>>
       \/ /\ part = "registrars" /\ RarNext
          /\ UNCHANGED <<hostVars, contactVars, quoteVars>>
       \/ /\ part = "quotes" /\ QuotesNext
          /\ UNCHANGED <<hostVars, contactVars, rarVars>>

AdministrationSpec ==
    AdministrationInit /\ [][AdministrationNext]_administrationVars

ServerSymmetry == Permutations(HostProcs) \cup Permutations(ClIDs)

-----------------------------------------------------------------------------
(* Hosts: two of one registrar, the first created with an address and a    *)
(* part of the first domain, the second with a prohibition.                *)
CONSTANTS h1, h2, d1, d2, r1, ip1

HostKey(n) == [name |-> n, clid |-> r1]
MCNewHosts == {[key |-> HostKey(h1), status |-> {}, addrs |-> {ip1}],
               [key |-> HostKey(h2), status |-> {"clientUpdateProhibited"},
                addrs |-> {}]}
MCHostKeys == {HostKey(h1), HostKey(h2)}
MCSponsor == [d \in HostDomains |-> r1]
MCBailiwick == {<<h1, d1>>}

(* Contacts: no status, an incoherent one and one that says ok wrongly.    *)
MCContactStatuses == {{}, {"clientDeleteProhibited", "pendingDelete"},
                      {"ok", "serverUpdateProhibited"}}

(* Registrars: an accredited one and a terminated one.                     *)
MCRarUpdates ==
    {[name |-> h1, gurid |-> TRUE, status |-> "ok", iana |-> "Accredited"],
     [name |-> h2, gurid |-> TRUE, status |-> "terminated", iana |-> "Terminated"]}

(* Quotes: "a" is a part of "ab"; the yen has no cents; a phase with prices *)
(* in both currencies and a premium list, one with fees in both; the rate   *)
(* does not divide evenly.                                                  *)
MCLabelsLike == [n \in PlainNames |-> IF n = "a" THEN {"a", "ab"} ELSE {n}]
MCMinorUnits == [c \in Currencies |-> IF c = "JPY" THEN 1 ELSE 100]
MCTariffs == {[c \in Columns |-> 1]}
MCPrices == [registration |-> 3, renewal |-> 5, transfer |-> 3, restore |-> 3]
MCFee(c) == [name |-> "fee", currency |-> c, amount |-> 7]
MCPhaseTables ==
    {[prices |-> [c \in Currencies |-> MCPrices], fees |-> {MCFee("USD")}, list |-> TRUE],
     [prices |-> [c \in {"USD"} |-> MCPrices], fees |-> {MCFee("USD"), MCFee("JPY")},
      list |-> FALSE]}
MCGrandfatherings == {[amount |-> 3, currency |-> "USD"], [amount |-> 3, currency |-> "EUR"]}
MCRates == {[num |-> 61, den |-> 1]}

-----------------------------------------------------------------------------
\* The types of the components, and of what their requests carry.
AdministrationTypeOK ==
    HostTypeOK /\ ContactTypeOK /\ RarTypeOK /\ QuotesTypeOK

\* No table refers to a row of another that is not there, and every unique
\* index holds, in every interleaving of the requests (host_repository.go,
\* contact_repository.go, registrar_repository.go, accreditation_repository.go).
ReferencesHold ==
    HostTablesConsistent /\ ContactTablesConsistent /\ RegistrarTablesConsistent
=============================================================================
