----------------------------- MODULE Registrars -----------------------------
(***************************************************************************)
(* Registrars and their accreditations: the tables registrars and          *)
(* accreditations, and the endpoints that change them                      *)
(* (registrar_service.go, accreditation_service.go).  One action is one    *)
(* statement or transaction of GORM, with the computation before it.       *)
(***************************************************************************)
EXTENDS Naturals, FiniteSets

CONSTANTS
    RarProcs,      \* the processes that serve requests
    ClIDs,
    RarNames,      \* names of registrars, unique in the table
    RarTlds,
    Generic,       \* the TLDs that are gTLDs
    RarUpdates,    \* the rows that updates carry
    Unnamed        \* the empty name

RarStatuses == {"ok", "readonly", "terminated"}
IanaStatuses == {"Accredited", "Reserved", "Terminated", "Unknown"}

\* gurid: does the registrar have an IANA id?  The row of a registrar that an
\* association inserted has neither a name nor a status.
Registrar ==
    [name : RarNames, gurid : BOOLEAN, status : RarStatuses, iana : IanaStatuses]
Ghost == [name |-> Unnamed, gurid |-> FALSE, status |-> "", iana |-> ""]
RarRow == Registrar \cup {Ghost}

ASSUME RegistrarsAssumption ==
    Generic \subseteq RarTlds /\ Unnamed \notin RarNames /\ RarUpdates \subseteq Registrar

VARIABLES
    registrars,      \* the registrars table: the row of each ClID in its domain
    accreditations,  \* the join table: <<ClID, TLD>>
    sponsoring,      \* the ClIDs that domains, hosts or contacts refer to
    rarReq,          \* what each process is about to do, or NoRarReq
    qualified,       \* observed: <<ClID, TLD>> that once met the conditions
    rarOvertaken     \* observed: has a step fallen between two of a request?

rarVars ==
    <<registrars, accreditations, sponsoring, rarReq, qualified, rarOvertaken>>

NoRarReq == [op |-> "idle"]

\* Mutant: the IANA status is not looked at.
MayAccreditWithoutICANN(row, t) == row.status = "ok"

\* Registrar.AccreditFor, for a registrar that is not accredited yet.
MayAccredit(row, t) ==
    /\ row.status = "ok"
    /\ t \in Generic => row.gurid /\ row.iana = "Accredited"

\* The conditions, as the comment of AccreditFor states them.
Qualifies(row, t) ==
    row.status = "ok" /\ (t \in Generic => row.gurid /\ row.iana = "Accredited")

RarInit ==
    /\ registrars \in [{} -> RarRow]
    /\ accreditations = {}
    /\ sponsoring = {}
    /\ rarReq = [p \in RarProcs |-> NoRarReq]
    /\ qualified = {}
    /\ rarOvertaken = FALSE

-----------------------------------------------------------------------------
RarProceed(p, next) ==
    /\ rarReq' = [rarReq EXCEPT ![p] = next]
    /\ rarOvertaken' = (rarOvertaken \/ \E q \in RarProcs \ {p} : rarReq[q] # NoRarReq)

RarAccepting(p, next) == rarReq[p] = NoRarReq /\ RarProceed(p, next)

NameFree(name, c) == \A d \in DOMAIN registrars \ {c} : registrars[d].name # name

\* The table with some rows written.
Written(rows) ==
    /\ registrars' = [c \in DOMAIN registrars \cup DOMAIN rows |->
                         IF c \in DOMAIN rows THEN rows[c] ELSE registrars[c]]
    /\ qualified' = qualified \cup {x \in (DOMAIN rows) \X RarTlds : Qualifies(rows[x[1]], x[2])}

\* Mutant: the status is left to the first update.
NewRegistrarWithoutStatus(name, gurid) ==
    [name |-> name, gurid |-> gurid, status |-> "", iana |-> "Unknown"]

\* NewRegistrar: readonly, and unknown to IANA until an update says otherwise.
NewRegistrar(name, gurid) ==
    [name |-> name, gurid |-> gurid, status |-> "readonly", iana |-> "Unknown"]

CreateRegistrar(p, c, name, gurid) ==
    /\ c \notin DOMAIN registrars /\ NameFree(name, c)
    /\ RarAccepting(p, NoRarReq)
    /\ Written([d \in {c} |-> NewRegistrar(name, gurid)])
    /\ UNCHANGED <<accreditations, sponsoring>>

\* One statement: all of them or none.
BulkCreateRegistrars(p, names) ==
    /\ \A c \in DOMAIN names : c \notin DOMAIN registrars /\ NameFree(names[c], c)
    /\ \A c, d \in DOMAIN names : names[c] = names[d] => c = d
    /\ RarAccepting(p, NoRarReq)
    /\ Written([c \in DOMAIN names |-> NewRegistrar(names[c], TRUE)])
    /\ UNCHANGED <<accreditations, sponsoring>>

\* The PUT of a whole row: the stored one is only looked up.
LoadForUpdate(p, c, row) ==
    /\ c \in DOMAIN registrars
    /\ RarAccepting(p, [op |-> "Save", clid |-> c, row |-> row])
    /\ UNCHANGED <<registrars, accreditations, sponsoring, qualified>>

LoadSetStatus(p, c, status) ==
    /\ c \in DOMAIN registrars
    /\ RarAccepting(p, [op |-> "Save", clid |-> c,
                        row |-> [registrars[c] EXCEPT !.status = status]])
    /\ UNCHANGED <<registrars, accreditations, sponsoring, qualified>>

\* Save by ClID: updates the row, or inserts it when it is gone.
UpdateRegistrar(p) ==
    LET r == rarReq[p] IN
    /\ r.op = "Save"
    /\ NameFree(r.row.name, r.clid)
    /\ RarProceed(p, NoRarReq)
    /\ Written([c \in {r.clid} |-> r.row])
    /\ UNCHANGED <<accreditations, sponsoring>>

\* Mutant: accreditations do not keep their registrar.
RarDeletableAccredited(c) == c \notin sponsoring

\* Foreign keys of domains, hosts, contacts and accreditations.
RarDeletable(c) ==
    c \notin sponsoring /\ \A t \in RarTlds : <<c, t>> \notin accreditations

DeleteRegistrar(p, c) ==
    /\ c \in DOMAIN registrars
    /\ RarDeletable(c)
    /\ registrars' = [d \in DOMAIN registrars \ {c} |-> registrars[d]]
    /\ RarAccepting(p, NoRarReq)
    /\ UNCHANGED <<accreditations, sponsoring, qualified>>

\* A registrar that is accredited already is accredited again.
LoadAccredit(p, c, t) ==
    /\ c \in DOMAIN registrars
    /\ <<c, t>> \in accreditations \/ MayAccredit(registrars[c], t)
    /\ RarAccepting(p, [op |-> "Append", clid |-> c, tld |-> t])
    /\ UNCHANGED <<registrars, accreditations, sponsoring, qualified>>

\* Association Append: INSERT of a registrar that has only a ClID, with ON
\* CONFLICT DO NOTHING, then of the accreditation.
AppendAccreditation(p) ==
    LET r == rarReq[p] IN
    /\ r.op = "Append"
    /\ r.clid \in DOMAIN registrars \/ NameFree(Unnamed, r.clid)
    /\ RarProceed(p, NoRarReq)
    /\ accreditations' = accreditations \cup {<<r.clid, r.tld>>}
    /\ Written([c \in {r.clid} \ DOMAIN registrars |-> Ghost])
    /\ UNCHANGED sponsoring

LoadDeaccredit(p, c, t) ==
    /\ c \in DOMAIN registrars
    /\ RarAccepting(p, [op |-> "Remove", clid |-> c, tld |-> t])
    /\ UNCHANGED <<registrars, accreditations, sponsoring, qualified>>

DeleteAccreditation(p) ==
    LET r == rarReq[p] IN
    /\ r.op = "Remove"
    /\ RarProceed(p, NoRarReq)
    /\ accreditations' = accreditations \ {<<r.clid, r.tld>>}
    /\ UNCHANGED <<registrars, sponsoring, qualified>>

\* A statement is refused or fails, or the request dies.
RarFail(p) ==
    /\ rarReq[p] # NoRarReq
    /\ RarProceed(p, NoRarReq)
    /\ UNCHANGED <<registrars, accreditations, sponsoring, qualified>>

\* Objects of the registrar are created, and the last of them goes.
SponsorObject(c) ==
    /\ c \in DOMAIN registrars
    /\ sponsoring' \in {sponsoring \cup {c}, sponsoring \ {c}} \ {sponsoring}
    /\ UNCHANGED <<registrars, accreditations, rarReq, qualified, rarOvertaken>>

RarAccept(p) ==
    \/ \E c \in ClIDs, row \in RarUpdates : CreateRegistrar(p, c, row.name, row.gurid)
    \/ \E names \in [ClIDs -> RarNames] : BulkCreateRegistrars(p, names)
    \/ \E c \in ClIDs :
          \/ \E row \in RarUpdates : LoadForUpdate(p, c, row)
          \/ \E status \in RarStatuses : LoadSetStatus(p, c, status)
          \/ DeleteRegistrar(p, c)
          \/ \E t \in RarTlds : LoadAccredit(p, c, t) \/ LoadDeaccredit(p, c, t)

RarServe(p) ==
    UpdateRegistrar(p) \/ AppendAccreditation(p) \/ DeleteAccreditation(p) \/ RarFail(p)

RarNext ==
    \/ \E p \in RarProcs : RarAccept(p) \/ RarServe(p)
    \/ \E c \in ClIDs : SponsorObject(c)

RarSpec == RarInit /\ [][RarNext]_rarVars

-----------------------------------------------------------------------------
\* Every variable has its type.
IsRarReq(r) ==
    \/ r = NoRarReq
    \/ r \in [op : {"Save"}, clid : ClIDs, row : RarRow \cup
                [name : {Unnamed}, gurid : {FALSE}, status : RarStatuses, iana : {""}]]
    \/ r \in [op : {"Append", "Remove"}, clid : ClIDs, tld : RarTlds]

RarTypeOK ==
    /\ DOMAIN registrars \subseteq ClIDs
    /\ \A c \in DOMAIN registrars :
          registrars[c] \in RarRow \/ registrars[c].name = Unnamed
    /\ accreditations \subseteq ClIDs \X RarTlds
    /\ sponsoring \subseteq ClIDs
    /\ rarReq = [p \in RarProcs |-> rarReq[p]]
    /\ \A p \in RarProcs : IsRarReq(rarReq[p])
    /\ qualified \subseteq ClIDs \X RarTlds
    /\ rarOvertaken \in BOOLEAN

\* Accreditations and sponsored objects have their registrar, whatever was
\* deleted between two statements of a request; names are unique; and a row
\* without a name comes only of an accreditation that a deletion overtook.
RegistrarTablesConsistent ==
    /\ \A x \in accreditations : x[1] \in DOMAIN registrars
    /\ sponsoring \subseteq DOMAIN registrars
    /\ \A c, d \in DOMAIN registrars : registrars[c].name = registrars[d].name => c = d
    /\ ~rarOvertaken => \A c \in DOMAIN registrars : registrars[c].name # Unnamed

\* An accreditation was given to a registrar that met the conditions at one
\* time: ok, and for a gTLD known to IANA as accredited, even when status,
\* IANA status or the registrar itself changed before it was stored.
AccreditedOnceQualified == accreditations \subseteq qualified
=============================================================================
