--------------------------- MODULE HostLifecycle ---------------------------
(***************************************************************************)
(* Hosts, their addresses and their use by domains: the tables hosts,      *)
(* host_addresses and domain_hosts, and the endpoints that change them     *)
(* (host_service.go, and the host endpoints of domain_service.go).  The    *)
(* processes serve requests; one action is one statement or one            *)
(* transaction of GORM, with the computation before it.                    *)
(*                                                                         *)
(* A domain is known by its hosts only: what the rest of its row decides   *)
(* is the subject of DomainRequests, where hosts are never deleted.        *)
(***************************************************************************)
EXTENDS HostStatus, Functions

CONSTANTS
    HostProcs,     \* the processes that serve requests
    HostDomains,   \* domains that may use hosts
    Sponsor,       \* the registrar of each domain
    HostKeys,      \* [name, clid], unique in the hosts table
    Bailiwick,     \* <<host name, domain>>: the host is named in the domain
    IPs,
    MaxAddresses,  \* MAX_ADDRESSES_PER_HOST, ten in the code
    NewHosts,      \* the commands of a creation: [key, status, addrs]
    MaxHostId      \* bound: the number of hosts ever created

HostIds == 1 .. MaxHostId
HostRow == [key : HostKeys, status : SUBSET HostFlags]

ASSUME HostLifecycleAssumption ==
    /\ MaxHostId \in Nat /\ MaxAddresses \in Nat
    /\ IsFiniteSet(IPs)
    /\ \A k \in HostKeys : k = [name |-> k.name, clid |-> k.clid]
    /\ NewHosts \subseteq
          [key : HostKeys, status : SUBSET HostFlags, addrs : SUBSET IPs]

VARIABLES
    hosts,         \* the hosts table: the row of each id in its domain
    addresses,     \* the host_addresses table: <<id, ip>>
    uses,          \* the domain_hosts table: <<domain, id>>
    lastHost,      \* the last generated identifier
    hostReq,       \* what each process is about to do, or NoHostReq
    disturbed      \* observed: has a step fallen between two statements of
                   \* another request, or a request died between them?

hostVars == <<hosts, addresses, uses, lastHost, hostReq, disturbed>>

NoHostReq == [op |-> "idle"]

AddressesOf(i) == {a \in IPs : <<i, a>> \in addresses}
UsedBy(d) == {i \in DOMAIN hosts : <<d, i>> \in uses}

HostInit ==
    /\ hosts \in [{} -> HostRow]
    /\ addresses = {}
    /\ uses = {}
    /\ lastHost = 0
    /\ hostReq = [p \in HostProcs |-> NoHostReq]
    /\ disturbed = FALSE

-----------------------------------------------------------------------------
HostBusy(p) == \E q \in HostProcs \ {p} : hostReq[q] # NoHostReq

\* A step of p, after which p goes for next.
Proceed(p, next) ==
    /\ hostReq' = [hostReq EXCEPT ![p] = next]
    /\ disturbed' = (disturbed \/ HostBusy(p))

\* The first step of a request.
Accepting(p, next) == hostReq[p] = NoHostReq /\ Proceed(p, next)

\* The unique index on name and registrar.
KeyFree(k) == \A i \in DOMAIN hosts : hosts[i].key # k

\* INSERT ... ON CONFLICT DO NOTHING, for associated rows: those that are
\* gone are inserted again, unless their name is taken.
PutBack(rows) ==
    Restrict(rows, {i \in DOMAIN rows \ DOMAIN hosts : KeyFree(rows[i].key)})

\* Save by primary key: updates the row, or inserts it when it is gone,
\* which the unique index may refuse.
HostSaveable(i, row) ==
    \A j \in DOMAIN hosts \ {i} : hosts[j].key # row.key

With(rows) ==
    [i \in DOMAIN hosts \cup DOMAIN rows |->
        IF i \in DOMAIN rows THEN rows[i] ELSE hosts[i]]

-----------------------------------------------------------------------------
(* Creation and deletion.                                                  *)

\* createHostFromCreateHostCommand: AddAddress refuses an eleventh address,
\* Validate an inconsistent status; no status means ok.
HostStatusOf(cmd) == IF cmd.status = {} THEN {"ok"} ELSE cmd.status

HostAcceptable(cmd) ==
    /\ Cardinality(cmd.addrs) <= MaxAddresses
    /\ HostStatusValid(HostStatusOf(cmd))

HostOf(cmd) == [key |-> cmd.key, status |-> HostStatusOf(cmd)]

AddAddresses(i, addrs) ==
    IF addrs = {} THEN NoHostReq
    ELSE [op |-> "AddAddresses", id |-> i, addrs |-> addrs]

\* The row is inserted without its addresses, which follow one by one.
CreateHost(p, cmd) ==
    /\ lastHost < MaxHostId
    /\ HostAcceptable(cmd) /\ KeyFree(cmd.key)
    /\ lastHost' = lastHost + 1
    /\ hosts' = With([i \in {lastHost'} |-> HostOf(cmd)])
    /\ Accepting(p, AddAddresses(lastHost', cmd.addrs))
    /\ UNCHANGED <<addresses, uses>>

CreateNextAddress(p) ==
    LET r == hostReq[p] IN
    /\ r.op = "AddAddresses"
    /\ r.id \in DOMAIN hosts
    /\ \E a \in r.addrs :
          /\ <<r.id, a>> \notin addresses
          /\ addresses' = addresses \cup {<<r.id, a>>}
          /\ Proceed(p, AddAddresses(r.id, r.addrs \ {a}))
    /\ UNCHANGED <<hosts, uses, lastHost>>

\* One transaction, with the addresses.
BulkCreateHosts(p, one, two) ==
    /\ lastHost + 2 <= MaxHostId
    /\ HostAcceptable(one) /\ HostAcceptable(two)
    /\ KeyFree(one.key) /\ KeyFree(two.key) /\ one.key # two.key
    /\ lastHost' = lastHost + 2
    /\ hosts' = With([i \in {lastHost + 1, lastHost + 2} |->
                         HostOf(IF i = lastHost + 1 THEN one ELSE two)])
    /\ addresses' = addresses \cup {<<lastHost + 1, a>> : a \in one.addrs}
                              \cup {<<lastHost + 2, a>> : a \in two.addrs}
    /\ Accepting(p, NoHostReq)
    /\ UNCHANGED uses

\* Mutant: an association does not keep its host.
DeletableAnyway(i) == TRUE

\* The foreign key of domain_hosts; CanBeDeleted is not asked.
Deletable(i) == \A d \in HostDomains : <<d, i>> \notin uses

\* To delete a host that is not there is no error.
DeleteHost(p, i) ==
    /\ Deletable(i)
    /\ hosts' = Restrict(hosts, DOMAIN hosts \ {i})
    /\ addresses' = {x \in addresses : x[1] # i}
    /\ Accepting(p, NoHostReq)
    /\ UNCHANGED <<uses, lastHost>>

-----------------------------------------------------------------------------
(* Addresses.                                                              *)

\* Mutant: the limit is off by one.
LoadAddHostAddressOneMore(p, i, a) ==
    /\ i \in DOMAIN hosts
    /\ HostCanBeUpdated(hosts[i].status)
    /\ Cardinality(AddressesOf(i)) <= MaxAddresses
    /\ a \notin AddressesOf(i)
    /\ Accepting(p, AddAddresses(i, {a}))
    /\ UNCHANGED <<hosts, addresses, uses, lastHost>>

LoadAddHostAddress(p, i, a) ==
    /\ i \in DOMAIN hosts
    /\ HostCanBeUpdated(hosts[i].status)
    /\ Cardinality(AddressesOf(i)) < MaxAddresses
    /\ a \notin AddressesOf(i)
    /\ Accepting(p, AddAddresses(i, {a}))
    /\ UNCHANGED <<hosts, addresses, uses, lastHost>>

\* RemoveAddress does not ask CanBeUpdated.
LoadRemoveHostAddress(p, i, a) ==
    /\ i \in DOMAIN hosts
    /\ a \in AddressesOf(i)
    /\ Accepting(p, [op |-> "DeleteAddress", id |-> i, addr |-> a])
    /\ UNCHANGED <<hosts, addresses, uses, lastHost>>

DeleteAddress(p) ==
    LET r == hostReq[p] IN
    /\ r.op = "DeleteAddress"
    /\ addresses' = addresses \ {<<r.id, r.addr>>}
    /\ Proceed(p, NoHostReq)
    /\ UNCHANGED <<hosts, uses, lastHost>>

-----------------------------------------------------------------------------
(* Use by a domain.                                                        *)

\* Domain.AddHost, as far as the host decides.
MayUse(d, i) ==
    /\ \A j \in UsedBy(d) : hosts[j].key.name # hosts[i].key.name
    /\ hosts[i].key.clid = Sponsor[d]
    /\ <<hosts[i].key.name, d>> \in Bailiwick => AddressesOf(i) # {}

\* Loads the domain with its hosts, and the host with its addresses.
LoadAddHost(p, d, i) ==
    /\ i \in DOMAIN hosts
    /\ MayUse(d, i)
    /\ \E status \in HostSetStatus(hosts[i].status, "linked") :
          Accepting(p, [op |-> "SaveDomain", domain |-> d, id |-> i,
                        rows |-> Restrict([hosts EXCEPT ![i].status = status],
                                          UsedBy(d) \cup {i}),
                        addrs |-> AddressesOf(i), adding |-> TRUE])
    /\ UNCHANGED <<hosts, addresses, uses, lastHost>>

LoadRemoveHost(p, d, i) ==
    /\ i \in DOMAIN hosts
    /\ \E j \in UsedBy(d) : hosts[j].key.name = hosts[i].key.name
    /\ Accepting(p, [op |-> "RemoveAssociation", domain |-> d, id |-> i,
                     row |-> hosts[i],
                     rows |-> Restrict(hosts,
                        {j \in UsedBy(d) : hosts[j].key.name # hosts[i].key.name})])
    /\ UNCHANGED <<hosts, addresses, uses, lastHost>>

RemoveAssociation(p) ==
    LET r == hostReq[p] IN
    /\ r.op = "RemoveAssociation"
    /\ uses' = uses \ {<<r.domain, r.id>>}
    /\ Proceed(p, [op |-> "SaveDomain", domain |-> r.domain, id |-> r.id,
                   row |-> r.row, rows |-> r.rows, addrs |-> {},
                   adding |-> FALSE])
    /\ UNCHANGED <<hosts, addresses, lastHost>>

\* UpdateDomain saves the domain with the hosts it was loaded with: hosts and
\* addresses that are gone are inserted again, and so are the associations,
\* all in one transaction.
SaveDomainWithHosts(p) ==
    LET r == hostReq[p]
        back == PutBack(r.rows)
    IN
    /\ r.op = "SaveDomain"
    /\ DOMAIN r.rows \subseteq DOMAIN hosts \cup DOMAIN back
    /\ hosts' = With(back)
    /\ addresses' = addresses \cup {<<r.id, a>> : a \in r.addrs}
    /\ uses' = uses \cup {<<r.domain, i>> : i \in DOMAIN r.rows}
    /\ Proceed(p, IF r.adding
                     THEN [op |-> "SaveHost", id |-> r.id, row |-> r.rows[r.id]]
                     ELSE [op |-> "CountUses", id |-> r.id, row |-> r.row])
    /\ UNCHANGED lastHost

\* Mutant: the last domain but one is the last.
StillUsedByMore(i) == Cardinality({d \in HostDomains : <<d, i>> \in uses}) > 1

StillUsed(i) == \E d \in HostDomains : <<d, i>> \in uses

\* GetHostAssociationCount; when the query fails the count stays zero.  When
\* linked cannot be unset the host is saved as it was loaded.
CountUses(p, failing) ==
    LET r == hostReq[p]
        unset == HostUnsetStatus(r.row.status, "linked")
    IN
    /\ r.op = "CountUses"
    /\ \E status \in IF unset = {} THEN {r.row.status} ELSE unset :
          hostReq' = [hostReq EXCEPT ![p] =
             IF StillUsed(r.id) /\ ~failing THEN NoHostReq
             ELSE [op |-> "SaveHost", id |-> r.id,
                   row |-> [r.row EXCEPT !.status = status]]]
    /\ disturbed' = (disturbed \/ HostBusy(p) \/ failing)
    /\ UNCHANGED <<hosts, addresses, uses, lastHost>>

\* UpdateHost saves the whole row, without the addresses.
UpdateHost(p) ==
    LET r == hostReq[p] IN
    /\ r.op = "SaveHost"
    /\ HostSaveable(r.id, r.row)
    /\ hosts' = With([i \in {r.id} |-> r.row])
    /\ Proceed(p, NoHostReq)
    /\ UNCHANGED <<addresses, uses, lastHost>>

\* A statement is refused or fails, or the request dies.
HostFail(p) ==
    /\ hostReq[p] # NoHostReq
    /\ hostReq' = [hostReq EXCEPT ![p] = NoHostReq]
    /\ disturbed' = TRUE
    /\ UNCHANGED <<hosts, addresses, uses, lastHost>>

HostAccept(p) ==
    \/ \E cmd \in NewHosts : CreateHost(p, cmd)
    \/ \E one, two \in NewHosts : BulkCreateHosts(p, one, two)
    \/ \E i \in HostIds :
          \/ DeleteHost(p, i)
          \/ \E a \in IPs : LoadAddHostAddress(p, i, a) \/ LoadRemoveHostAddress(p, i, a)
          \/ \E d \in HostDomains : LoadAddHost(p, d, i) \/ LoadRemoveHost(p, d, i)

HostServe(p) ==
    \/ CreateNextAddress(p) \/ DeleteAddress(p)
    \/ RemoveAssociation(p) \/ SaveDomainWithHosts(p)
    \/ \E failing \in BOOLEAN : CountUses(p, failing)
    \/ UpdateHost(p)
    \/ HostFail(p)

HostNext == \E p \in HostProcs : HostAccept(p) \/ HostServe(p)

HostSpec == HostInit /\ [][HostNext]_hostVars

-----------------------------------------------------------------------------
\* Every variable has its type.
IsHostTable(t) == DOMAIN t \subseteq HostIds /\ t \in [DOMAIN t -> HostRow]

IsHostReq(r) ==
    \/ r = NoHostReq
    \/ r \in [op : {"AddAddresses"}, id : HostIds, addrs : SUBSET IPs]
    \/ r \in [op : {"DeleteAddress"}, id : HostIds, addr : IPs]
    \/ r \in [op : {"SaveHost", "CountUses"}, id : HostIds, row : HostRow]
    \/ /\ r.op \in {"RemoveAssociation", "SaveDomain"}
       /\ r.domain \in HostDomains /\ r.id \in HostIds /\ IsHostTable(r.rows)

HostTypeOK ==
    /\ IsHostTable(hosts)
    /\ addresses \subseteq HostIds \X IPs
    /\ uses \subseteq HostDomains \X HostIds
    /\ lastHost \in 0 .. MaxHostId
    /\ hostReq = [p \in HostProcs |-> hostReq[p]]
    /\ \A p \in HostProcs : IsHostReq(hostReq[p])
    /\ disturbed \in BOOLEAN

\* In every interleaving, with saves of stale rows that put deleted hosts
\* back: an address and an association have their host, no two hosts of a
\* registrar share a name, and every status is one RFC 5732 allows.
HostTablesConsistent ==
    /\ \A x \in addresses : x[1] \in DOMAIN hosts
    /\ \A x \in uses : x[2] \in DOMAIN hosts
    /\ \A i, j \in DOMAIN hosts : hosts[i].key = hosts[j].key => i = j
    /\ \A i \in DOMAIN hosts : HostStatusValid(hosts[i].status)

\* No order of creating a host with addresses, adding, removing and using it
\* gives it more than ten addresses, unless requests overlap.
AddressLimit ==
    ~disturbed => \A i \in DOMAIN hosts : Cardinality(AddressesOf(i)) <= MaxAddresses

\* The linked flag of a host tells whether a domain uses it, after any
\* sequence of additions to and removals from several domains that came to
\* their end one after the other.  A host whose updates are prohibited cannot
\* lose the flag, and one may be created with it.
LinkedTellsUse ==
    /\ ~disturbed
    /\ \A p \in HostProcs : hostReq[p] = NoHostReq
    /\ \A cmd \in NewHosts : "linked" \notin cmd.status
    =>
       \A i \in DOMAIN hosts :
          /\ StillUsed(i) => "linked" \in hosts[i].status
          /\ "linked" \in hosts[i].status /\ HostCanBeUpdated(hosts[i].status)
                => StillUsed(i)
=============================================================================
