----------------------------- MODULE HostProofs -----------------------------
(***************************************************************************)
(* Proofs about hosts, for every set of processes, domains, addresses and  *)
(* keys, any number of hosts and whatever the creations carry.             *)
(***************************************************************************)
EXTENDS HostLifecycle, FiniteSetTheorems, TLAPS

(***************************************************************************)
(* What every request carries, in every interleaving: rows that were in    *)
(* the table when it loaded them, so that their statuses are valid, their  *)
(* ids are among the n generated ones and no two of them have the same     *)
(* key.  A domain is saved with the addresses of the host it adds, and of  *)
(* no other.                                                               *)
(***************************************************************************)
UniqueKeys(t) == \A i, j \in DOMAIN t : t[i].key = t[j].key => i = j
ValidStatuses(t) == \A i \in DOMAIN t : HostStatusValid(t[i].status)

HostTable(t, n) ==
    /\ IsHostTable(t) /\ UniqueKeys(t) /\ ValidStatuses(t)
    /\ DOMAIN t \subseteq 1 .. n

RowCarried(r, n) ==
    r.row \in HostRow /\ HostStatusValid(r.row.status) /\ r.id \in 1 .. n

Carried(r, n) ==
    /\ IsHostReq(r)
    /\ r.op \in {"SaveHost", "CountUses", "RemoveAssociation"} => RowCarried(r, n)
    /\ r.op \in {"RemoveAssociation", "SaveDomain"} => HostTable(r.rows, n)
    /\ r.op = "SaveDomain" =>
          \/ r.adding = TRUE /\ r.id \in DOMAIN r.rows /\ r.addrs \subseteq IPs
          \/ r.adding = FALSE /\ r.addrs = {} /\ RowCarried(r, n)

\* The tables refer to each other and to generated ids only.
TablesGood ==
    /\ lastHost \in 0 .. MaxHostId
    /\ HostTable(hosts, lastHost)
    /\ addresses \subseteq (DOMAIN hosts) \X IPs
    /\ uses \subseteq HostDomains \X DOMAIN hosts

TablesInv ==
    /\ TablesGood
    /\ hostReq = [p \in HostProcs |-> hostReq[p]]
    /\ \A p \in HostProcs : Carried(hostReq[p], lastHost)
    /\ disturbed \in BOOLEAN

-----------------------------------------------------------------------------
(* The statuses (host.go).                                                 *)

LEMMA SetStatusValid ==
    ASSUME NEW st \in SUBSET HostFlags, NEW flag \in HostFlags,
           NEW s \in HostSetStatus(st, flag) \cup HostUnsetStatus(st, flag)
    PROVE  s \in SUBSET HostFlags /\ HostStatusValid(s)
<1>1. "ok" \in HostFlags
  BY DEF HostFlags
<1>2. HostStatusValid(s)
  BY DEF HostSetStatus, HostUnsetStatus
<1>3. s = HostUnsetOKIfNeeded(st \cup {flag}) \/ s = HostSetOKIfNeeded(st \ {flag})
  BY DEF HostSetStatus, HostUnsetStatus
<1> QED
  BY <1>1, <1>2, <1>3 DEF HostUnsetOKIfNeeded, HostSetOKIfNeeded

\* What linked becomes; only an update prohibition keeps it from being unset.
LEMMA LinkedSet ==
    ASSUME NEW st, NEW s \in HostSetStatus(st, "linked")
    PROVE  "linked" \in s
BY DEF HostSetStatus, HostUnsetOKIfNeeded

LEMMA LinkedUnset ==
    ASSUME NEW st \in SUBSET HostFlags, HostStatusValid(st)
    PROVE  /\ \A s \in HostUnsetStatus(st, "linked") : "linked" \notin s
           /\ HostUnsetStatus(st, "linked") = {} => ~HostCanBeUpdated(st)
<1> DEFINE s == HostSetOKIfNeeded(st \ {"linked"})
<1>1. "linked" \notin HostRestrictions /\ "ok" \notin HostRestrictions
  BY DEF HostRestrictions, HostPendings, HostUpdateProhibitions, HostDeleteProhibitions
<1>2. s \cap HostRestrictions = st \cap HostRestrictions
  BY <1>1 DEF HostSetOKIfNeeded
<1>3. \A f \in HostRestrictions : f \in s <=> f \in st
  BY <1>2
<1>4. /\ s \cap HostPendings = st \cap HostPendings
      /\ s \cap HostUpdateProhibitions = st \cap HostUpdateProhibitions
      /\ s \cap HostDeleteProhibitions = st \cap HostDeleteProhibitions
      /\ "pendingUpdate" \in s <=> "pendingUpdate" \in st
      /\ "pendingDelete" \in s <=> "pendingDelete" \in st
  BY <1>3 DEF HostRestrictions, HostPendings
<1>5. "ok" \in s <=> s \cap HostRestrictions = {}
  BY <1>2 DEF HostSetOKIfNeeded, HostStatusValid
<1>6. "linked" \notin s
  BY DEF HostSetOKIfNeeded
<1> HIDE DEF s
<1>7. HostStatusValid(s)
  BY <1>4, <1>5 DEF HostStatusValid
<1> QED
  BY <1>6, <1>7 DEF HostUnsetStatus, s

-----------------------------------------------------------------------------
(* Tables of hosts.                                                        *)

LEMMA PartOfTable ==
    ASSUME NEW t, NEW n, HostTable(t, n), NEW S \in SUBSET DOMAIN t
    PROVE  /\ HostTable(Restrict(t, S), n)
           /\ DOMAIN Restrict(t, S) = S
           /\ \A i \in S : Restrict(t, S)[i] = t[i]
BY DEF Restrict, HostTable, IsHostTable, UniqueKeys, ValidStatuses

LEMMA TableRow ==
    ASSUME NEW t, NEW n, HostTable(t, n), NEW i \in DOMAIN t
    PROVE  /\ t[i] \in HostRow /\ HostStatusValid(t[i].status)
           /\ i \in HostIds /\ i \in 1 .. n
BY DEF HostTable, IsHostTable, ValidStatuses

\* Rows with keys that no other row has can be put into the table.
LEMMA WithRows ==
    ASSUME HostTable(hosts, lastHost), NEW rows, NEW n \in Nat,
           lastHost \in Nat, lastHost <= n, HostTable(rows, n),
           \A i \in DOMAIN rows, j \in DOMAIN hosts \ DOMAIN rows :
              rows[i].key # hosts[j].key
    PROVE  /\ HostTable(With(rows), n)
           /\ DOMAIN With(rows) = DOMAIN hosts \cup DOMAIN rows
           /\ \A i \in DOMAIN rows : With(rows)[i] = rows[i]
           /\ \A i \in DOMAIN hosts \ DOMAIN rows : With(rows)[i] = hosts[i]
<1> DEFINE w == With(rows)
<1>1. /\ DOMAIN w = DOMAIN hosts \cup DOMAIN rows
      /\ \A i \in DOMAIN rows : w[i] = rows[i]
      /\ \A i \in DOMAIN hosts \ DOMAIN rows : w[i] = hosts[i]
  BY DEF With
<1>2. w = [i \in DOMAIN w |-> w[i]]
  BY DEF With
<1> HIDE DEF w
<1>3. DOMAIN w \subseteq HostIds /\ DOMAIN w \subseteq 1 .. n
  BY <1>1 DEF HostTable, IsHostTable
<1>4. \A i \in DOMAIN w : w[i] \in HostRow /\ HostStatusValid(w[i].status)
  BY <1>1, TableRow
<1>5. UniqueKeys(w)
  BY <1>1 DEF HostTable, UniqueKeys
<1> QED
  BY <1>1, <1>2, <1>3, <1>4, <1>5 DEF HostTable, IsHostTable, ValidStatuses, w

\* What a request carries stays good while ids are generated.
LEMMA CarriedLater ==
    ASSUME NEW r, NEW m \in Nat, NEW n \in Nat, m <= n, Carried(r, m)
    PROVE  Carried(r, n)
<1>1. \A t : HostTable(t, m) => HostTable(t, n)
  BY DEF HostTable
<1>2. RowCarried(r, m) => RowCarried(r, n)
  BY DEF RowCarried
<1> QED
  BY <1>1, <1>2 DEF Carried

LEMMA NothingCarried == \A n : Carried(NoHostReq, n)
BY DEF NoHostReq, Carried, IsHostReq

\* A step of p leaves the invariant if the tables and its request are good.
LEMMA CarryingKeeps ==
    ASSUME TablesInv, NEW p \in HostProcs, NEW next,
           hostReq' = [hostReq EXCEPT ![p] = next], Carried(next, lastHost'),
           TablesGood', lastHost <= lastHost', disturbed' \in BOOLEAN
    PROVE  TablesInv'
<1>1. lastHost \in Nat /\ lastHost' \in Nat
  BY DEF TablesInv, TablesGood
<1>2. \A q \in HostProcs : Carried(hostReq[q], lastHost')
  BY <1>1, CarriedLater DEF TablesInv
<1>3. \A q \in HostProcs : hostReq'[q] = IF q = p THEN next ELSE hostReq[q]
  BY DEF TablesInv
<1>4. hostReq' = [q \in HostProcs |-> hostReq'[q]]
  BY DEF TablesInv
<1> QED
  BY <1>2, <1>3, <1>4 DEF TablesInv

\* The two ways a step may disturb.
LEMMA DisturbedType ==
    ASSUME TablesInv, NEW p, NEW b \in BOOLEAN,
           disturbed' = (disturbed \/ HostBusy(p)) \/
           disturbed' = (disturbed \/ HostBusy(p) \/ b)
    PROVE  disturbed' \in BOOLEAN
BY Zenon DEF TablesInv
\* The same, for a step that is not known to be delayed.
LEMMA ProceedingKeeps ==
    ASSUME TablesInv, NEW p \in HostProcs, NEW next, Proceed(p, next),
           Carried(next, lastHost'), TablesGood', lastHost <= lastHost'
    PROVE  TablesInv'
<1>1. hostReq' = [hostReq EXCEPT ![p] = next]
  BY DEF Proceed
<1>2. disturbed' \in BOOLEAN
  BY DisturbedType DEF Proceed
<1> QED
  BY <1>1, <1>2, CarryingKeeps

LEMMA GeneratedIds ==
    ASSUME TablesGood
    PROVE  lastHost \in Nat /\ lastHost <= MaxHostId /\ MaxHostId \in Nat
BY HostLifecycleAssumption DEF TablesGood

\* What a command creates is a valid row, with no more addresses than fit.
LEMMA CreatedRow ==
    ASSUME NEW cmd \in NewHosts, HostAcceptable(cmd)
    PROVE  /\ HostOf(cmd) \in HostRow /\ HostStatusValid(HostOf(cmd).status)
           /\ HostOf(cmd).key = cmd.key
           /\ cmd.addrs \in SUBSET IPs /\ Cardinality(cmd.addrs) <= MaxAddresses
<1>1. cmd \in [key : HostKeys, status : SUBSET HostFlags, addrs : SUBSET IPs]
  BY HostLifecycleAssumption
<1>2. "ok" \in HostFlags
  BY DEF HostFlags
<1> QED
  BY <1>1, <1>2 DEF HostAcceptable, HostOf, HostStatusOf, HostRow

LEMMA AddAddressesCarried ==
    ASSUME NEW n \in Nat, NEW i \in HostIds, NEW addrs \in SUBSET IPs
    PROVE  Carried(AddAddresses(i, addrs), n)
BY NothingCarried DEF AddAddresses, Carried, IsHostReq

-----------------------------------------------------------------------------
(* The steps, and what they leave of the tables.                           *)

LEMMA CreateHostTables ==
    ASSUME TablesInv, NEW p \in HostProcs, NEW cmd \in NewHosts, CreateHost(p, cmd)
    PROVE  TablesInv'
<1> DEFINE rows == [i \in {lastHost + 1} |-> HostOf(cmd)]
<1>0. /\ lastHost \in Nat /\ MaxHostId \in Nat /\ HostTable(hosts, lastHost)
      /\ addresses \subseteq (DOMAIN hosts) \X IPs
      /\ uses \subseteq HostDomains \X DOMAIN hosts
  BY GeneratedIds DEF TablesInv, TablesGood
<1>1. /\ lastHost \in Nat /\ lastHost + 1 \in HostIds
      /\ lastHost' = lastHost + 1 /\ lastHost' \in 0 .. MaxHostId
      /\ HostTable(hosts, lastHost)
  BY <1>0 DEF CreateHost, HostIds
<1>2. HostOf(cmd) \in HostRow /\ HostStatusValid(HostOf(cmd).status)
      /\ HostOf(cmd).key = cmd.key /\ cmd.addrs \in SUBSET IPs
  BY CreatedRow DEF CreateHost
<1>3. HostTable(rows, lastHost + 1)
  BY <1>1, <1>2 DEF HostTable, IsHostTable, UniqueKeys, ValidStatuses
<1>4. \A i \in DOMAIN rows, j \in DOMAIN hosts \ DOMAIN rows : rows[i].key # hosts[j].key
  BY <1>2 DEF CreateHost, KeyFree
<1>5. hosts' = With(rows)
  BY <1>1 DEF CreateHost
<1> HIDE DEF rows
<1>6. lastHost + 1 \in Nat /\ lastHost <= lastHost + 1
  BY <1>1
<1>7. HostTable(hosts', lastHost + 1) /\ DOMAIN hosts' = DOMAIN hosts \cup DOMAIN rows
  BY <1>1, <1>3, <1>4, <1>5, <1>6, WithRows
<1>9. UNCHANGED <<addresses, uses>>
  BY DEF CreateHost
<1>10. TablesGood'
  BY <1>0, <1>1, <1>7, <1>9 DEF TablesGood
<1>8. Carried(AddAddresses(lastHost', cmd.addrs), lastHost')
  BY <1>1, <1>2, AddAddressesCarried
<1> QED
  BY <1>1, <1>6, <1>8, <1>10, ProceedingKeeps DEF CreateHost, Accepting

LEMMA BulkCreateHostsTables ==
    ASSUME TablesInv, NEW p \in HostProcs, NEW one \in NewHosts, NEW two \in NewHosts,
           BulkCreateHosts(p, one, two)
    PROVE  TablesInv'
<1> DEFINE rows == [i \in {lastHost + 1, lastHost + 2} |->
                       HostOf(IF i = lastHost + 1 THEN one ELSE two)]
<1>0. /\ lastHost \in Nat /\ MaxHostId \in Nat /\ HostTable(hosts, lastHost)
      /\ addresses \subseteq (DOMAIN hosts) \X IPs
      /\ uses \subseteq HostDomains \X DOMAIN hosts
  BY GeneratedIds DEF TablesInv, TablesGood
<1>1. /\ lastHost \in Nat /\ lastHost' = lastHost + 2 /\ lastHost' \in 0 .. MaxHostId
      /\ lastHost + 1 \in HostIds /\ lastHost + 2 \in HostIds
      /\ HostTable(hosts, lastHost)
  BY <1>0 DEF BulkCreateHosts, HostIds
<1>2. \A cmd \in {one, two} :
         /\ HostOf(cmd) \in HostRow /\ HostStatusValid(HostOf(cmd).status)
         /\ HostOf(cmd).key = cmd.key /\ cmd.addrs \in SUBSET IPs
  BY CreatedRow DEF BulkCreateHosts
<1>3. /\ DOMAIN rows = {lastHost + 1, lastHost + 2}
      /\ rows[lastHost + 1] = HostOf(one) /\ rows[lastHost + 2] = HostOf(two)
      /\ rows = [i \in DOMAIN rows |-> rows[i]]
  BY <1>1
<1>4. /\ one.key # two.key /\ KeyFree(one.key) /\ KeyFree(two.key)
      /\ hosts' = With(rows)
      /\ addresses' = addresses \cup {<<lastHost + 1, a>> : a \in one.addrs}
                                \cup {<<lastHost + 2, a>> : a \in two.addrs}
  BY DEF BulkCreateHosts
<1> HIDE DEF rows
<1>5. HostTable(rows, lastHost + 2)
  BY <1>1, <1>2, <1>3, <1>4 DEF HostTable, IsHostTable, UniqueKeys, ValidStatuses
<1>6. \A i \in DOMAIN rows, j \in DOMAIN hosts \ DOMAIN rows : rows[i].key # hosts[j].key
  BY <1>2, <1>3, <1>4 DEF KeyFree
<1>7. HostTable(hosts', lastHost') /\ DOMAIN hosts' = DOMAIN hosts \cup DOMAIN rows
  BY <1>1, <1>4, <1>5, <1>6, WithRows
<1>8. addresses' \subseteq (DOMAIN hosts') \X IPs
  <2> SUFFICES ASSUME NEW x \in addresses'
               PROVE  x \in (DOMAIN hosts') \X IPs
    OBVIOUS
  <2>1. CASE x \in addresses
    BY <1>0, <1>7, <2>1
  <2>2. CASE x \in {<<lastHost + 1, a>> : a \in one.addrs}
    BY <1>2, <1>3, <1>7, <2>2
  <2>3. CASE x \in {<<lastHost + 2, a>> : a \in two.addrs}
    BY <1>2, <1>3, <1>7, <2>3
  <2> QED
    BY <1>4, <2>1, <2>2, <2>3
<1>9. TablesGood'
  BY <1>1, <1>7, <1>8 DEF TablesGood, TablesInv, BulkCreateHosts
<1> QED
  BY <1>1, <1>9, NothingCarried, ProceedingKeeps DEF BulkCreateHosts, Accepting

\* A step that leaves the tables of hosts and associations alone, and adds at
\* most addresses of hosts that are there.
LEMMA RowsUnchanged ==
    ASSUME TablesInv, NEW p \in HostProcs, NEW next, Proceed(p, next),
           Carried(next, lastHost), UNCHANGED <<hosts, lastHost>>,
           uses' \subseteq uses, addresses' \subseteq (DOMAIN hosts) \X IPs
    PROVE  TablesInv'
<1>1. lastHost \in Nat /\ lastHost' = lastHost
  BY GeneratedIds DEF TablesInv
<1>2. TablesGood'
  BY DEF TablesInv, TablesGood
<1> QED
  BY <1>1, <1>2, ProceedingKeeps

LEMMA CreateNextAddressTables ==
    ASSUME TablesInv, NEW p \in HostProcs, CreateNextAddress(p)
    PROVE  TablesInv'
<1> DEFINE r == hostReq[p]
<1>1. /\ r.op = "AddAddresses" /\ Carried(r, lastHost) /\ r.id \in DOMAIN hosts
      /\ addresses \subseteq (DOMAIN hosts) \X IPs
  BY DEF CreateNextAddress, TablesInv, TablesGood
<1> lastHost \in Nat
  BY GeneratedIds DEF TablesInv
<1>2. r.id \in HostIds /\ r.addrs \in SUBSET IPs
  BY <1>1 DEF Carried, IsHostReq, NoHostReq
<1>3. PICK a \in r.addrs : /\ addresses' = addresses \cup {<<r.id, a>>}
                           /\ Proceed(p, AddAddresses(r.id, r.addrs \ {a}))
  BY DEF CreateNextAddress
<1>4. UNCHANGED <<hosts, uses, lastHost>>
  BY DEF CreateNextAddress
<1> HIDE DEF r
<1>5. Carried(AddAddresses(r.id, r.addrs \ {a}), lastHost)
  BY <1>1, <1>2, AddAddressesCarried
<1>6. addresses' \subseteq (DOMAIN hosts) \X IPs
  <2> SUFFICES ASSUME NEW x \in addresses'
               PROVE  x \in (DOMAIN hosts) \X IPs
    OBVIOUS
  <2>1. a \in IPs
    BY <1>2
  <2>2. CASE x \in addresses
    BY <1>1, <2>2
  <2>3. CASE x = <<r.id, a>>
    BY <1>1, <2>1, <2>3
  <2> QED
    BY <1>3, <2>2, <2>3
<1> QED
  BY <1>3, <1>4, <1>5, <1>6, RowsUnchanged

LEMMA DeleteHostTables ==
    ASSUME TablesInv, NEW p \in HostProcs, NEW i \in HostIds, DeleteHost(p, i)
    PROVE  TablesInv'
<1>1. /\ HostTable(hosts, lastHost) /\ lastHost' = lastHost /\ lastHost \in Nat
      /\ hosts' = Restrict(hosts, DOMAIN hosts \ {i})
  BY GeneratedIds DEF DeleteHost, TablesInv, TablesGood
<1>2. HostTable(hosts', lastHost') /\ DOMAIN hosts' = DOMAIN hosts \ {i}
  BY <1>1, PartOfTable
<1>3. addresses' \subseteq (DOMAIN hosts') \X IPs
  <2> SUFFICES ASSUME NEW x \in addresses'
               PROVE  x \in (DOMAIN hosts') \X IPs
    OBVIOUS
  <2>1. x \in (DOMAIN hosts) \X IPs /\ x[1] # i
    BY DEF DeleteHost, TablesInv, TablesGood
  <2> QED
    BY <1>2, <2>1
<1>4. uses' \subseteq HostDomains \X DOMAIN hosts'
  BY <1>2 DEF DeleteHost, Deletable, TablesInv, TablesGood
<1>5. TablesGood'
  BY <1>1, <1>2, <1>3, <1>4 DEF TablesGood, TablesInv
<1> QED
  BY <1>1, <1>5, NothingCarried, ProceedingKeeps DEF DeleteHost, Accepting
\* The first statement only reads.
LEMMA LoadAddHostAddressTables ==
    ASSUME TablesInv, NEW p \in HostProcs, NEW i \in HostIds, NEW a \in IPs,
           LoadAddHostAddress(p, i, a) \/ LoadRemoveHostAddress(p, i, a)
    PROVE  TablesInv'
<1>1. lastHost \in Nat
  BY GeneratedIds DEF TablesInv
<1>2. Carried(AddAddresses(i, {a}), lastHost)
  BY <1>1, AddAddressesCarried
<1>3. Carried([op |-> "DeleteAddress", id |-> i, addr |-> a], lastHost)
  BY DEF Carried, IsHostReq
<1>4. UNCHANGED <<hosts, addresses, uses, lastHost>>
  BY DEF LoadAddHostAddress, LoadRemoveHostAddress
<1>5. addresses \subseteq (DOMAIN hosts) \X IPs
  BY DEF TablesInv, TablesGood
<1>6. Proceed(p, AddAddresses(i, {a})) \/
      Proceed(p, [op |-> "DeleteAddress", id |-> i, addr |-> a])
  BY DEF LoadAddHostAddress, LoadRemoveHostAddress, Accepting
<1> QED
  BY <1>2, <1>3, <1>4, <1>5, <1>6, RowsUnchanged

LEMMA DeleteAddressTables ==
    ASSUME TablesInv, NEW p \in HostProcs, DeleteAddress(p)
    PROVE  TablesInv'
<1>1. /\ UNCHANGED <<hosts, uses, lastHost>> /\ Proceed(p, NoHostReq)
      /\ addresses' \subseteq addresses /\ addresses \subseteq (DOMAIN hosts) \X IPs
  BY DEF DeleteAddress, TablesInv, TablesGood
<1> QED
  BY <1>1, NothingCarried, RowsUnchanged

\* The rows a domain is loaded with, and the one that is about to be linked.
LEMMA LinkedTable ==
    ASSUME NEW n, HostTable(hosts, n), NEW i \in DOMAIN hosts,
           NEW status \in HostSetStatus(hosts[i].status, "linked")
    PROVE  LET t == [hosts EXCEPT ![i].status = status]
           IN  /\ HostTable(t, n) /\ DOMAIN t = DOMAIN hosts
               /\ t[i] = [hosts[i] EXCEPT !.status = status]
               /\ \A j \in DOMAIN hosts \ {i} : t[j] = hosts[j]
               /\ \A j \in DOMAIN hosts : t[j].key = hosts[j].key
<1> DEFINE t == [hosts EXCEPT ![i].status = status]
<1>1. \A j \in DOMAIN hosts : hosts[j] \in HostRow /\ HostStatusValid(hosts[j].status)
  BY TableRow
<1>2. hosts[i].status \in SUBSET HostFlags /\ "linked" \in HostFlags
  BY <1>1 DEF HostRow, HostFlags
<1>3. status \in SUBSET HostFlags /\ HostStatusValid(status)
  BY <1>2, SetStatusValid
<1>4. hosts = [j \in DOMAIN hosts |-> hosts[j]]
  BY DEF HostTable, IsHostTable
<1>5. /\ DOMAIN t = DOMAIN hosts /\ t[i] = [hosts[i] EXCEPT !.status = status]
      /\ \A j \in DOMAIN hosts \ {i} : t[j] = hosts[j]
      /\ t = [j \in DOMAIN t |-> t[j]]
  BY <1>4
<1> HIDE DEF t
<1>6. /\ t[i] \in HostRow /\ t[i].status = status /\ t[i].key = hosts[i].key
  BY <1>1, <1>3, <1>5 DEF HostRow
<1>7. \A j \in DOMAIN t : t[j] \in HostRow /\ HostStatusValid(t[j].status)
                          /\ t[j].key = hosts[j].key
  BY <1>1, <1>3, <1>5, <1>6
<1>8. HostTable(t, n)
  BY <1>5, <1>7 DEF HostTable, IsHostTable, UniqueKeys, ValidStatuses
<1> QED
  BY <1>5, <1>7, <1>8 DEF t

LEMMA LoadAddHostTables ==
    ASSUME TablesInv, NEW p \in HostProcs, NEW d \in HostDomains, NEW i \in HostIds,
           LoadAddHost(p, d, i)
    PROVE  TablesInv'
<1>1. PICK status \in HostSetStatus(hosts[i].status, "linked") :
         Accepting(p, [op |-> "SaveDomain", domain |-> d, id |-> i,
                       rows |-> Restrict([hosts EXCEPT ![i].status = status],
                                         UsedBy(d) \cup {i}),
                       addrs |-> AddressesOf(i), adding |-> TRUE])
  BY DEF LoadAddHost
<1> DEFINE t == [hosts EXCEPT ![i].status = status]
           rows == Restrict(t, UsedBy(d) \cup {i})
           next == [op |-> "SaveDomain", domain |-> d, id |-> i, rows |-> rows,
                    addrs |-> AddressesOf(i), adding |-> TRUE]
<1>2. /\ i \in DOMAIN hosts /\ HostTable(hosts, lastHost)
      /\ UNCHANGED <<hosts, addresses, uses, lastHost>>
      /\ addresses \subseteq (DOMAIN hosts) \X IPs
  BY DEF LoadAddHost, TablesInv, TablesGood
<1>3. HostTable(t, lastHost) /\ DOMAIN t = DOMAIN hosts
  BY <1>2, LinkedTable
<1>4. Proceed(p, next)
  BY <1>1 DEF Accepting
<1> HIDE DEF t
<1>5. HostTable(rows, lastHost) /\ DOMAIN rows = UsedBy(d) \cup {i}
  <2>1. UsedBy(d) \cup {i} \in SUBSET DOMAIN t
    BY <1>2, <1>3 DEF UsedBy
  <2> QED
    BY <1>3, <2>1, PartOfTable
<1> HIDE DEF rows
<1>6. AddressesOf(i) \subseteq IPs
  BY DEF AddressesOf
<1>7. Carried(next, lastHost)
  BY <1>5, <1>6 DEF Carried, IsHostReq, HostTable
<1> HIDE DEF next
<1> QED
  BY <1>2, <1>4, <1>7, RowsUnchanged

LEMMA LoadRemoveHostTables ==
    ASSUME TablesInv, NEW p \in HostProcs, NEW d \in HostDomains, NEW i \in HostIds,
           LoadRemoveHost(p, d, i)
    PROVE  TablesInv'
<1> DEFINE S == {j \in UsedBy(d) : hosts[j].key.name # hosts[i].key.name}
           rows == Restrict(hosts, S)
           next == [op |-> "RemoveAssociation", domain |-> d, id |-> i,
                    row |-> hosts[i], rows |-> rows]
<1>1. /\ i \in DOMAIN hosts /\ HostTable(hosts, lastHost) /\ Proceed(p, next)
      /\ UNCHANGED <<hosts, addresses, uses, lastHost>>
      /\ addresses \subseteq (DOMAIN hosts) \X IPs
  BY DEF LoadRemoveHost, Accepting, TablesInv, TablesGood
<1>2. HostTable(rows, lastHost)
  <2>1. S \in SUBSET DOMAIN hosts
    BY DEF UsedBy
  <2> HIDE DEF S
  <2> QED
    BY <1>1, <2>1, PartOfTable
<1>3. RowCarried([row |-> hosts[i], id |-> i], lastHost)
  BY <1>1, TableRow DEF RowCarried
<1> HIDE DEF rows
<1>4. Carried(next, lastHost)
  BY <1>2, <1>3 DEF Carried, IsHostReq, HostTable, RowCarried
<1> HIDE DEF next
<1> QED
  BY <1>1, <1>4, RowsUnchanged
LEMMA RemoveAssociationTables ==
    ASSUME TablesInv, NEW p \in HostProcs, RemoveAssociation(p)
    PROVE  TablesInv'
<1> DEFINE r == hostReq[p]
           next == [op |-> "SaveDomain", domain |-> r.domain, id |-> r.id,
                    row |-> r.row, rows |-> r.rows, addrs |-> {}, adding |-> FALSE]
<1>1. /\ r.op = "RemoveAssociation" /\ Carried(r, lastHost) /\ Proceed(p, next)
      /\ UNCHANGED <<hosts, addresses, lastHost>> /\ uses' \subseteq uses
      /\ addresses \subseteq (DOMAIN hosts) \X IPs
  BY DEF RemoveAssociation, TablesInv, TablesGood
<1> HIDE DEF r
<1>2. r.domain \in HostDomains /\ r.id \in HostIds /\ IsHostTable(r.rows)
  BY <1>1 DEF Carried, IsHostReq, NoHostReq
<1>3. Carried(next, lastHost)
  BY <1>1, <1>2 DEF Carried, IsHostReq, RowCarried
<1> HIDE DEF next
<1> QED
  BY <1>1, <1>3, RowsUnchanged

\* The rows that are put back have keys that nobody has.
LEMMA PuttingBack ==
    ASSUME HostTable(hosts, lastHost), lastHost \in Nat, NEW rows, HostTable(rows, lastHost)
    PROVE  /\ HostTable(With(PutBack(rows)), lastHost)
           /\ DOMAIN With(PutBack(rows)) = DOMAIN hosts \cup DOMAIN PutBack(rows)
           /\ \A i \in DOMAIN hosts : With(PutBack(rows))[i] = hosts[i]
<1> DEFINE S == {i \in DOMAIN rows \ DOMAIN hosts : KeyFree(rows[i].key)}
<1>1. PutBack(rows) = Restrict(rows, S)
  BY DEF PutBack
<1>2. S \in SUBSET DOMAIN rows /\ S \cap DOMAIN hosts = {}
  OBVIOUS
<1>3. \A i \in S, j \in DOMAIN hosts : rows[i].key # hosts[j].key
  BY DEF KeyFree
<1> HIDE DEF S
<1>4. HostTable(PutBack(rows), lastHost) /\ DOMAIN PutBack(rows) = S
      /\ \A i \in S : PutBack(rows)[i] = rows[i]
  BY <1>1, <1>2, PartOfTable
<1>5. lastHost <= lastHost
  OBVIOUS
<1>6. \A i \in DOMAIN PutBack(rows), j \in DOMAIN hosts \ DOMAIN PutBack(rows) :
         PutBack(rows)[i].key # hosts[j].key
  BY <1>3, <1>4
<1>7. DOMAIN hosts \subseteq DOMAIN hosts \ DOMAIN PutBack(rows)
  BY <1>2, <1>4
<1> QED
  BY <1>4, <1>5, <1>6, <1>7, WithRows

LEMMA SaveDomainTables ==
    ASSUME TablesInv, NEW p \in HostProcs, SaveDomainWithHosts(p)
    PROVE  TablesInv'
<1> DEFINE r == hostReq[p]
           back == PutBack(r.rows)
           next == IF r.adding
                      THEN [op |-> "SaveHost", id |-> r.id, row |-> r.rows[r.id]]
                      ELSE [op |-> "CountUses", id |-> r.id, row |-> r.row]
<1>1. /\ r.op = "SaveDomain" /\ Carried(r, lastHost) /\ Proceed(p, next)
      /\ DOMAIN r.rows \subseteq DOMAIN hosts \cup DOMAIN back /\ hosts' = With(back)
      /\ addresses' = addresses \cup {<<r.id, a>> : a \in r.addrs}
      /\ uses' = uses \cup {<<r.domain, i>> : i \in DOMAIN r.rows}
      /\ lastHost' = lastHost
  BY DEF SaveDomainWithHosts, TablesInv
<1>2. /\ HostTable(hosts, lastHost) /\ addresses \subseteq (DOMAIN hosts) \X IPs
      /\ uses \subseteq HostDomains \X (DOMAIN hosts) /\ lastHost \in 0 .. MaxHostId
  BY DEF TablesInv, TablesGood
<1>3. lastHost \in Nat
  BY GeneratedIds DEF TablesInv
<1> HIDE DEF r
<1>4. /\ r.domain \in HostDomains /\ r.id \in HostIds /\ HostTable(r.rows, lastHost)
  BY <1>1 DEF Carried, IsHostReq, NoHostReq
<1>5. \/ r.adding = TRUE /\ r.id \in DOMAIN r.rows /\ r.addrs \subseteq IPs
      \/ r.adding = FALSE /\ r.addrs = {} /\ RowCarried(r, lastHost)
  BY <1>1 DEF Carried
<1>6. /\ HostTable(hosts', lastHost) /\ DOMAIN hosts' = DOMAIN hosts \cup DOMAIN back
  BY <1>1, <1>2, <1>3, <1>4, PuttingBack
<1> HIDE DEF back
<1>7. addresses' \subseteq (DOMAIN hosts') \X IPs
  BY <1>1, <1>2, <1>5, <1>6
<1>8. uses' \subseteq HostDomains \X (DOMAIN hosts')
  BY <1>1, <1>2, <1>4, <1>6
<1>9. TablesGood'
  BY <1>1, <1>2, <1>6, <1>7, <1>8 DEF TablesGood
<1>10. Carried(next, lastHost)
  <2>1. CASE r.adding = TRUE
    <3>1. r.id \in DOMAIN r.rows
      BY <1>5, <2>1
    <3>2. r.rows[r.id] \in HostRow /\ HostStatusValid(r.rows[r.id].status)
          /\ r.id \in 1 .. lastHost
      BY <1>4, <3>1, TableRow
    <3> QED
      BY <1>4, <2>1, <3>2 DEF Carried, IsHostReq, RowCarried
  <2>2. CASE r.adding = FALSE
    BY <1>4, <1>5, <2>2 DEF Carried, IsHostReq, RowCarried
  <2> QED
    BY <1>5, <2>1, <2>2
<1> HIDE DEF next
<1> QED
  BY <1>1, <1>3, <1>9, <1>10, ProceedingKeeps

LEMMA CountUsesTables ==
    ASSUME TablesInv, NEW p \in HostProcs, NEW failing \in BOOLEAN,
           CountUses(p, failing)
    PROVE  TablesInv'
<1> DEFINE r == hostReq[p]
           unset == HostUnsetStatus(r.row.status, "linked")
           Write(status) == [op |-> "SaveHost", id |-> r.id,
                             row |-> [r.row EXCEPT !.status = status]]
<1>1. /\ r.op = "CountUses" /\ Carried(r, lastHost)
      /\ UNCHANGED <<hosts, addresses, uses, lastHost>>
      /\ disturbed' = (disturbed \/ HostBusy(p) \/ failing)
  BY DEF CountUses, TablesInv
<1>2. PICK status \in IF unset = {} THEN {r.row.status} ELSE unset :
         hostReq' = [hostReq EXCEPT ![p] =
            IF StillUsed(r.id) /\ ~failing THEN NoHostReq ELSE Write(status)]
  BY DEF CountUses
<1>3. TablesGood' /\ lastHost \in Nat
  BY <1>1, GeneratedIds DEF TablesGood, TablesInv
<1>4. disturbed' \in BOOLEAN
  BY <1>1, DisturbedType
<1>5. /\ r.row \in HostRow /\ HostStatusValid(r.row.status)
      /\ r.id \in HostIds /\ r.id \in 1 .. lastHost
  BY <1>1 DEF Carried, RowCarried, IsHostReq, NoHostReq
<1>6. r.row.status \in SUBSET HostFlags /\ "linked" \in HostFlags
  BY <1>5 DEF HostRow, HostFlags
<1>7. status \in SUBSET HostFlags /\ HostStatusValid(status)
  BY <1>2, <1>5, <1>6, SetStatusValid
<1> HIDE DEF unset, r
<1>8. Carried(Write(status), lastHost)
  <2>1. [r.row EXCEPT !.status = status] \in HostRow
        /\ [r.row EXCEPT !.status = status].status = status
    BY <1>5, <1>7 DEF HostRow
  <2> QED
    BY <1>5, <1>7, <2>1 DEF Carried, IsHostReq, RowCarried
<1> HIDE DEF Write
<1>9. PICK next : hostReq' = [hostReq EXCEPT ![p] = next] /\ Carried(next, lastHost)
  <2>1. CASE StillUsed(r.id) /\ ~failing
    BY <1>2, <2>1, NothingCarried
  <2>2. CASE ~(StillUsed(r.id) /\ ~failing)
    BY <1>2, <1>8, <2>2
  <2> QED
    BY <2>1, <2>2
<1>10. lastHost' = lastHost /\ lastHost <= lastHost'
  BY <1>1, <1>3
<1> QED
  BY <1>3, <1>4, <1>9, <1>10, CarryingKeeps

LEMMA UpdateHostTables ==
    ASSUME TablesInv, NEW p \in HostProcs, UpdateHost(p)
    PROVE  TablesInv'
<1> DEFINE r == hostReq[p]
           rows == [i \in {r.id} |-> r.row]
<1>1. /\ r.op = "SaveHost" /\ Carried(r, lastHost) /\ hosts' = With(rows)
      /\ HostSaveable(r.id, r.row)
      /\ Proceed(p, NoHostReq) /\ UNCHANGED <<addresses, uses, lastHost>>
  BY DEF UpdateHost, TablesInv
<1>2. /\ HostTable(hosts, lastHost) /\ addresses \subseteq (DOMAIN hosts) \X IPs
      /\ uses \subseteq HostDomains \X (DOMAIN hosts) /\ lastHost \in 0 .. MaxHostId
  BY DEF TablesInv, TablesGood
<1>3. lastHost \in Nat
  BY GeneratedIds DEF TablesInv
<1>4. /\ r.row \in HostRow /\ HostStatusValid(r.row.status)
      /\ r.id \in HostIds /\ r.id \in 1 .. lastHost
  BY <1>1 DEF Carried, RowCarried, IsHostReq, NoHostReq
<1> HIDE DEF r
<1>5. HostTable(rows, lastHost)
  BY <1>4 DEF HostTable, IsHostTable, UniqueKeys, ValidStatuses
<1>6. \A i \in DOMAIN rows, j \in DOMAIN hosts \ DOMAIN rows : rows[i].key # hosts[j].key
  BY <1>1 DEF HostSaveable
<1> HIDE DEF rows
<1>7. HostTable(hosts', lastHost) /\ DOMAIN hosts' = DOMAIN hosts \cup DOMAIN rows
  <2>1. lastHost <= lastHost
    BY <1>3
  <2> QED
    BY <2>1, <1>1, <1>2, <1>3, <1>5, <1>6, WithRows
<1>8. TablesGood'
  BY <1>1, <1>2, <1>7 DEF TablesGood
<1>9. Proceed(p, NoHostReq) /\ lastHost <= lastHost'
  BY <1>1, <1>3
<1> QED
  BY <1>8, <1>9, NothingCarried, ProceedingKeeps

LEMMA HostFailTables ==
    ASSUME TablesInv, NEW p \in HostProcs, HostFail(p)
    PROVE  TablesInv'
<1>1. TablesGood' /\ lastHost \in Nat /\ lastHost' = lastHost
  BY GeneratedIds DEF TablesInv, TablesGood, HostFail
<1>2. /\ hostReq' = [hostReq EXCEPT ![p] = NoHostReq]
      /\ disturbed' \in BOOLEAN /\ lastHost <= lastHost'
  BY <1>1 DEF HostFail
<1> QED
  BY <1>1, <1>2, NothingCarried, CarryingKeeps

-----------------------------------------------------------------------------
LEMMA TablesInit ==
    HostInit => TablesInv
<1> SUFFICES ASSUME HostInit PROVE TablesInv
  OBVIOUS
<1>1. DOMAIN hosts = {} /\ hosts \in [DOMAIN hosts -> HostRow]
  BY DEF HostInit
<1>2. HostTable(hosts, lastHost)
  BY <1>1 DEF HostTable, IsHostTable, UniqueKeys, ValidStatuses
<1>3. lastHost \in 0 .. MaxHostId
  BY HostLifecycleAssumption DEF HostInit
<1>4. TablesGood
  BY <1>2, <1>3 DEF TablesGood, HostInit
<1>5. /\ hostReq = [p \in HostProcs |-> hostReq[p]]
      /\ \A p \in HostProcs : hostReq[p] = NoHostReq
  BY DEF HostInit
<1> QED
  BY <1>4, <1>5, NothingCarried DEF TablesInv, HostInit

LEMMA TablesStep ==
    ASSUME TablesInv, [HostNext]_hostVars
    PROVE  TablesInv'
<1>1. CASE UNCHANGED hostVars
  BY <1>1 DEF hostVars, TablesInv, TablesGood
<1>2. ASSUME NEW p \in HostProcs, HostAccept(p) PROVE TablesInv'
  BY <1>2, CreateHostTables, BulkCreateHostsTables, DeleteHostTables,
     LoadAddHostAddressTables, LoadAddHostTables, LoadRemoveHostTables DEF HostAccept
<1>3. ASSUME NEW p \in HostProcs, HostServe(p) PROVE TablesInv'
  BY <1>3, CreateNextAddressTables, DeleteAddressTables, RemoveAssociationTables,
     SaveDomainTables, CountUsesTables, UpdateHostTables, HostFailTables DEF HostServe
<1> QED
  BY <1>1, <1>2, <1>3 DEF HostNext

LEMMA TablesInvariant == HostSpec => []TablesInv
BY TablesInit, TablesStep, PTL DEF HostSpec

\* In every interleaving, with deaths between statements and saves of stale
\* rows that put deleted hosts back, addresses and associations have their
\* host, the names of a registrar's hosts differ and every status is valid.
THEOREM HostTablesStayConsistent == HostSpec => []HostTablesConsistent
<1>1. TablesInv => HostTablesConsistent
  BY DEF TablesInv, TablesGood, HostTable, UniqueKeys, ValidStatuses,
     HostTablesConsistent
<1> QED
  BY <1>1, TablesInvariant, PTL
-----------------------------------------------------------------------------
(***************************************************************************)
(* As long as no step falls into another request and none dies, one        *)
(* request at most is under way, and what it loaded is still in the        *)
(* tables.  A host tells whether it is used, except that the flag follows  *)
(* the association by a statement or two.                                  *)
(***************************************************************************)
Linked(row) == "linked" \in row.status

Tells(row, i) ==
    /\ StillUsed(i) => Linked(row)
    /\ Linked(row) /\ HostCanBeUpdated(row.status) => StillUsed(i)

Associated(d, rows, i) == \A j \in DOMAIN rows \ {i} : <<d, j>> \in uses

Latest(r) ==
    /\ r.op = "AddAddresses" =>
          Cardinality(AddressesOf(r.id) \cup r.addrs) <= MaxAddresses
    /\ r.op \in {"RemoveAssociation", "CountUses"} =>
          r.id \in DOMAIN hosts /\ r.row = hosts[r.id]
    /\ r.op = "RemoveAssociation" =>
          r.id \notin DOMAIN r.rows /\ Associated(r.domain, r.rows, r.id)
    /\ r.op = "SaveDomain" =>
          /\ r.id \in DOMAIN hosts /\ DOMAIN r.rows \subseteq DOMAIN hosts
          /\ Associated(r.domain, r.rows, r.id)
          /\ r.adding => r.addrs = AddressesOf(r.id) /\ Linked(r.rows[r.id])
          /\ ~r.adding => r.id \notin DOMAIN r.rows /\ r.row = hosts[r.id]
    /\ r.op = "SaveHost" => r.id \in DOMAIN hosts /\ Tells(r.row, r.id)

\* The host whose flag is about to be written, and whose flag may be too many.
Writing(r, i) == r.op = "SaveHost" /\ r.id = i
Removing(r, i) ==
    (r.op = "CountUses" \/ (r.op = "SaveDomain" /\ ~r.adding)) /\ r.id = i

NoneLinked == \A cmd \in NewHosts : "linked" \notin cmd.status

\* What the flag of host i tells while r is under way.
Told(r, i) ==
    ~Writing(r, i) =>
       /\ StillUsed(i) => Linked(hosts[i])
       /\ NoneLinked /\ ~Removing(r, i) => Tells(hosts[i], i)

Calm(r) ==
    /\ Latest(r)
    /\ \A i \in DOMAIN hosts : Cardinality(AddressesOf(i)) <= MaxAddresses
    /\ \A i \in DOMAIN hosts : Told(r, i)

CalmInv ==
    /\ \A p \in HostProcs : hostReq[p] # NoHostReq => Calm(hostReq[p])
    /\ (\A p \in HostProcs : hostReq[p] = NoHostReq) => Calm(NoHostReq)
    /\ \A p, q \in HostProcs :
          hostReq[p] # NoHostReq /\ hostReq[q] # NoHostReq => p = q

HostInv == TablesInv /\ (~disturbed => CalmInv)

\* A step that disturbs nothing finds its process alone.
LEMMA Undisturbed ==
    ASSUME HostInv, NEW p \in HostProcs, NEW next, Proceed(p, next), ~disturbed'
    PROVE  /\ ~disturbed /\ Calm(hostReq[p])
           /\ \A q \in HostProcs \ {p} : hostReq[q] = NoHostReq
           /\ hostReq' = [hostReq EXCEPT ![p] = next]
<1>1. /\ ~disturbed /\ ~HostBusy(p)
      /\ hostReq' = [hostReq EXCEPT ![p] = next]
  BY Zenon DEF Proceed
<1>2. \A q \in HostProcs \ {p} : hostReq[q] = NoHostReq
  BY <1>1 DEF HostBusy
<1>3. CalmInv
  BY <1>1 DEF HostInv
<1> QED
  BY <1>1, <1>2, <1>3 DEF CalmInv

\* and leaves one request at most under way.
LEMMA CalmKept ==
    ASSUME TablesInv, NEW p \in HostProcs, NEW next,
           hostReq' = [hostReq EXCEPT ![p] = next],
           \A q \in HostProcs \ {p} : hostReq[q] = NoHostReq,
           Calm(next)'
    PROVE  CalmInv'
<1>1. \A q \in HostProcs : hostReq'[q] = IF q = p THEN next ELSE NoHostReq
  BY DEF TablesInv
<1>2. \A q \in HostProcs \ {p} : hostReq'[q] = NoHostReq
  BY <1>1
<1>3. \A q, s \in HostProcs :
         hostReq'[q] # NoHostReq /\ hostReq'[s] # NoHostReq => q = s
  BY <1>1
<1>4. \A q \in HostProcs : hostReq'[q] # NoHostReq => Calm(hostReq[q])'
  <2> SUFFICES ASSUME NEW q \in HostProcs, hostReq'[q] # NoHostReq
               PROVE  Calm(hostReq[q])'
    OBVIOUS
  <2>1. hostReq'[q] = next
    BY <1>1
  <2> QED
    BY <2>1 DEF Calm, Latest, Told, Writing, Removing, Tells, Linked, Associated,
       StillUsed, AddressesOf
<1>5. (\A q \in HostProcs : hostReq'[q] = NoHostReq) => Calm(NoHostReq)'
  <2> SUFFICES ASSUME \A q \in HostProcs : hostReq'[q] = NoHostReq
               PROVE  Calm(NoHostReq)'
    OBVIOUS
  <2>1. next = NoHostReq
    BY <1>1
  <2> QED
    BY <2>1 DEF Calm, Latest, Told, Writing, Removing, Tells, Linked, Associated,
       StillUsed, AddressesOf
<1> QED
  BY <1>3, <1>4, <1>5 DEF CalmInv
LEMMA AddressesFinite ==
    \A i : IsFiniteSet(AddressesOf(i)) /\ AddressesOf(i) \subseteq IPs
<1>1. \A i : AddressesOf(i) \subseteq IPs
  BY DEF AddressesOf
<1> QED
  BY <1>1, HostLifecycleAssumption, FS_Subset

\* A request that neither writes nor removes tells what no request tells.
LEMMA NothingToTell ==
    ASSUME NEW r, NEW s, r.op # "SaveHost",
           s.op \notin {"SaveHost", "CountUses"}, s.op = "SaveDomain" => s.adding,
           NEW i, Told(s, i)
    PROVE  Told(r, i)
BY DEF Told, Writing, Removing

LEMMA AddingAddresses ==
    ASSUME NEW i, NEW addrs, NEW r, r = AddAddresses(i, addrs),
           addrs # {} => Cardinality(AddressesOf(i) \cup addrs) <= MaxAddresses
    PROVE  Latest(r) /\ r.op \in {"idle", "AddAddresses"}
BY DEF AddAddresses, NoHostReq, Latest

LEMMA IdleCalm ==
    NoHostReq.op = "idle" /\ Latest(NoHostReq)
BY DEF NoHostReq, Latest

\* The first statement only reads: the request starts with the latest rows.
LEMMA ReadingCalm ==
    ASSUME HostInv, NEW p \in HostProcs, NEW next, Accepting(p, next), ~disturbed',
           UNCHANGED <<hosts, addresses, uses>>, Latest(next),
           next.op \notin {"SaveHost", "CountUses"}, next.op = "SaveDomain" => next.adding
    PROVE  CalmInv'
<1>1. /\ hostReq[p] = NoHostReq /\ Calm(hostReq[p])
      /\ \A q \in HostProcs \ {p} : hostReq[q] = NoHostReq
      /\ hostReq' = [hostReq EXCEPT ![p] = next]
  BY Undisturbed DEF Accepting
<1>2. \A i \in DOMAIN hosts : Told(next, i)
  BY <1>1, IdleCalm, NothingToTell DEF Calm
<1>3. Calm(next)
  BY <1>1, <1>2 DEF Calm
<1>4. Calm(next)'
  BY <1>3 DEF Calm, Latest, Told, Writing, Removing, Tells, Linked, Associated,
     StillUsed, AddressesOf
<1> QED
  BY <1>1, <1>4, CalmKept DEF HostInv

LEMMA LoadAddHostAddressCalm ==
    ASSUME HostInv, NEW p \in HostProcs, NEW i \in HostIds, NEW a \in IPs,
           LoadAddHostAddress(p, i, a), ~disturbed'
    PROVE  CalmInv'
<1>1. PICK next : Accepting(p, next) /\ next = AddAddresses(i, {a})
  BY DEF LoadAddHostAddress
<1>2. /\ UNCHANGED <<hosts, addresses, uses>>
      /\ Cardinality(AddressesOf(i)) < MaxAddresses /\ a \notin AddressesOf(i)
  BY DEF LoadAddHostAddress
<1>3. /\ Cardinality(AddressesOf(i) \cup {a}) = Cardinality(AddressesOf(i)) + 1
      /\ Cardinality(AddressesOf(i)) \in Nat /\ MaxAddresses \in Nat
  BY <1>2, AddressesFinite, FS_AddElement, FS_CardinalityType, HostLifecycleAssumption
<1>4. Cardinality(AddressesOf(i) \cup {a}) <= MaxAddresses
  BY <1>2, <1>3
<1>5. Latest(next) /\ next.op \in {"idle", "AddAddresses"}
  BY <1>1, <1>4, AddingAddresses
<1> QED
  BY <1>1, <1>2, <1>5, ReadingCalm

LEMMA LoadRemoveHostAddressCalm ==
    ASSUME HostInv, NEW p \in HostProcs, NEW i \in HostIds, NEW a \in IPs,
           LoadRemoveHostAddress(p, i, a), ~disturbed'
    PROVE  CalmInv'
<1>1. PICK next : /\ Accepting(p, next)
                  /\ next = [op |-> "DeleteAddress", id |-> i, addr |-> a]
  BY DEF LoadRemoveHostAddress
<1>2. UNCHANGED <<hosts, addresses, uses>>
  BY DEF LoadRemoveHostAddress
<1>3. Latest(next) /\ next.op = "DeleteAddress"
  BY <1>1 DEF Latest
<1> QED
  BY <1>1, <1>2, <1>3, ReadingCalm

LEMMA LoadAddHostCalm ==
    ASSUME HostInv, NEW p \in HostProcs, NEW d \in HostDomains, NEW i \in HostIds,
           LoadAddHost(p, d, i), ~disturbed'
    PROVE  CalmInv'
<1>1. PICK status \in HostSetStatus(hosts[i].status, "linked") :
         Accepting(p, [op |-> "SaveDomain", domain |-> d, id |-> i,
                       rows |-> Restrict([hosts EXCEPT ![i].status = status],
                                         UsedBy(d) \cup {i}),
                       addrs |-> AddressesOf(i), adding |-> TRUE])
  BY DEF LoadAddHost
<1>2. PICK next : /\ Accepting(p, next)
                  /\ next = [op |-> "SaveDomain", domain |-> d, id |-> i,
                       rows |-> Restrict([hosts EXCEPT ![i].status = status],
                                         UsedBy(d) \cup {i}),
                       addrs |-> AddressesOf(i), adding |-> TRUE]
  BY <1>1
<1>3. /\ i \in DOMAIN hosts /\ HostTable(hosts, lastHost)
      /\ UNCHANGED <<hosts, addresses, uses>>
  BY DEF LoadAddHost, HostInv, TablesInv, TablesGood
<1> DEFINE t == [hosts EXCEPT ![i].status = status]
           rows == Restrict(t, UsedBy(d) \cup {i})
<1>4. HostTable(t, lastHost) /\ DOMAIN t = DOMAIN hosts
      /\ t[i] = [hosts[i] EXCEPT !.status = status]
  BY <1>3, LinkedTable
<1>5. hosts[i] \in HostRow
  BY <1>3, TableRow
<1>6. /\ next.op = "SaveDomain" /\ next.adding = TRUE /\ next.id = i /\ next.domain = d
      /\ next.rows = rows /\ next.addrs = AddressesOf(i)
  BY <1>2
<1>7. Linked(t[i])
  BY <1>4, <1>5, LinkedSet DEF Linked, HostRow
<1> HIDE DEF t
<1>8. UsedBy(d) \cup {i} \in SUBSET DOMAIN t
  BY <1>3, <1>4 DEF UsedBy
<1>9. DOMAIN rows = UsedBy(d) \cup {i} /\ rows[i] = t[i]
  BY <1>4, <1>8, PartOfTable
<1> HIDE DEF rows
<1>10. Associated(d, rows, i)
  BY <1>9 DEF Associated, UsedBy
<1>11. Latest(next)
  BY <1>3, <1>4, <1>6, <1>7, <1>8, <1>9, <1>10 DEF Latest
<1> QED
  BY <1>2, <1>3, <1>6, <1>11, ReadingCalm

LEMMA LoadRemoveHostCalm ==
    ASSUME HostInv, NEW p \in HostProcs, NEW d \in HostDomains, NEW i \in HostIds,
           LoadRemoveHost(p, d, i), ~disturbed'
    PROVE  CalmInv'
<1> DEFINE S == {j \in UsedBy(d) : hosts[j].key.name # hosts[i].key.name}
           rows == Restrict(hosts, S)
<1>1. PICK next : /\ Accepting(p, next)
                  /\ next = [op |-> "RemoveAssociation", domain |-> d, id |-> i,
                             row |-> hosts[i], rows |-> rows]
  BY DEF LoadRemoveHost
<1>2. /\ i \in DOMAIN hosts /\ HostTable(hosts, lastHost)
      /\ UNCHANGED <<hosts, addresses, uses>>
  BY DEF LoadRemoveHost, HostInv, TablesInv, TablesGood
<1>3. /\ next.op = "RemoveAssociation" /\ next.id = i /\ next.domain = d
      /\ next.rows = rows /\ next.row = hosts[i]
  BY <1>1
<1>4. S \in SUBSET DOMAIN hosts /\ i \notin S /\ \A j \in S : <<d, j>> \in uses
  BY DEF UsedBy
<1> HIDE DEF S
<1>5. DOMAIN rows = S
  BY <1>2, <1>4, PartOfTable
<1> HIDE DEF rows
<1>6. Latest(next)
  BY <1>2, <1>3, <1>4, <1>5 DEF Latest, Associated
<1> QED
  BY <1>1, <1>2, <1>3, <1>6, ReadingCalm
\* A host that is not in the table has neither addresses nor domains.
LEMMA NoTrace ==
    ASSUME TablesInv, NEW i, i \notin DOMAIN hosts
    PROVE  AddressesOf(i) = {} /\ ~StillUsed(i)
<1>1. addresses \subseteq (DOMAIN hosts) \X IPs /\ uses \subseteq HostDomains \X (DOMAIN hosts)
  BY DEF TablesInv, TablesGood
<1>2. \A a \in IPs : <<i, a>> \notin addresses
  BY <1>1
<1>3. \A d \in HostDomains : <<d, i>> \notin uses
  BY <1>1
<1> QED
  BY <1>2, <1>3 DEF AddressesOf, StillUsed

\* Hosts and associations may move, but every old host is as before.
LEMMA ToldAsBefore ==
    ASSUME NEW r, NEW i, Told(r, i), hosts'[i] = hosts[i], StillUsed(i)' <=> StillUsed(i)
    PROVE  Told(r, i)'
BY DEF Told, Writing, Removing, Tells, Linked

\* A host that was not there tells that nobody uses it.
LEMMA NewTells ==
    ASSUME NEW cmd \in NewHosts, NEW i, NEW r, hosts'[i] = HostOf(cmd), ~StillUsed(i)'
    PROVE  Told(r, i)'
<1>1. HostOf(cmd).status = HostStatusOf(cmd)
  BY DEF HostOf
<1>2. NoneLinked => "linked" \notin HostStatusOf(cmd)
  BY DEF NoneLinked, HostStatusOf
<1> QED
  BY <1>1, <1>2 DEF Told, Tells, Linked

LEMMA CreateHostCalm ==
    ASSUME HostInv, NEW p \in HostProcs, NEW cmd \in NewHosts, CreateHost(p, cmd),
           ~disturbed'
    PROVE  CalmInv'
<1> DEFINE n == lastHost + 1
           rows == [j \in {n} |-> HostOf(cmd)]
<1>0. TablesInv
  BY DEF HostInv
<1>1. lastHost \in Nat /\ lastHost' = n /\ HostTable(hosts, lastHost)
  BY <1>0, GeneratedIds DEF TablesInv, TablesGood, CreateHost
<1>2. PICK next : Accepting(p, next) /\ next = AddAddresses(n, cmd.addrs)
  BY <1>1 DEF CreateHost
<1>3. /\ hostReq[p] = NoHostReq /\ Calm(hostReq[p])
      /\ \A q \in HostProcs \ {p} : hostReq[q] = NoHostReq
      /\ hostReq' = [hostReq EXCEPT ![p] = next]
  BY <1>2, Undisturbed DEF Accepting
<1>4. hosts' = With(rows) /\ addresses' = addresses /\ uses' = uses
  BY <1>1 DEF CreateHost
<1>5. n \notin DOMAIN hosts
  BY <1>1 DEF HostTable
<1>6. /\ DOMAIN hosts' = DOMAIN hosts \cup {n} /\ hosts'[n] = HostOf(cmd)
      /\ \A i \in DOMAIN hosts : hosts'[i] = hosts[i]
  BY <1>4, <1>5 DEF With
<1>7. AddressesOf(n) = {} /\ ~StillUsed(n)
  BY <1>0, <1>5, NoTrace
<1>8. /\ \A i : AddressesOf(i)' = AddressesOf(i)
      /\ \A i : StillUsed(i)' <=> StillUsed(i)
  BY <1>4 DEF AddressesOf, StillUsed
<1>9. Cardinality(cmd.addrs) <= MaxAddresses
  BY CreatedRow DEF CreateHost
<1> HIDE DEF rows, n
<1>10. Cardinality(AddressesOf(n) \cup cmd.addrs) <= MaxAddresses
  BY <1>7, <1>9
<1>11. Latest(next) /\ next.op \in {"idle", "AddAddresses"}
  BY <1>2, <1>10, AddingAddresses
<1>12. Latest(next)'
  BY <1>8, <1>11 DEF Latest
<1>13. \A i \in DOMAIN hosts' : Cardinality(AddressesOf(i)') <= MaxAddresses
  <2>1. \A i \in DOMAIN hosts : Cardinality(AddressesOf(i)) <= MaxAddresses
    BY <1>3 DEF Calm
  <2>2. Cardinality(AddressesOf(n)) <= MaxAddresses
    BY <1>7, HostLifecycleAssumption, FS_EmptySet
  <2>3. \A i \in DOMAIN hosts' : Cardinality(AddressesOf(i)) <= MaxAddresses
    BY <1>6, <2>1, <2>2
  <2> QED
    BY <1>8, <2>3
<1>14. \A i \in DOMAIN hosts : Told(next, i)
  BY <1>3, <1>11, IdleCalm, NothingToTell DEF Calm
<1>15. \A i \in DOMAIN hosts' : Told(next, i)'
  BY <1>6, <1>7, <1>8, <1>14, ToldAsBefore, NewTells
<1> QED
  BY <1>0, <1>3, <1>12, <1>13, <1>15, CalmKept DEF Calm

LEMMA BulkCreateHostsCalm ==
    ASSUME HostInv, NEW p \in HostProcs, NEW one \in NewHosts, NEW two \in NewHosts,
           BulkCreateHosts(p, one, two), ~disturbed'
    PROVE  CalmInv'
<1>n. PICK n, m : n = lastHost + 1 /\ m = lastHost + 2
  OBVIOUS
<1> DEFINE rows == [i \in {n, m} |-> HostOf(IF i = n THEN one ELSE two)]
<1>0. TablesInv
  BY DEF HostInv
<1>1. lastHost \in Nat /\ HostTable(hosts, lastHost)
  BY <1>0, GeneratedIds DEF TablesInv, TablesGood
<1>2. /\ hosts' = With(rows) /\ uses' = uses /\ Accepting(p, NoHostReq)
      /\ addresses' = addresses \cup {<<n, a>> : a \in one.addrs}
                                \cup {<<m, a>> : a \in two.addrs}
  BY <1>n DEF BulkCreateHosts
<1>3. /\ hostReq[p] = NoHostReq /\ Calm(hostReq[p])
      /\ \A q \in HostProcs \ {p} : hostReq[q] = NoHostReq
      /\ hostReq' = [hostReq EXCEPT ![p] = NoHostReq]
  BY <1>2, Undisturbed DEF Accepting
<1>4. n \notin DOMAIN hosts /\ m \notin DOMAIN hosts /\ n # m
  BY <1>n, <1>1 DEF HostTable
<1>5. /\ DOMAIN hosts' = DOMAIN hosts \cup {n, m}
      /\ hosts'[n] = HostOf(one) /\ hosts'[m] = HostOf(two)
      /\ \A i \in DOMAIN hosts : hosts'[i] = hosts[i]
  BY <1>2, <1>4 DEF With
<1>6. /\ AddressesOf(n) = {} /\ ~StillUsed(n)
      /\ AddressesOf(m) = {} /\ ~StillUsed(m)
  BY <1>0, <1>4, NoTrace
<1>7. /\ Cardinality(one.addrs) <= MaxAddresses /\ one.addrs \in SUBSET IPs
      /\ Cardinality(two.addrs) <= MaxAddresses /\ two.addrs \in SUBSET IPs
  BY CreatedRow DEF BulkCreateHosts
<1> HIDE DEF rows
<1>8. /\ AddressesOf(n)' = one.addrs /\ AddressesOf(m)' = two.addrs
      /\ \A i \in DOMAIN hosts : AddressesOf(i)' = AddressesOf(i)
  <2>1. \A i : AddressesOf(i)' = {a \in IPs : <<i, a>> \in addresses'}
    BY DEF AddressesOf
  <2>5. \A a \in IPs : <<n, a>> \notin addresses /\ <<m, a>> \notin addresses
    BY <1>6 DEF AddressesOf
  <2>2. AddressesOf(n)' = one.addrs
    <3>1. \A a \in IPs : <<n, a>> \in addresses' <=> a \in one.addrs
      BY <1>2, <1>4, <2>5
    <3>2. ASSUME NEW a \in AddressesOf(n)' PROVE a \in one.addrs
      BY <3>1, <3>2 DEF AddressesOf
    <3>3. ASSUME NEW a \in one.addrs PROVE a \in AddressesOf(n)'
      <4>1. a \in IPs
        BY <1>7
      <4> QED
        BY <3>1, <4>1 DEF AddressesOf
    <3> QED
      BY <3>2, <3>3
  <2>3. AddressesOf(m)' = two.addrs
    <3>1. \A a \in IPs : <<m, a>> \in addresses' <=> a \in two.addrs
      BY <1>2, <1>4, <2>5
    <3>2. ASSUME NEW a \in AddressesOf(m)' PROVE a \in two.addrs
      BY <3>1, <3>2 DEF AddressesOf
    <3>3. ASSUME NEW a \in two.addrs PROVE a \in AddressesOf(m)'
      <4>1. a \in IPs
        BY <1>7
      <4> QED
        BY <3>1, <4>1 DEF AddressesOf
    <3> QED
      BY <3>2, <3>3
  <2>4. \A i \in DOMAIN hosts : AddressesOf(i)' = AddressesOf(i)
    BY <1>2, <1>4, <2>1 DEF AddressesOf
  <2> QED
    BY <2>2, <2>3, <2>4
<1>9. \A i : StillUsed(i)' <=> StillUsed(i)
  BY <1>2 DEF StillUsed
<1>10. \A i \in DOMAIN hosts' : Cardinality(AddressesOf(i)') <= MaxAddresses
  <2> SUFFICES ASSUME NEW i \in DOMAIN hosts'
               PROVE  Cardinality(AddressesOf(i)') <= MaxAddresses
    OBVIOUS
  <2>1. CASE i \in DOMAIN hosts
    BY <1>3, <1>8, <2>1 DEF Calm
  <2>2. CASE i = n
    BY <1>7, <1>8, <2>2
  <2>3. CASE i = m
    BY <1>7, <1>8, <2>3
  <2> QED
    BY <1>5, <2>1, <2>2, <2>3
<1>11. \A i \in DOMAIN hosts : Told(NoHostReq, i)
  BY <1>3 DEF Calm
<1>12. \A i \in DOMAIN hosts' : Told(NoHostReq, i)'
  BY <1>5, <1>6, <1>9, <1>11, ToldAsBefore, NewTells
<1>13. Latest(NoHostReq)'
  BY DEF NoHostReq, Latest
<1> QED
  BY <1>0, <1>3, <1>10, <1>12, <1>13, CalmKept DEF Calm

LEMMA DeleteHostCalm ==
    ASSUME HostInv, NEW p \in HostProcs, NEW i \in HostIds, DeleteHost(p, i), ~disturbed'
    PROVE  CalmInv'
<1>0. TablesInv
  BY DEF HostInv
<1>1. /\ hosts' = Restrict(hosts, DOMAIN hosts \ {i}) /\ uses' = uses
      /\ addresses' = {x \in addresses : x[1] # i} /\ Accepting(p, NoHostReq)
  BY DEF DeleteHost
<1>2. /\ hostReq[p] = NoHostReq /\ Calm(hostReq[p])
      /\ \A q \in HostProcs \ {p} : hostReq[q] = NoHostReq
      /\ hostReq' = [hostReq EXCEPT ![p] = NoHostReq]
  BY <1>1, Undisturbed DEF Accepting
<1>3. DOMAIN hosts' = DOMAIN hosts \ {i} /\ \A j \in DOMAIN hosts' : hosts'[j] = hosts[j]
  BY <1>1 DEF Restrict
<1>4. /\ \A j \in DOMAIN hosts' : AddressesOf(j)' = AddressesOf(j)
      /\ \A j : StillUsed(j)' <=> StillUsed(j)
  BY <1>1, <1>3 DEF AddressesOf, StillUsed
<1>5. \A j \in DOMAIN hosts' : Cardinality(AddressesOf(j)') <= MaxAddresses
  BY <1>2, <1>3, <1>4 DEF Calm
<1>6. \A j \in DOMAIN hosts' : Told(NoHostReq, j)'
  BY <1>2, <1>3, <1>4, ToldAsBefore DEF Calm
<1>7. Latest(NoHostReq)'
  BY DEF NoHostReq, Latest
<1> QED
  BY <1>0, <1>2, <1>5, <1>6, <1>7, CalmKept DEF Calm
\* What it means that nothing changed.
LEMMA StandingStill ==
    ASSUME UNCHANGED <<hosts, addresses, uses>>, NEW r
    PROVE  /\ Calm(r)' <=> Calm(r)
           /\ Latest(r)' <=> Latest(r)
           /\ \A i : Told(r, i)' <=> Told(r, i)
BY DEF Calm, Latest, Told, Writing, Removing, Tells, Linked, Associated,
   StillUsed, AddressesOf

LEMMA CreateNextAddressCalm ==
    ASSUME HostInv, NEW p \in HostProcs, CreateNextAddress(p), ~disturbed'
    PROVE  CalmInv'
<1>0. TablesInv
  BY DEF HostInv
<1>1. PICK r : r = hostReq[p]
  OBVIOUS
<1>2. /\ r.op = "AddAddresses" /\ r.id \in DOMAIN hosts
      /\ hosts' = hosts /\ uses' = uses
  BY <1>1 DEF CreateNextAddress
<1>3. PICK a \in r.addrs : /\ addresses' = addresses \cup {<<r.id, a>>}
                           /\ Proceed(p, AddAddresses(r.id, r.addrs \ {a}))
  BY <1>1 DEF CreateNextAddress
<1>4. PICK next : Proceed(p, next) /\ next = AddAddresses(r.id, r.addrs \ {a})
  BY <1>3
<1>5. /\ Calm(r)
      /\ \A q \in HostProcs \ {p} : hostReq[q] = NoHostReq
      /\ hostReq' = [hostReq EXCEPT ![p] = next]
  BY <1>1, <1>4, Undisturbed
<1>6. r.addrs \in SUBSET IPs
  BY <1>0, <1>1, <1>2 DEF TablesInv, Carried, IsHostReq, NoHostReq
<1>7. AddressesOf(r.id)' = AddressesOf(r.id) \cup {a}
  BY <1>3, <1>6 DEF AddressesOf
<1>8. \A i \in DOMAIN hosts \ {r.id} : AddressesOf(i)' = AddressesOf(i)
  BY <1>3 DEF AddressesOf
<1>9. Cardinality(AddressesOf(r.id) \cup r.addrs) <= MaxAddresses
  BY <1>2, <1>5 DEF Calm, Latest
<1>10. AddressesOf(r.id)' \cup (r.addrs \ {a}) = AddressesOf(r.id) \cup r.addrs
  BY <1>7
<1>11. Latest(next)' /\ next.op \in {"idle", "AddAddresses"}
  BY <1>4, <1>9, <1>10 DEF AddAddresses, NoHostReq, Latest
<1>12. Cardinality(AddressesOf(r.id)') <= MaxAddresses
  <2>1. /\ IsFiniteSet(AddressesOf(r.id) \cup r.addrs)
        /\ AddressesOf(r.id) \cup {a} \subseteq AddressesOf(r.id) \cup r.addrs
    BY <1>6, AddressesFinite, HostLifecycleAssumption, FS_Subset
  <2>2. /\ IsFiniteSet(AddressesOf(r.id) \cup {a})
        /\ Cardinality(AddressesOf(r.id) \cup {a}) <=
              Cardinality(AddressesOf(r.id) \cup r.addrs)
    BY <2>1, FS_Subset
  <2>3. /\ Cardinality(AddressesOf(r.id) \cup {a}) \in Nat
        /\ Cardinality(AddressesOf(r.id) \cup r.addrs) \in Nat
    BY <2>1, <2>2, FS_CardinalityType
  <2> QED
    BY <1>7, <1>9, <2>2, <2>3, HostLifecycleAssumption
<1>13. \A i \in DOMAIN hosts' : Cardinality(AddressesOf(i)') <= MaxAddresses
  <2> SUFFICES ASSUME NEW i \in DOMAIN hosts'
               PROVE  Cardinality(AddressesOf(i)') <= MaxAddresses
    OBVIOUS
  <2>1. CASE i = r.id
    BY <1>12, <2>1
  <2>2. CASE i # r.id
    BY <1>2, <1>5, <1>8, <2>2 DEF Calm
  <2> QED
    BY <2>1, <2>2
<1>14. \A i : StillUsed(i)' <=> StillUsed(i)
  BY <1>2 DEF StillUsed
<1>15. \A i \in DOMAIN hosts' : Told(next, i)'
  <2>1. \A i \in DOMAIN hosts : Told(next, i)
    BY <1>2, <1>5, <1>11, NothingToTell DEF Calm
  <2> QED
    BY <1>2, <1>14, <2>1, ToldAsBefore
<1> QED
  BY <1>0, <1>5, <1>11, <1>13, <1>15, CalmKept DEF Calm

LEMMA DeleteAddressCalm ==
    ASSUME HostInv, NEW p \in HostProcs, DeleteAddress(p), ~disturbed'
    PROVE  CalmInv'
<1>0. TablesInv
  BY DEF HostInv
<1>1. PICK r : r = hostReq[p]
  OBVIOUS
<1>2. /\ r.op = "DeleteAddress" /\ hosts' = hosts /\ uses' = uses
      /\ addresses' = addresses \ {<<r.id, r.addr>>} /\ Proceed(p, NoHostReq)
  BY <1>1 DEF DeleteAddress
<1>3. /\ Calm(r)
      /\ \A q \in HostProcs \ {p} : hostReq[q] = NoHostReq
      /\ hostReq' = [hostReq EXCEPT ![p] = NoHostReq]
  BY <1>1, <1>2, Undisturbed
<1>4. \A i \in DOMAIN hosts' : Cardinality(AddressesOf(i)') <= MaxAddresses
  <2> SUFFICES ASSUME NEW i \in DOMAIN hosts'
               PROVE  Cardinality(AddressesOf(i)') <= MaxAddresses
    OBVIOUS
  <2>1. AddressesOf(i)' \subseteq AddressesOf(i)
    BY <1>2 DEF AddressesOf
  <2>2. /\ IsFiniteSet(AddressesOf(i)) /\ IsFiniteSet(AddressesOf(i)')
        /\ Cardinality(AddressesOf(i)') <= Cardinality(AddressesOf(i))
    BY <2>1, AddressesFinite, FS_Subset
  <2>3. Cardinality(AddressesOf(i)) \in Nat /\ Cardinality(AddressesOf(i)') \in Nat
    BY <2>2, FS_CardinalityType
  <2>4. Cardinality(AddressesOf(i)) <= MaxAddresses
    BY <1>2, <1>3 DEF Calm
  <2> QED
    BY <2>2, <2>3, <2>4, HostLifecycleAssumption
<1>5. \A i : StillUsed(i)' <=> StillUsed(i)
  BY <1>2 DEF StillUsed
<1>6. \A i \in DOMAIN hosts' : Told(NoHostReq, i)'
  <2>1. \A i \in DOMAIN hosts : Told(NoHostReq, i)
    BY <1>2, <1>3, IdleCalm, NothingToTell DEF Calm
  <2> QED
    BY <1>2, <1>5, <2>1, ToldAsBefore
<1>7. Latest(NoHostReq)'
  BY DEF NoHostReq, Latest
<1> QED
  BY <1>0, <1>3, <1>4, <1>6, <1>7, CalmKept DEF Calm

LEMMA RemoveAssociationCalm ==
    ASSUME HostInv, NEW p \in HostProcs, RemoveAssociation(p), ~disturbed'
    PROVE  CalmInv'
<1>0. TablesInv
  BY DEF HostInv
<1>1. PICK r : r = hostReq[p]
  OBVIOUS
<1>2. PICK next :
         /\ Proceed(p, next)
         /\ next = [op |-> "SaveDomain", domain |-> r.domain, id |-> r.id,
                    row |-> r.row, rows |-> r.rows, addrs |-> {}, adding |-> FALSE]
  BY <1>1 DEF RemoveAssociation
<1>3. /\ r.op = "RemoveAssociation" /\ hosts' = hosts /\ addresses' = addresses
      /\ uses' = uses \ {<<r.domain, r.id>>}
  BY <1>1 DEF RemoveAssociation
<1>4. /\ Calm(r)
      /\ \A q \in HostProcs \ {p} : hostReq[q] = NoHostReq
      /\ hostReq' = [hostReq EXCEPT ![p] = next]
  BY <1>1, <1>2, Undisturbed
<1>5. /\ r.id \in DOMAIN hosts /\ r.row = hosts[r.id] /\ r.id \notin DOMAIN r.rows
      /\ \A j \in DOMAIN r.rows \ {r.id} : <<r.domain, j>> \in uses
  BY <1>3, <1>4 DEF Calm, Latest, Associated
<1>6. DOMAIN r.rows \subseteq DOMAIN hosts
  <2> SUFFICES ASSUME NEW j \in DOMAIN r.rows
               PROVE  j \in DOMAIN hosts
    OBVIOUS
  <2>1. <<r.domain, j>> \in uses
    BY <1>5
  <2>2. uses \subseteq HostDomains \X (DOMAIN hosts)
    BY <1>0 DEF TablesInv, TablesGood
  <2> QED
    BY <2>1, <2>2
<1>7. /\ next.op = "SaveDomain" /\ next.id = r.id /\ next.domain = r.domain
      /\ next.rows = r.rows /\ next.row = r.row /\ next.adding = FALSE
  BY <1>2
<1>8. \A j \in DOMAIN r.rows \ {r.id} : <<r.domain, j>> \in uses'
  BY <1>3, <1>5
<1>9. Latest(next)'
  BY <1>3, <1>5, <1>6, <1>7, <1>8 DEF Latest, Associated
<1>10. \A i \in DOMAIN hosts' : Cardinality(AddressesOf(i)') <= MaxAddresses
  BY <1>3, <1>4 DEF Calm, AddressesOf
<1>11. \A i \in DOMAIN hosts' : Told(next, i)'
  <2> SUFFICES ASSUME NEW i \in DOMAIN hosts'
               PROVE  Told(next, i)'
    OBVIOUS
  <2>1. Told(r, i) /\ ~Writing(r, i) /\ ~Removing(r, i)
    BY <1>3, <1>4 DEF Calm, Writing, Removing
  <2>2. StillUsed(i)' => StillUsed(i)
    BY <1>3 DEF StillUsed
  <2>3. StillUsed(i) /\ i # r.id => StillUsed(i)'
    BY <1>3 DEF StillUsed
  <2>4. i = r.id => Removing(next, i)
    BY <1>7 DEF Removing
  <2> QED
    BY <1>3, <2>1, <2>2, <2>3, <2>4 DEF Told, Tells, Linked, Removing
<1> QED
  BY <1>0, <1>4, <1>9, <1>10, <1>11, CalmKept DEF Calm
\* No row is gone, so that none is put back; a domain is saved with addresses
\* that are there, and only the association that is added is new.
LEMMA SaveDomainCalm ==
    ASSUME HostInv, NEW p \in HostProcs, SaveDomainWithHosts(p), ~disturbed'
    PROVE  CalmInv'
<1>0. TablesInv
  BY DEF HostInv
<1>1. PICK r : r = hostReq[p]
  OBVIOUS
<1>2. PICK next :
         /\ Proceed(p, next)
         /\ next = IF r.adding
                      THEN [op |-> "SaveHost", id |-> r.id, row |-> r.rows[r.id]]
                      ELSE [op |-> "CountUses", id |-> r.id, row |-> r.row]
  BY <1>1 DEF SaveDomainWithHosts
<1>3. /\ r.op = "SaveDomain" /\ hosts' = With(PutBack(r.rows))
      /\ addresses' = addresses \cup {<<r.id, a>> : a \in r.addrs}
      /\ uses' = uses \cup {<<r.domain, i>> : i \in DOMAIN r.rows}
  BY <1>1 DEF SaveDomainWithHosts
<1>4. /\ Calm(r)
      /\ \A q \in HostProcs \ {p} : hostReq[q] = NoHostReq
      /\ hostReq' = [hostReq EXCEPT ![p] = next]
  BY <1>1, <1>2, Undisturbed
<1>5. /\ Carried(r, lastHost) /\ HostTable(hosts, lastHost) /\ lastHost \in Nat
  BY <1>0, <1>1, GeneratedIds DEF TablesInv, TablesGood
<1>6. /\ r.domain \in HostDomains /\ HostTable(r.rows, lastHost)
      /\ r.adding \in BOOLEAN
      /\ r.adding => r.id \in DOMAIN r.rows
  <2>1. r.domain \in HostDomains /\ HostTable(r.rows, lastHost)
    BY <1>3, <1>5 DEF Carried, IsHostReq, NoHostReq
  <2>2. (r.adding = TRUE /\ r.id \in DOMAIN r.rows) \/ r.adding = FALSE
    BY <1>3, <1>5 DEF Carried
  <2> QED
    BY <2>1, <2>2, Zenon
<1>7. /\ r.id \in DOMAIN hosts /\ DOMAIN r.rows \subseteq DOMAIN hosts
      /\ \A j \in DOMAIN r.rows \ {r.id} : <<r.domain, j>> \in uses
      /\ r.adding => r.addrs = AddressesOf(r.id) /\ Linked(r.rows[r.id])
      /\ ~r.adding => r.id \notin DOMAIN r.rows /\ r.row = hosts[r.id]
  BY <1>3, <1>4 DEF Calm, Latest, Associated
<1>8. /\ DOMAIN hosts' = DOMAIN hosts /\ \A i \in DOMAIN hosts : hosts'[i] = hosts[i]
  <2>1. DOMAIN PutBack(r.rows) = {}
    BY <1>7 DEF PutBack, Restrict
  <2> QED
    BY <1>3, <1>5, <1>6, <2>1, PuttingBack
<1>9. addresses' = addresses
  <2>1. r.addrs \subseteq AddressesOf(r.id)
    BY <1>3, <1>5, <1>7 DEF Carried
  <2>2. \A a \in r.addrs : <<r.id, a>> \in addresses
    BY <2>1 DEF AddressesOf
  <2> QED
    BY <1>3, <2>2
<1>10. \A i : AddressesOf(i)' = AddressesOf(i)
  BY <1>9 DEF AddressesOf
<1>11. \A i \in DOMAIN hosts' : Cardinality(AddressesOf(i)') <= MaxAddresses
  BY <1>4, <1>8, <1>10 DEF Calm
<1>12. \A i \in DOMAIN hosts \ {r.id} : StillUsed(i)' <=> StillUsed(i)
  <2> SUFFICES ASSUME NEW i \in DOMAIN hosts, i # r.id
               PROVE  StillUsed(i)' <=> StillUsed(i)
    OBVIOUS
  <2>1. \A d \in HostDomains : <<d, i>> \in uses' <=> <<d, i>> \in uses
    BY <1>3, <1>7
  <2> QED
    BY <2>1 DEF StillUsed
<1>13. \A i \in DOMAIN hosts : Told(r, i)
  BY <1>4 DEF Calm
<1>14. CASE r.adding
  <2>1. next.op = "SaveHost" /\ next.id = r.id /\ next.row = r.rows[r.id]
    BY <1>2, <1>14
  <2>2. StillUsed(r.id)'
    BY <1>3, <1>6, <1>14 DEF StillUsed
  <2>3. Latest(next)'
    BY <1>7, <1>8, <1>14, <2>1, <2>2 DEF Latest, Tells, Linked
  <2>4. \A i \in DOMAIN hosts' : Told(next, i)'
    <3> SUFFICES ASSUME NEW i \in DOMAIN hosts, i # r.id
                 PROVE  Told(next, i)'
      BY <1>8, <2>1 DEF Told, Writing
    <3>1. Told(next, i)
      BY <1>3, <1>13, <1>14, <2>1 DEF Told, Writing, Removing
    <3> QED
      BY <1>8, <1>12, <3>1, ToldAsBefore
  <2> QED
    BY <1>0, <1>4, <1>11, <2>3, <2>4, CalmKept DEF Calm
<1>15. CASE ~r.adding
  <2>1. next.op = "CountUses" /\ next.id = r.id /\ next.row = r.row
    BY <1>2, <1>15
  <2>2. uses' = uses
    BY <1>3, <1>7, <1>15
  <2>3. Latest(next)'
    BY <1>7, <1>8, <1>15, <2>1 DEF Latest
  <2>4. \A i \in DOMAIN hosts' : Told(next, i)'
    <3> SUFFICES ASSUME NEW i \in DOMAIN hosts
                 PROVE  Told(next, i)'
      BY <1>8
    <3>1. Told(next, i)
      BY <1>3, <1>13, <1>15, <2>1 DEF Told, Writing, Removing
    <3>2. StillUsed(i)' <=> StillUsed(i)
      BY <2>2 DEF StillUsed
    <3> QED
      BY <1>8, <3>1, <3>2, ToldAsBefore
  <2> QED
    BY <1>0, <1>4, <1>11, <2>3, <2>4, CalmKept DEF Calm
<1> QED
  BY <1>6, <1>14, <1>15

\* The host that is saved is the one the table has, without the flag, unless
\* its updates are prohibited.
LEMMA CountUsesCalm ==
    ASSUME HostInv, NEW p \in HostProcs, NEW failing \in BOOLEAN,
           CountUses(p, failing), ~disturbed'
    PROVE  CalmInv'
<1>0. TablesInv
  BY DEF HostInv
<1>1. PICK r : r = hostReq[p]
  OBVIOUS
<1> DEFINE unset == HostUnsetStatus(r.row.status, "linked")
           Write(status) == [op |-> "SaveHost", id |-> r.id,
                             row |-> [r.row EXCEPT !.status = status]]
<1>2. /\ r.op = "CountUses" /\ UNCHANGED <<hosts, addresses, uses>>
  BY <1>1 DEF CountUses
<1>3. /\ ~failing /\ disturbed' = (disturbed \/ HostBusy(p))
  BY Zenon DEF CountUses
<1>4. PICK status \in IF unset = {} THEN {r.row.status} ELSE unset :
         hostReq' = [hostReq EXCEPT ![p] =
            IF StillUsed(r.id) /\ ~failing THEN NoHostReq ELSE Write(status)]
  BY <1>1 DEF CountUses
<1>5. PICK next : /\ hostReq' = [hostReq EXCEPT ![p] = next]
                  /\ next = IF StillUsed(r.id) THEN NoHostReq ELSE Write(status)
  BY <1>3, <1>4
<1>6. /\ Calm(r)
      /\ \A q \in HostProcs \ {p} : hostReq[q] = NoHostReq
  BY <1>1, <1>3, <1>5, Undisturbed DEF Proceed
<1>7. r.id \in DOMAIN hosts /\ r.row = hosts[r.id]
  BY <1>2, <1>6 DEF Calm, Latest
<1>8. r.row \in HostRow /\ HostStatusValid(r.row.status)
  BY <1>0, <1>7, TableRow DEF TablesInv, TablesGood
<1>9. r.row.status \in SUBSET HostFlags
  BY <1>8 DEF HostRow
<1>10. \A i \in DOMAIN hosts : Told(r, i)
  BY <1>6 DEF Calm
<1>11. CASE StillUsed(r.id)
  <2>1. \A i \in DOMAIN hosts : Told(NoHostReq, i)
    BY <1>2, <1>10, <1>11, IdleCalm DEF Told, Tells, Writing, Removing
  <2>2. Calm(next)
    BY <1>5, <1>6, <1>11, <2>1, IdleCalm DEF Calm
  <2> QED
    BY <1>0, <1>2, <1>5, <1>6, <2>2, StandingStill, CalmKept
<1>12. CASE ~StillUsed(r.id)
  <2>1. next = Write(status)
    BY <1>5, <1>12
  <2>2. /\ next.op = "SaveHost" /\ next.id = r.id
        /\ next.row = [r.row EXCEPT !.status = status]
    BY <2>1
  <2>3. next.row.status = status
    BY <1>8, <2>2 DEF HostRow
  <2>4. Linked(next.row) => ~HostCanBeUpdated(next.row.status)
    BY <1>4, <1>8, <1>9, <2>3, LinkedUnset DEF Linked
  <2>5. Latest(next)
    BY <1>7, <1>12, <2>2, <2>4 DEF Latest, Tells
  <2>6. \A i \in DOMAIN hosts : Told(next, i)
    BY <1>2, <1>10, <2>2 DEF Told, Writing, Removing
  <2>7. Calm(next)
    BY <1>6, <2>5, <2>6 DEF Calm
  <2> QED
    BY <1>0, <1>2, <1>5, <1>6, <2>7, StandingStill, CalmKept
<1> QED
  BY <1>11, <1>12

\* The row that is written tells the truth, and no other row is touched.
LEMMA UpdateHostCalm ==
    ASSUME HostInv, NEW p \in HostProcs, UpdateHost(p), ~disturbed'
    PROVE  CalmInv'
<1>0. TablesInv
  BY DEF HostInv
<1>1. PICK r : r = hostReq[p]
  OBVIOUS
<1>2. /\ r.op = "SaveHost" /\ hosts' = With([i \in {r.id} |-> r.row])
      /\ addresses' = addresses /\ uses' = uses /\ Proceed(p, NoHostReq)
  BY <1>1 DEF UpdateHost
<1>3. /\ Calm(r)
      /\ \A q \in HostProcs \ {p} : hostReq[q] = NoHostReq
      /\ hostReq' = [hostReq EXCEPT ![p] = NoHostReq]
  BY <1>1, <1>2, Undisturbed
<1>4. r.id \in DOMAIN hosts /\ Tells(r.row, r.id)
  BY <1>2, <1>3 DEF Calm, Latest
<1>5. /\ DOMAIN hosts' = DOMAIN hosts /\ hosts'[r.id] = r.row
      /\ \A i \in DOMAIN hosts \ {r.id} : hosts'[i] = hosts[i]
  BY <1>2, <1>4 DEF With
<1>6. /\ \A i : AddressesOf(i)' = AddressesOf(i)
      /\ \A i : StillUsed(i)' <=> StillUsed(i)
  BY <1>2 DEF AddressesOf, StillUsed
<1>7. \A i \in DOMAIN hosts' : Cardinality(AddressesOf(i)') <= MaxAddresses
  BY <1>3, <1>5, <1>6 DEF Calm
<1>8. \A i \in DOMAIN hosts' : Told(NoHostReq, i)'
  <2> SUFFICES ASSUME NEW i \in DOMAIN hosts
               PROVE  Told(NoHostReq, i)'
    BY <1>5
  <2>1. CASE i = r.id
    BY <1>4, <1>5, <1>6, <2>1 DEF Told, Tells, Linked
  <2>2. CASE i # r.id
    <3>1. Told(r, i)
      BY <1>3 DEF Calm
    <3>2. Told(NoHostReq, i)
      BY <1>2, <2>2, <3>1, IdleCalm DEF Told, Writing, Removing
    <3> QED
      BY <1>5, <1>6, <2>2, <3>2, ToldAsBefore
  <2> QED
    BY <2>1, <2>2
<1>9. Latest(NoHostReq)'
  BY DEF NoHostReq, Latest
<1> QED
  BY <1>0, <1>3, <1>7, <1>8, <1>9, CalmKept DEF Calm

-----------------------------------------------------------------------------
LEMMA HostInvInit ==
    HostInit => HostInv
<1> SUFFICES ASSUME HostInit PROVE HostInv
  OBVIOUS
<1>1. DOMAIN hosts = {} /\ \A p \in HostProcs : hostReq[p] = NoHostReq
  BY DEF HostInit
<1>2. Calm(NoHostReq)
  BY <1>1, IdleCalm DEF Calm
<1> QED
  BY <1>1, <1>2, TablesInit DEF HostInv, CalmInv

LEMMA HostInvStep ==
    ASSUME HostInv, [HostNext]_hostVars
    PROVE  HostInv'
<1>0. TablesInv /\ TablesInv'
  BY TablesStep DEF HostInv
<1> SUFFICES ASSUME ~disturbed'
             PROVE  CalmInv'
  BY <1>0 DEF HostInv
<1>1. CASE UNCHANGED hostVars
  <2>1. /\ ~disturbed /\ hostReq' = hostReq /\ UNCHANGED <<hosts, addresses, uses>>
    BY <1>1 DEF hostVars
  <2>2. CalmInv
    BY <2>1 DEF HostInv
  <2>3. \A p \in HostProcs : Calm(hostReq[p])' <=> Calm(hostReq[p])
    BY <2>1 DEF Calm, Latest, Told, Writing, Removing, Tells, Linked, Associated,
       StillUsed, AddressesOf
  <2> QED
    BY <2>1, <2>2, <2>3, StandingStill DEF CalmInv
<1>2. ASSUME NEW p \in HostProcs, HostAccept(p) PROVE CalmInv'
  BY <1>2, CreateHostCalm, BulkCreateHostsCalm, DeleteHostCalm, LoadAddHostAddressCalm,
     LoadRemoveHostAddressCalm, LoadAddHostCalm, LoadRemoveHostCalm DEF HostAccept
<1>3. ASSUME NEW p \in HostProcs, HostServe(p) PROVE CalmInv'
  <2>1. ~HostFail(p)
    BY DEF HostFail
  <2> QED
    BY <1>3, <2>1, CreateNextAddressCalm, DeleteAddressCalm, RemoveAssociationCalm,
       SaveDomainCalm, CountUsesCalm, UpdateHostCalm DEF HostServe
<1> QED
  BY <1>1, <1>2, <1>3 DEF HostNext

LEMMA HostInvariant == HostSpec => []HostInv
BY HostInvInit, HostInvStep, PTL DEF HostSpec

\* Whenever all is quiet, or one request is under way, its view of the tables
\* is calm.
LEMMA SomebodyCalm ==
    ASSUME HostInv, ~disturbed
    PROVE  \E r : Calm(r)
BY DEF HostInv, CalmInv

\* No sequence of requests that do not overlap gives a host more addresses
\* than the code allows.
THEOREM AddressesLimited == HostSpec => []AddressLimit
<1>1. HostInv => AddressLimit
  BY SomebodyCalm DEF Calm, AddressLimit
<1> QED
  BY <1>1, HostInvariant, PTL

\* After any number of requests that came to their end one after the other, a
\* host is linked exactly when a domain uses it, save one whose updates are
\* prohibited, which cannot lose the flag.
THEOREM LinkedHostsAreUsed == HostSpec => []LinkedTellsUse
<1>1. HostInv => LinkedTellsUse
  <2> SUFFICES ASSUME HostInv, ~disturbed,
                      \A p \in HostProcs : hostReq[p] = NoHostReq,
                      \A cmd \in NewHosts : "linked" \notin cmd.status,
                      NEW i \in DOMAIN hosts
               PROVE  Tells(hosts[i], i)
    BY DEF LinkedTellsUse, Tells, Linked
  <2>1. Calm(NoHostReq)
    BY DEF HostInv, CalmInv
  <2> QED
    BY <2>1, IdleCalm DEF Calm, Told, Writing, Removing, NoneLinked
<1> QED
  BY <1>1, HostInvariant, PTL
=============================================================================
