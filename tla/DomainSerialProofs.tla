------------------------- MODULE DomainSerialProofs -------------------------
(***************************************************************************)
(* What the requests promise when one process serves them one at a time,   *)
(* for any number of names, hosts and commands, any sequence of requests   *)
(* and any of them failing half-way: the limit on the hosts of a domain,   *)
(* when a domain is purged, and how a deletion and a renewal are undone.   *)
(* (Two processes break each of these: a handler saves what it loaded.)    *)
(***************************************************************************)
EXTENDS DomainTableProofs, FiniteSetTheorems

Alone == \A p, q \in Procs : p = q

(***************************************************************************)
(* A load is up to date as long as it is the only request: a process that  *)
(* has loaded a domain holds its row and its hosts, and what a later       *)
(* statement saves has the terms of the row that is stored.  A purge under *)
(* way was due, and goes on to find the name blocked.                      *)
(***************************************************************************)
SameTerms(d, x) ==
    /\ x.roid = d.roid /\ x.expiry = d.expiry
    /\ x.purge = d.purge /\ x.dropCatch = d.dropCatch
    /\ "pendingDelete" \in d.status => "pendingDelete" \in x.status

PurgePCs == {"detach", "unlink", "nndn", "delete"}

PurgeUnderWay(r, n) ==
    /\ db[n].purge < clock
    /\ IF r.pc = "delete" THEN db[n].dropCatch => n \in nndn
                          ELSE r.row.dropCatch = db[n].dropCatch

UpToDate(p) ==
    LET r == req[p]
        n == req[p].cmd.name
    IN  /\ r.pc = "loaded" =>
              /\ Exists(n) /\ r.row = db[n]
              /\ r.cmd.op \in HostOps => r.hosts = links[n]
        /\ r.pc = "saveRemoved" =>
              Exists(n) /\ SameTerms(db[n], r.row) /\ r.hosts = links[n]
        /\ r.pc = "unlink" => Exists(n) /\ SameTerms(db[n], r.dom)
        /\ r.pc \in PurgePCs /\ r.cmd.op = "PurgeDomain" => PurgeUnderWay(r, n)

SerialInv == HostLimit /\ \A p \in Procs : UpToDate(p)

(***************************************************************************)
(* What a save may change: pendingDelete goes, and the expiry date moves   *)
(* back, on certain requests only.  What a step may do to a name that is   *)
(* registered: nothing, such a save, or the deletion of the row.           *)
(***************************************************************************)
Milder(r, d, x) ==
    /\ "pendingDelete" \in d.status /\ "pendingDelete" \notin x.status =>
          r.cmd.op \in {"RestoreDomain", "UnSetStatus", "UpdateDomain"}
    /\ x.expiry < d.expiry =>
          \/ r.cmd.op = "UpdateDomain"
          \/ r.cmd.op = "AutoRenewDomain" /\ r.cmd.years < 0

Saves(p, n) ==
    db'[n].roid = db[n].roid /\ Milder(req[p], db[n], db'[n])

Removes(p, n) ==
    /\ ~Exists(n)'
    /\ links[n] = {}
    /\ req[p].cmd.op = "PurgeDomain" =>
          db[n].purge < clock /\ (db[n].dropCatch => n \in nndn)

RowStep(n) ==
    \/ db'[n] = db[n]
    \/ ~Exists(n)
    \/ \E p \in Procs : req[p].pc # "idle" /\ (Saves(p, n) \/ Removes(p, n))

RowSteps == \A n \in Names : RowStep(n)

-----------------------------------------------------------------------------
(* The methods of the entity.                                              *)

\* Domain.SetStatus adds a flag, and takes away no other than ok and inactive.
LEMMA SetStatusAdds ==
    ASSUME NEW st, NEW s, NEW hasHosts, NEW x \in SetStatus(st, s, hasHosts)
    PROVE  /\ "pendingDelete" \in st => "pendingDelete" \in x
           /\ s = "pendingDelete" => s \in x
  BY DEF SetStatus, UnSetOKStatusIfNeeded, SetUnsetInactiveStatus

\* A changed status is mild when it keeps pendingDelete, or by the operation.
LEMMA StatusMilder ==
    ASSUME NEW r, NEW d \in Row, NEW st,
           \/ "pendingDelete" \in d.status => "pendingDelete" \in st
           \/ r.cmd.op \in {"RestoreDomain", "UnSetStatus"}
    PROVE  Milder(r, d, [d EXCEPT !.status = st])
  BY DEF Row, Milder

\* Domain.Renew and Domain.ForceRenew with the years the operations let pass.
LEMMA RenewMilder ==
    ASSUME NEW r, NEW d \in Row, NEW now, r.cmd.years \in Int,
           r.cmd.years >= 0 \/ r.cmd.op = "AutoRenewDomain",
           NEW x \in ForceRenew(d, r.cmd.years) \cup Renew(d, r.cmd.years, now)
    PROVE  Milder(r, d, x)
  <1> DEFINE years == r.cmd.years
  <1>1. x = [d EXCEPT !.expiry = @ + years * YEAR, !.years = @ + years]
    BY DEF ForceRenew, Renew
  <1>2. x.expiry = d.expiry + years * YEAR /\ x.status = d.status
    BY <1>1 DEF Row
  <1>3. years \in Int /\ years * YEAR \in Int /\ d.expiry \in Int
    BY YearsAdd DEF Row
  <1>4. years >= 0 => years * YEAR >= 0
    BY <1>3, PolicyAssumption
  <1>5. years >= 0 => x.expiry >= d.expiry
    BY <1>2, <1>3, <1>4
  <1> HIDE DEF years
  <1>6. x.expiry < d.expiry => years < 0
    BY <1>2, <1>3, <1>5
  <1> QED  BY <1>2, <1>3, <1>6 DEF Milder, years

\* Domain.MarkForDeletion and Domain.Expire put a domain in pendingDelete.
LEMMA EndOfLifeMilder ==
    ASSUME NEW r, NEW d \in Row, NEW hs, NEW now,
           NEW x \in MarkForDeletion(d, hs, now) \cup Expire(d, hs, now)
    PROVE  Milder(r, d, x)
  <1>1. ASSUME NEW st, NEW redEnd, NEW purge, NEW y,
               st \in SetStatus(y, "pendingDelete", hs # {}),
               x = [d EXCEPT !.status = st, !.redEnd = redEnd, !.purge = purge]
        PROVE  Milder(r, d, x)
    <2>1. x.status = st /\ x.expiry = d.expiry /\ "pendingDelete" \in st
      BY <1>1, SetStatusAdds DEF Row
    <2>2. d.expiry \in Int
      BY DEF Row
    <2> QED  BY <2>1, <2>2 DEF Milder
  <1>2. CASE x \in MarkForDeletion(d, hs, now)
    <2> DEFINE redEnd == IF now < d.addEnd THEN now ELSE now + RedemptionGP
               purge  == IF now < d.addEnd THEN now ELSE redEnd + PendingDeleteGP
    <2>1. PICK st \in SetStatus(d.status, "pendingDelete", hs # {}) :
            x = [d EXCEPT !.status = st, !.redEnd = redEnd, !.purge = purge]
      BY <1>2 DEF MarkForDeletion
    <2> HIDE DEF redEnd, purge
    <2> QED  BY <1>1, <2>1
  <1>3. CASE x \in Expire(d, hs, now)
    <2> DEFINE redEnd == d.expiry + RedemptionGP
               purge  == d.expiry + RedemptionGP + PendingDeleteGP
    <2>1. PICK st \in ExpiredStatus(d.status, hs) :
            x = [d EXCEPT !.status = st, !.redEnd = redEnd, !.purge = purge]
      BY <1>3 DEF Expire
    <2>2. PICK y : st \in SetStatus(y, "pendingDelete", hs # {})
      BY <2>1 DEF ExpiredStatus
    <2> HIDE DEF redEnd, purge
    <2> QED  BY <1>1, <2>1, <2>2
  <1> QED  BY <1>2, <1>3

-----------------------------------------------------------------------------
(* The parts of a step.                                                    *)

\* The pcs at which a process holds nothing that could get out of date.
LEMMA FreeUpToDate ==
    ASSUME NEW p \in Procs,
           req'[p].pc \in {"idle", "available", "setLinked", "count", "unsetLinked"}
    PROVE  UpToDate(p)'
  BY DEF UpToDate, PurgePCs

LEMMA RespondUpToDate ==
    ASSUME RowsGood, NEW p \in Procs, NEW res, Respond(p, res)
    PROVE  UpToDate(p)'
  <1>1. req'[p].pc = "idle"
    BY DEF Respond, IdleWith, RowsGood
  <1> QED  BY <1>1, FreeUpToDate

\* With one process, its request is all the invariant speaks of.
LEMMA AloneSuffices ==
    ASSUME Alone, NEW p \in Procs, HostLimit', UpToDate(p)'
    PROVE  SerialInv'
  BY DEF Alone, SerialInv

\* Statements that write neither table, or only take associations away.
LEMMA RowsKept ==
    ASSUME RowsGood, HostLimit, UNCHANGED db,
           \A n \in Names : links'[n] \subseteq links[n]
    PROVE  HostLimit' /\ RowSteps
  <1>1. ASSUME NEW n \in Names
        PROVE  Cardinality(links'[n]) <= MaxHostsPerDomain
    <2>1. IsFiniteSet(links[n])
      BY HostsAssumption, FS_Subset DEF RowsGood
    <2>2. /\ Cardinality(links[n]) \in Nat /\ Cardinality(links'[n]) \in Nat
          /\ Cardinality(links'[n]) <= Cardinality(links[n])
      BY <1>1, <2>1, FS_Subset, FS_CardinalityType
    <2> QED  BY <1>1, <2>2, HostsAssumption DEF HostLimit
  <1> QED  BY <1>1 DEF HostLimit, RowSteps, RowStep

\* UpdateDomain of the repository.
LEMMA SaveOrSerial ==
    ASSUME RowsGood, HostLimit, NEW p \in Procs, req[p].pc # "idle",
           NEW rows, NEW hs, NEW onSaved, SaveOr(p, rows, hs, onSaved),
           rows # {} => Cardinality(links[req[p].cmd.name] \cup hs) <= MaxHostsPerDomain,
           \A row \in rows : Milder(req[p], db[req[p].cmd.name], row)
    PROVE  HostLimit' /\ RowSteps
  <1> DEFINE n == req[p].cmd.name
  <1>1. n \in Names
    BY HeldGood
  <1>2. CASE UNCHANGED <<db, links>>
    BY <1>2, RowsKept
  <1>3. CASE \E row \in rows : /\ Saveable(n, row, hs)
                               /\ db' = [db EXCEPT ![n] = row]
                               /\ links' = [links EXCEPT ![n] = @ \cup hs]
    <2> HIDE DEF n
    <2>1. PICK row \in rows : /\ Saveable(n, row, hs)
                              /\ db' = [db EXCEPT ![n] = row]
                              /\ links' = [links EXCEPT ![n] = @ \cup hs]
      BY <1>3
    <2>2. db'[n] = row /\ links'[n] = links[n] \cup hs
      BY <1>1, <2>1 DEF RowsGood
    <2>3. \A m \in Names \ {n} : db'[m] = db[m] /\ links'[m] = links[m]
      BY <2>1 DEF RowsGood
    <2>4. HostLimit'
      BY <2>2, <2>3 DEF HostLimit, n
    <2>5. ~Exists(n) \/ Saves(p, n)
      BY <2>1, <2>2 DEF Saves, Saveable, n
    <2>6. ASSUME NEW m \in Names
          PROVE  RowStep(m)
      <3>1. m = n => ~Exists(m) \/ Saves(p, m)
        BY <2>5
      <3> QED  BY <2>3, <3>1 DEF RowStep
    <2> QED  BY <2>4, <2>6 DEF RowSteps
  <1> QED  BY <1>2, <1>3 DEF SaveOr
\* A save after which the process holds nothing, or responds.
LEMMA SaveOrFrees ==
    ASSUME RowsGood, NEW p \in Procs, NEW rows, NEW hs,
           NEW pc \in {"setLinked", "count"}, SaveOr(p, rows, hs, Heading(p, pc))
    PROVE  UpToDate(p)'
  <1>1. Heading(p, pc).pc = pc
    BY DEF Heading, IdleWith
  <1>2. CASE req' = [req EXCEPT ![p] = Heading(p, pc)]
    <2>1. req'[p] = Heading(p, pc)
      BY <1>2 DEF RowsGood
    <2> QED  BY <1>1, <2>1, FreeUpToDate
  <1> QED  BY <1>2, RespondUpToDate DEF SaveOr

\* The save that ends most methods of DomainService.
LEMMA UpdateRowSerial ==
    ASSUME RowsGood, HostLimit, Alone, NEW p \in Procs, req[p].pc # "idle",
           NEW rows, UpdateRow(p, rows),
           \A row \in rows : Milder(req[p], db[req[p].cmd.name], row)
    PROVE  SerialInv' /\ RowSteps
  <1> DEFINE n == req[p].cmd.name
  <1>1. n \in Names
    BY HeldGood
  <1>2. Cardinality(links[n] \cup {}) <= MaxHostsPerDomain
    <2>1. links[n] \cup {} = links[n]
      OBVIOUS
    <2> QED  BY <1>1, <2>1 DEF HostLimit
  <1>3. HostLimit' /\ RowSteps
    BY <1>2, SaveOrSerial DEF UpdateRow
  <1>4. req'[p].pc = "idle"
    BY DEF UpdateRow, SaveOr, Respond, IdleWith, RowsGood
  <1> QED  BY <1>3, <1>4, FreeUpToDate, AloneSuffices

-----------------------------------------------------------------------------
(* The steps.                                                              *)

\* The operations that load a row without its hosts, change it and save it.
LEMMA RowOpsSerial ==
    ASSUME RowsGood, SerialInv, Alone, NEW p \in Procs,
           \/ RenewDomain(p) \/ AutoRenewDomain(p) \/ MarkDomainForDeletion(p)
           \/ ExpireDomain(p) \/ RestoreDomain(p) \/ DropCatchDomain(p)
           \/ SetDomainStatus(p) \/ UnSetDomainStatus(p)
    PROVE  SerialInv' /\ RowSteps
  <1> DEFINE r == req[p]
             d == req[p].row
  <1>1. d \in Row /\ r.cmd.years \in Int
    BY HeldGood DEF GoodRow
  <1>2. r.pc = "loaded"
    BY DEF RenewDomain, AutoRenewDomain, MarkDomainForDeletion, ExpireDomain,
           RestoreDomain, DropCatchDomain, SetDomainStatus, UnSetDomainStatus, At
  <1>3. d = db[r.cmd.name]
    BY <1>2 DEF SerialInv, UpToDate
  <1>4. ASSUME NEW rows, UpdateRow(p, rows), \A x \in rows : Milder(r, d, x)
        PROVE  SerialInv' /\ RowSteps
    BY <1>2, <1>3, <1>4, UpdateRowSerial DEF SerialInv
  <1>5. CASE RenewDomain(p) \/ AutoRenewDomain(p)
    <2> DEFINE years == req[p].cmd.years
    <2>1. CASE RenewDomain(p)
      <3>1. PICK now \in Now(p) :
              UpdateRow(p, {x \in IF r.cmd.toggle THEN ForceRenew(d, years)
                                  ELSE Renew(d, years, now) :
                              d.clid = r.cmd.clid /\ Quotable(years)})
        BY <2>1 DEF RenewDomain
      <3>2. \A x \in ForceRenew(d, years) \cup Renew(d, years, now) :
              Quotable(years) => Milder(r, d, x)
        <4>1. Quotable(years) => r.cmd.years >= 0
          BY <1>1 DEF Quotable
        <4> QED  BY <1>1, <4>1, RenewMilder
      <3> HIDE DEF d, r, years
      <3> QED  BY <1>4, <3>1, <3>2
    <2>2. CASE AutoRenewDomain(p)
      <3>1. PICK now \in Now(p) :
              UpdateRow(p, {x \in Renew(d, years, now) :
                              AllowAutoRenew /\ d.clid \in AutoRenewRars})
        BY <2>2 DEF AutoRenewDomain
      <3>2. r.cmd.op = "AutoRenewDomain"
        BY <2>2 DEF AutoRenewDomain, At
      <3>3. \A x \in Renew(d, years, now) : Milder(r, d, x)
        BY <1>1, <3>2, RenewMilder
      <3> HIDE DEF d, r, years
      <3> QED  BY <1>4, <3>1, <3>3
    <2> QED  BY <1>5, <2>1, <2>2
  <1>6. CASE MarkDomainForDeletion(p) \/ ExpireDomain(p)
    <2>1. PICK now \in Now(p) :
            \/ UpdateRow(p, MarkForDeletion(d, r.hosts, now))
            \/ UpdateRow(p, Expire(d, r.hosts, now))
      BY <1>6 DEF MarkDomainForDeletion, ExpireDomain
    <2>2. \A x \in MarkForDeletion(d, r.hosts, now) \cup Expire(d, r.hosts, now) :
            Milder(r, d, x)
      BY <1>1, EndOfLifeMilder
    <2> HIDE DEF d, r
    <2> QED  BY <1>4, <2>1, <2>2
  <1>7. ASSUME NEW sts, UpdateRow(p, WithStatus(d, sts)),
               \/ r.cmd.op \in {"RestoreDomain", "UnSetStatus"}
               \/ \A st \in sts : "pendingDelete" \in d.status => "pendingDelete" \in st
        PROVE  SerialInv' /\ RowSteps
    <2>1. \A x \in WithStatus(d, sts) : Milder(r, d, x)
      BY <1>1, <1>7, StatusMilder DEF WithStatus
    <2> QED  BY <1>4, <1>7, <2>1
  <1>8. CASE RestoreDomain(p) \/ UnSetDomainStatus(p)
    <2>1. PICK sts : UpdateRow(p, WithStatus(d, sts))
      BY <1>8 DEF RestoreDomain, UnSetDomainStatus, Restore
    <2>2. r.cmd.op \in {"RestoreDomain", "UnSetStatus"}
      BY <1>8 DEF RestoreDomain, UnSetDomainStatus, At
    <2> QED  BY <1>7, <2>1, <2>2
  <1>9. CASE SetDomainStatus(p)
    <2> DEFINE sts == SetStatus(d.status, r.cmd.flag, r.hosts # {})
    <2>1. UpdateRow(p, WithStatus(d, sts))
      BY <1>9 DEF SetDomainStatus
    <2>2. \A st \in sts : "pendingDelete" \in d.status => "pendingDelete" \in st
      BY SetStatusAdds
    <2> HIDE DEF sts
    <2> QED  BY <1>7, <2>1, <2>2
  <1>10. CASE DropCatchDomain(p)
    <2> DEFINE x == [d EXCEPT !.dropCatch = r.cmd.toggle]
    <2>1. UpdateRow(p, {x})
      BY <1>10 DEF DropCatchDomain
    <2>2. Milder(r, d, x)
      BY <1>1 DEF Row, Milder
    <2> HIDE DEF x
    <2> QED  BY <1>4, <2>1, <2>2
  <1> QED  BY <1>5, <1>6, <1>8, <1>9, <1>10

\* The administrator's update, which may do all that the others may not.
LEMMA UpdateDomainSerial ==
    ASSUME RowsGood, SerialInv, Alone, NEW p \in Procs, UpdateDomain(p)
    PROVE  SerialInv' /\ RowSteps
  <1>1. At(p, "loaded", "UpdateDomain")
    BY DEF UpdateDomain
  <1>2. PICK rows : SaveOr(p, rows, {}, IdleWith(Answer(p, "ok")))
    BY DEF UpdateDomain
  <1>3. \A row \in rows : Milder(req[p], db[req[p].cmd.name], row)
    BY <1>1 DEF At, Milder
  <1>4. Cardinality(links[req[p].cmd.name] \cup {}) <= MaxHostsPerDomain
    <2>1. links[req[p].cmd.name] \cup {} = links[req[p].cmd.name]
      OBVIOUS
    <2> QED  BY <2>1, HeldGood DEF SerialInv, HostLimit
  <1>5. HostLimit' /\ RowSteps
    BY <1>1, <1>2, <1>3, <1>4, SaveOrSerial DEF SerialInv, At
  <1>6. req'[p].pc = "idle"
    BY <1>2 DEF SaveOr, Respond, IdleWith, RowsGood
  <1> QED  BY <1>5, <1>6, FreeUpToDate, AloneSuffices
\* A registration is given its hosts by Domain.AddHost, one after the other.
LEMMA RegisterSerial ==
    ASSUME RowsGood, SerialInv, Alone, NEW p \in Procs, RegisterDomain(p)
    PROVE  SerialInv' /\ RowSteps
  <1> DEFINE c == req[p].cmd
             rows(now) ==
               {x \in UNION {AddHosts(d, c.hosts) :
                        d \in Registration(nextRoid, c.clid, c.years, now)} :
                  Quotable(c.years) /\ ~Exists(c.name)}
  <1>1. c.name \in Names
    BY HeldGood
  <1>2. PICK now \in Now(p) :
          \/ \E row \in rows(now) :
               /\ db' = [db EXCEPT ![c.name] = row]
               /\ links' = [links EXCEPT ![c.name] = c.hosts]
               /\ Respond(p, "ok")
          \/ /\ Respond(p, "err")
             /\ UNCHANGED <<db, links>>
    BY DEF RegisterDomain
  <1>3. ASSUME NEW row \in rows(now)
        PROVE  ~Exists(c.name) /\ Cardinality(c.hosts) <= MaxHostsPerDomain
    BY <1>3 DEF AddHosts
  <1> HIDE DEF rows, c
  <1>4. CASE \E row \in rows(now) :
               /\ db' = [db EXCEPT ![c.name] = row]
               /\ links' = [links EXCEPT ![c.name] = c.hosts]
               /\ Respond(p, "ok")
    <2>1. PICK row \in rows(now) :
               /\ db' = [db EXCEPT ![c.name] = row]
               /\ links' = [links EXCEPT ![c.name] = c.hosts]
               /\ Respond(p, "ok")
      BY <1>4
    <2>2. /\ links'[c.name] = c.hosts
          /\ \A m \in Names \ {c.name} : db'[m] = db[m] /\ links'[m] = links[m]
      BY <1>1, <2>1 DEF RowsGood
    <2>3. HostLimit'
      BY <1>3, <2>2 DEF SerialInv, HostLimit
    <2>4. RowSteps
      BY <1>3, <2>2 DEF RowSteps, RowStep
    <2> QED  BY <2>1, <2>3, <2>4, RespondUpToDate, AloneSuffices
  <1>5. CASE Respond(p, "err") /\ UNCHANGED <<db, links>>
    BY <1>5, RespondUpToDate, AloneSuffices, RowsKept DEF SerialInv
  <1> QED  BY <1>2, <1>4, <1>5

\* The administrator's creations.
LEMMA CreateSerial ==
    ASSUME RowsGood, SerialInv, Alone, NEW p \in Procs,
           NEW c \in Command, NEW cs \in SUBSET Command,
           CreateDomain(p, c) \/ BulkCreate(p, cs)
    PROVE  SerialInv' /\ RowSteps
  <1>1. UNCHANGED links /\ \E res : Respond(p, res)
    BY DEF CreateDomain, BulkCreate
  <1>2. ASSUME NEW n \in Names
        PROVE  db'[n] = db[n] \/ ~Exists(n)
    BY <1>2, CreateKeepsRows
  <1>3. HostLimit' /\ RowSteps
    BY <1>1, <1>2 DEF SerialInv, HostLimit, RowSteps, RowStep
  <1> QED  BY <1>1, <1>3, RespondUpToDate, AloneSuffices

\* AddHostToDomain adds to the hosts the domain has.
LEMMA AddHostSerial ==
    ASSUME RowsGood, SerialInv, Alone, NEW p \in Procs, AddHostToDomain(p)
    PROVE  SerialInv' /\ RowSteps
  <1> DEFINE r == req[p]
             n == req[p].cmd.name
  <1>1. r.pc = "loaded" /\ r.cmd.op \in HostOps /\ r.row \in Row /\ n \in Names
    BY HeldGood DEF AddHostToDomain, At, HostOps, GoodRow
  <1>2. r.row = db[n] /\ r.hosts = links[n]
    BY <1>1 DEF SerialInv, UpToDate
  <1>3. PICK h \in r.cmd.hosts :
          \/ Respond(p, "ok") /\ UNCHANGED <<db, links>>
          \/ SaveOr(p, AddHost(r.row, r.hosts, h, r.cmd.toggle),
                    r.hosts \cup {h}, Heading(p, "setLinked"))
    BY DEF AddHostToDomain
  <1>4. CASE Respond(p, "ok") /\ UNCHANGED <<db, links>>
    BY <1>4, RespondUpToDate, AloneSuffices, RowsKept DEF SerialInv
  <1>5. CASE SaveOr(p, AddHost(r.row, r.hosts, h, r.cmd.toggle),
                    r.hosts \cup {h}, Heading(p, "setLinked"))
    <2> DEFINE rows == AddHost(r.row, r.hosts, h, r.cmd.toggle)
    <2>1. rows # {} => Cardinality(links[n] \cup (r.hosts \cup {h})) <= MaxHostsPerDomain
      <3>1. rows # {} => h \notin links[n] /\ Cardinality(links[n]) < MaxHostsPerDomain
        BY <1>2 DEF AddHost, MayAddHost
      <3>2. IsFiniteSet(links[n])
        BY <1>1, HostsAssumption, FS_Subset DEF RowsGood
      <3>3. /\ Cardinality(links[n]) \in Nat
            /\ h \notin links[n] =>
                 Cardinality(links[n] \cup {h}) = Cardinality(links[n]) + 1
        BY <3>2, FS_AddElement, FS_CardinalityType
      <3>4. links[n] \cup (r.hosts \cup {h}) = links[n] \cup {h}
        BY <1>2
      <3> QED  BY <3>1, <3>3, <3>4, HostsAssumption
    <2>2. \A x \in rows : Milder(r, db[n], x)
      <3>1. "pendingDelete" \in r.row.status =>
               "pendingDelete" \in DelegatedStatus(r.row.status)
        BY DEF DelegatedStatus, SetOKStatusIfNeeded, SetUnsetInactiveStatus
      <3> QED  BY <1>1, <1>2, <3>1, StatusMilder DEF AddHost, WithStatus
    <2>3. HostLimit' /\ RowSteps
      BY <1>1, <1>5, <2>1, <2>2, SaveOrSerial DEF SerialInv
    <2> QED  BY <1>5, <2>3, SaveOrFrees, AloneSuffices
  <1> QED  BY <1>3, <1>4, <1>5

\* RemoveHostFromDomain, whose save writes back what is left of the hosts.
LEMMA RemoveHostSerial ==
    ASSUME RowsGood, SerialInv, Alone, NEW p \in Procs, RemoveHostFromDomain(p)
    PROVE  SerialInv' /\ RowSteps
  <1> DEFINE r == req[p]
             n == req[p].cmd.name
  <1>1. /\ r.pc = "loaded" /\ r.cmd.op \in HostOps /\ r.row \in Row /\ n \in Names
        /\ r \in GoodRequest
    BY HeldGood DEF RemoveHostFromDomain, At, HostOps, GoodRow
  <1>2. Exists(n) /\ r.row = db[n] /\ r.hosts = links[n]
    BY <1>1 DEF SerialInv, UpToDate
  <1>3. UNCHANGED db
    BY DEF RemoveHostFromDomain
  <1>4. PICK h \in r.cmd.hosts :
          \/ \E x \in RemoveHost(r.row, r.hosts, h) :
               /\ links' = LinksWithout(n, r.row.roid, h)
               /\ req' = [req EXCEPT ![p] = [r EXCEPT
                            !.pc = "saveRemoved", !.row = x, !.hosts = @ \ {h},
                            !.at = 0]]
          \/ Respond(p, "err") /\ UNCHANGED links
    BY DEF RemoveHostFromDomain
  <1>5. HostLimit' /\ RowSteps
    <2>1. \A m \in Names : links'[m] \subseteq links[m]
      BY <1>4, FewerLinks
    <2> QED  BY <1>3, <2>1, RowsKept DEF SerialInv
  <1>6. CASE Respond(p, "err")
    BY <1>5, <1>6, RespondUpToDate, AloneSuffices
  <1>7. CASE \E x \in RemoveHost(r.row, r.hosts, h) :
               /\ links' = LinksWithout(n, r.row.roid, h)
               /\ req' = [req EXCEPT ![p] = [r EXCEPT
                            !.pc = "saveRemoved", !.row = x, !.hosts = @ \ {h},
                            !.at = 0]]
    <2>1. PICK x \in RemoveHost(r.row, r.hosts, h) :
               /\ links' = LinksWithout(n, r.row.roid, h)
               /\ req' = [req EXCEPT ![p] = [r EXCEPT
                            !.pc = "saveRemoved", !.row = x, !.hosts = @ \ {h},
                            !.at = 0]]
      BY <1>7
    <2> DEFINE y == [r EXCEPT !.pc = "saveRemoved", !.row = x,
                              !.hosts = @ \ {h}, !.at = 0]
    <2>2. y.pc = "saveRemoved" /\ y.row = x /\ y.hosts = r.hosts \ {h} /\ y.cmd = r.cmd
      BY <1>1 DEF GoodRequest
    <2>3. SameTerms(db[n], x)
      BY <1>1, <1>2 DEF RemoveHost, WithStatus, SetUnsetInactiveStatus, SameTerms, Row
    <2>4. links'[n] = links[n] \ {h}
      BY <1>1, <1>2, <2>1 DEF LinksWithout, RowsGood
    <2> HIDE DEF y
    <2>5. req'[p] = y
      BY <2>1 DEF RowsGood, y
    <2>6. UpToDate(p)'
      BY <1>2, <1>3, <2>2, <2>3, <2>4, <2>5 DEF UpToDate, Exists, PurgePCs
    <2> QED  BY <1>5, <2>6, AloneSuffices
  <1> QED  BY <1>4, <1>6, <1>7

LEMMA SaveAfterRemoveHostSerial ==
    ASSUME RowsGood, SerialInv, Alone, NEW p \in Procs, SaveAfterRemoveHost(p)
    PROVE  SerialInv' /\ RowSteps
  <1> DEFINE r == req[p]
             n == req[p].cmd.name
  <1>1. /\ r.pc = "saveRemoved" /\ n \in Names /\ db[n] \in Row
        /\ SaveOr(p, {r.row}, r.hosts, Heading(p, "count"))
    BY HeldGood DEF SaveAfterRemoveHost, RowsGood, GoodRow
  <1>2. SameTerms(db[n], r.row) /\ r.hosts = links[n]
    BY <1>1 DEF SerialInv, UpToDate
  <1>3. Milder(r, db[n], r.row)
    BY <1>1, <1>2 DEF SameTerms, Milder, Row
  <1>4. Cardinality(links[n] \cup r.hosts) <= MaxHostsPerDomain
    <2>1. links[n] \cup r.hosts = links[n]
      BY <1>2
    <2> QED  BY <1>1, <2>1 DEF SerialInv, HostLimit
  <1>5. HostLimit' /\ RowSteps
    BY <1>1, <1>3, <1>4, SaveOrSerial DEF SerialInv
  <1> QED  BY <1>1, <1>5, SaveOrFrees, AloneSuffices
\* RemoveAllDomainHosts loads the domain again, and saves what it loaded.
LEMMA DetachSerial ==
    ASSUME RowsGood, SerialInv, Alone, NEW p \in Procs,
           RemoveAllDomainHosts(p) \/ UnlinkHost(p) \/ SaveAfterDetach(p)
    PROVE  SerialInv' /\ RowSteps
  <1> DEFINE r == req[p]
             n == req[p].cmd.name
  <1>1. n \in Names /\ r \in GoodRequest /\ db[n] \in Row
    BY HeldGood DEF RowsGood, GoodRow
  <1>2. CASE RemoveAllDomainHosts(p)
    <2>1. HostLimit' /\ RowSteps
      BY <1>2, RowsKept DEF RemoveAllDomainHosts, SerialInv
    <2> DEFINE k == Cardinality(links[n])
               dom == IF k = 0 THEN db[n]
                      ELSE [db[n] EXCEPT !.status = SetUnsetInactiveStatus(@, FALSE)]
    <2>2. /\ UNCHANGED <<clock, db, nndn>> /\ r.pc = "detach"
          /\ \/ /\ Exists(n)
                /\ \E drop \in SUBSET links[n] :
                     req' = [req EXCEPT ![p] = [@ EXCEPT
                               !.pc = "unlink", !.drop = drop, !.short = DetachFails(k),
                               !.dom = dom]]
             \/ Respond(p, "err")
      BY <1>2 DEF RemoveAllDomainHosts
    <2>3. SameTerms(db[n], dom)
      BY <1>1 DEF SetUnsetInactiveStatus, SameTerms, Row
    <2> HIDE DEF dom, k
    <2>4. CASE /\ Exists(n)
               /\ \E drop \in SUBSET links[n] :
                     req' = [req EXCEPT ![p] = [@ EXCEPT
                               !.pc = "unlink", !.drop = drop, !.short = DetachFails(k),
                               !.dom = dom]]
      <3>1. PICK drop :
              req' = [req EXCEPT ![p] = [r EXCEPT
                        !.pc = "unlink", !.drop = drop, !.short = DetachFails(k),
                        !.dom = dom]]
        BY <2>4
      <3> DEFINE y == [r EXCEPT !.pc = "unlink", !.drop = drop,
                                !.short = DetachFails(k), !.dom = dom]
      <3>2. y.pc = "unlink" /\ y.dom = dom /\ y.cmd = r.cmd /\ y.row = r.row
        BY <1>1 DEF GoodRequest
      <3>3. req'[p] = y
        BY <3>1 DEF RowsGood
      <3> HIDE DEF y
      <3>4. UpToDate(p)'
        BY <2>2, <2>3, <2>4, <3>2, <3>3
        DEF SerialInv, UpToDate, PurgeUnderWay, PurgePCs, Exists
      <3> QED  BY <2>1, <3>4, AloneSuffices
    <2> QED  BY <2>1, <2>2, <2>4, RespondUpToDate, AloneSuffices
  <1>3. CASE UnlinkHost(p)
    <2>1. PICK h : /\ links' = LinksWithout(n, r.dom.roid, h)
                   /\ req' = [req EXCEPT ![p] = [r EXCEPT !.drop = @ \ {h}]]
      BY <1>3 DEF UnlinkHost
    <2>2. UNCHANGED <<clock, db, nndn>> /\ r.pc = "unlink"
      BY <1>3 DEF UnlinkHost
    <2>3. HostLimit' /\ RowSteps
      BY <2>1, <2>2, FewerLinks, RowsKept DEF SerialInv
    <2> DEFINE y == [r EXCEPT !.drop = @ \ {h}]
    <2>4. y.pc = r.pc /\ y.dom = r.dom /\ y.cmd = r.cmd /\ y.row = r.row
      BY <1>1 DEF GoodRequest
    <2>5. req'[p] = y
      BY <2>1 DEF RowsGood
    <2> HIDE DEF y
    <2>6. UpToDate(p)'
      BY <2>2, <2>4, <2>5 DEF SerialInv, UpToDate, PurgeUnderWay, PurgePCs, Exists
    <2> QED  BY <2>3, <2>6, AloneSuffices
  <1>4. CASE SaveAfterDetach(p)
    <2> DEFINE rows == {d \in {r.dom} : ~r.short}
               y == [r EXCEPT !.short = FALSE, !.dom = NoRow,
                              !.pc = IF r.cmd.op = "PurgeDomain" THEN "nndn"
                                     ELSE "delete"]
    <2>1. SaveOr(p, rows, {}, y) /\ r.pc = "unlink" /\ UNCHANGED <<clock, nndn>>
      BY <1>4 DEF SaveAfterDetach
    <2>2. Exists(n) /\ SameTerms(db[n], r.dom)
      BY <2>1 DEF SerialInv, UpToDate
    <2>3. \A row \in rows : Milder(r, db[n], row)
      BY <1>1, <2>2 DEF SameTerms, Milder, Row
    <2>4. Cardinality(links[n] \cup {}) <= MaxHostsPerDomain
      <3>1. links[n] \cup {} = links[n]
        OBVIOUS
      <3> QED  BY <1>1, <3>1 DEF SerialInv, HostLimit
    <2>5. /\ y.cmd = r.cmd /\ y.row = r.row
          /\ y.pc = IF r.cmd.op = "PurgeDomain" THEN "nndn" ELSE "delete"
      BY <1>1 DEF GoodRequest
    <2> HIDE DEF y
    <2>6. HostLimit' /\ RowSteps
      BY <2>1, <2>3, <2>4, SaveOrSerial DEF SerialInv
    <2>7. CASE \E row \in rows : /\ db' = [db EXCEPT ![n] = row]
                                 /\ req' = [req EXCEPT ![p] = y]
      <3>1. db'[n] = r.dom /\ req'[p] = y
        BY <1>1, <2>7 DEF RowsGood
      <3>2. r.cmd.op = "PurgeDomain" => PurgeUnderWay(r, n)
        BY <2>1 DEF SerialInv, UpToDate, PurgePCs
      <3>3. UpToDate(p)'
        BY <2>1, <2>2, <2>5, <3>1, <3>2 DEF UpToDate, PurgeUnderWay, PurgePCs, SameTerms
      <3> QED  BY <2>6, <3>3, AloneSuffices
    <2>8. CASE Respond(p, "err")
      BY <2>6, <2>8, RespondUpToDate, AloneSuffices
    <2> QED  BY <2>1, <2>7, <2>8 DEF SaveOr
  <1> QED  BY <1>2, <1>3, <1>4

\* A purge begins when it is due, blocks the name if it has to, and deletes.
LEMMA PurgeSerial ==
    ASSUME RowsGood, SerialInv, Alone, NEW p \in Procs,
           PurgeDomain(p) \/ CreateNNDN(p) \/ DeleteRow(p)
    PROVE  SerialInv' /\ RowSteps
  <1> DEFINE r == req[p]
             n == req[p].cmd.name
  <1>1. n \in Names /\ r \in GoodRequest /\ db[n] \in Row /\ clock \in Int
    BY HeldGood DEF RowsGood, GoodRow
  <1>2. \A pc : Heading(p, pc).pc = pc /\ Heading(p, pc).cmd = r.cmd
    BY DEF Heading, IdleWith
  <1>3. CASE PurgeDomain(p)
    <2>1. /\ r.pc = "loaded" /\ r.cmd.op = "PurgeDomain" /\ r.row = db[n]
          /\ UNCHANGED <<clock, db, links, nndn>>
      BY <1>3 DEF PurgeDomain, At, SerialInv, UpToDate
    <2>2. HostLimit' /\ RowSteps
      BY <2>1, RowsKept DEF SerialInv
    <2>3. PICK now \in Now(p) :
            \/ /\ CanBePurged(r.row, now)
               /\ req' = [req EXCEPT ![p] =
                            [Heading(p, IF r.hosts # {} THEN "detach" ELSE "nndn")
                               EXCEPT !.row = r.row]]
            \/ Respond(p, "err")
      BY <1>3 DEF PurgeDomain
    <2>4. CASE /\ CanBePurged(r.row, now)
               /\ req' = [req EXCEPT ![p] =
                            [Heading(p, IF r.hosts # {} THEN "detach" ELSE "nndn")
                               EXCEPT !.row = r.row]]
      <3> DEFINE y == [Heading(p, IF r.hosts # {} THEN "detach" ELSE "nndn")
                         EXCEPT !.row = r.row]
      <3>1. y.pc \in {"detach", "nndn"} /\ y.cmd = r.cmd /\ y.row = db[n]
        BY <2>1 DEF Heading, IdleWith
      <3>2. req'[p] = y
        BY <2>4 DEF RowsGood
      <3>3. db[n].purge < clock
        BY <1>1, <2>1, <2>4, HeldGood DEF CanBePurged, Now, GoodRequest, Row
      <3> HIDE DEF y
      <3>4. UpToDate(p)'
        BY <2>1, <3>1, <3>2, <3>3 DEF UpToDate, PurgeUnderWay, PurgePCs
      <3> QED  BY <2>2, <3>4, AloneSuffices
    <2> QED  BY <2>2, <2>3, <2>4, RespondUpToDate, AloneSuffices
  <1>4. CASE CreateNNDN(p)
    <2>1. /\ r.pc = "nndn" /\ UNCHANGED <<clock, db, links>>
          /\ \/ /\ Goto(p, "delete")
                /\ nndn \subseteq nndn' /\ (r.row.dropCatch => n \in nndn')
             \/ Respond(p, "err")
      BY <1>4 DEF CreateNNDN
    <2>2. HostLimit' /\ RowSteps
      BY <2>1, RowsKept DEF SerialInv
    <2>3. CASE /\ Goto(p, "delete")
               /\ nndn \subseteq nndn' /\ (r.row.dropCatch => n \in nndn')
      <3>1. req'[p].pc = "delete" /\ req'[p].cmd = r.cmd
        BY <1>2, <2>3 DEF Goto, RowsGood
      <3>2. r.cmd.op = "PurgeDomain" => PurgeUnderWay(r, n)
        BY <2>1 DEF SerialInv, UpToDate, PurgePCs
      <3>3. UpToDate(p)'
        BY <2>1, <2>3, <3>1, <3>2 DEF UpToDate, PurgeUnderWay, PurgePCs
      <3> QED  BY <2>2, <3>3, AloneSuffices
    <2> QED  BY <2>1, <2>2, <2>3, RespondUpToDate, AloneSuffices
  <1>5. CASE DeleteRow(p)
    <2>1. r.pc = "delete" /\ UNCHANGED links /\ \E res : Respond(p, res)
      BY <1>5 DEF DeleteRow
    <2>2. r.cmd.op = "PurgeDomain" => PurgeUnderWay(r, n)
      BY <2>1 DEF SerialInv, UpToDate, PurgePCs
    <2>3. UNCHANGED db \/ (links[n] = {} /\ db' = [db EXCEPT ![n] = NoRow])
      BY <1>5 DEF DeleteRow
    <2>4. ASSUME links[n] = {}, db' = [db EXCEPT ![n] = NoRow]
          PROVE  RowSteps
      <3>1. PICK k \in Names : k = n
        BY <1>1
      <3>2. db'[k].roid = 0 /\ \A m \in Names \ {k} : db'[m] = db[m]
        BY <2>4, <3>1, NoRowGood DEF RowsGood
      <3>3. Removes(p, k)
        <4>1. ~Exists(k)'
          BY <3>2 DEF Exists
        <4>2. r.cmd.op = "PurgeDomain" =>
                db[k].purge < clock /\ (db[k].dropCatch => k \in nndn)
          BY <2>1, <2>2, <3>1, Zenon DEF PurgeUnderWay
        <4> QED  BY <2>4, <3>1, <4>1, <4>2 DEF Removes
      <3>4. RowStep(k)
        <4>1. req[p].pc # "idle"
          BY <2>1
        <4> QED  BY <3>3, <4>1, Zenon DEF RowStep
      <3>5. \A m \in Names \ {k} : RowStep(m)
        BY <3>2 DEF RowStep
      <3> QED  BY <3>4, <3>5 DEF RowSteps
    <2>5. HostLimit' /\ RowSteps
      <3>1. HostLimit'
        BY <2>1 DEF SerialInv, HostLimit
      <3>2. UNCHANGED db => RowSteps
        BY DEF RowSteps, RowStep
      <3> QED  BY <2>3, <2>4, <3>1, <3>2
    <2> QED  BY <2>1, <2>5, RespondUpToDate, AloneSuffices
  <1> QED  BY <1>3, <1>4, <1>5

\* Loading, and the statements that write neither table.
LEMMA AcceptSerial ==
    ASSUME RowsGood, SerialInv, Alone, NEW p \in Procs, NEW c \in Command,
           \/ LoadDomain(p, c) \/ DomainNotFound(p, c) \/ CheckDomainAvailability(p, c)
           \/ DeleteDomainByName(p, c)
    PROVE  SerialInv' /\ RowSteps
  <1>1. HostLimit' /\ RowSteps
    BY RowsKept DEF SerialInv, LoadDomain, DomainNotFound, CheckDomainAvailability,
                    DeleteDomainByName
  <1>2. CASE LoadDomain(p, c)
    <2> DEFINE x == [IdleWith("none") EXCEPT
                       !.pc = "loaded", !.cmd = c, !.row = db[c.name],
                       !.hosts = IF c.op \in HostOps THEN links[c.name] ELSE {},
                       !.at = clock]
    <2>1. /\ x.pc = "loaded" /\ x.cmd = c /\ x.row = db[c.name]
          /\ c.op \in HostOps => x.hosts = links[c.name]
      BY DEF IdleWith
    <2>2. req'[p] = x
      BY <1>2 DEF LoadDomain, RowsGood
    <2> HIDE DEF x
    <2>3. Exists(c.name) /\ UNCHANGED <<db, links>>
      BY <1>2 DEF LoadDomain
    <2>4. UpToDate(p)'
      BY <2>1, <2>2, <2>3 DEF UpToDate, PurgePCs, Exists
    <2> QED  BY <1>1, <2>4, AloneSuffices
  <1>3. CASE DeleteDomainByName(p, c)
    <2> DEFINE x == [IdleWith("none") EXCEPT
                       !.pc = IF c.toggle THEN "detach" ELSE "delete", !.cmd = c]
    <2>1. x.pc \in {"detach", "delete"} /\ x.cmd.op = "DeleteDomainByName"
      BY <1>3 DEF IdleWith, DeleteDomainByName
    <2>2. req'[p] = x
      BY <1>3 DEF DeleteDomainByName, RowsGood
    <2> HIDE DEF x
    <2>3. UpToDate(p)'
      BY <2>1, <2>2 DEF UpToDate
    <2> QED  BY <1>1, <2>3, AloneSuffices
  <1>4. CASE CheckDomainAvailability(p, c)
    <2> DEFINE x == [IdleWith("none") EXCEPT
                       !.pc = "available", !.cmd = c, !.at = clock]
    <2>1. x.pc = "available"
      BY DEF IdleWith
    <2>2. req' = [req EXCEPT ![p] = x] \/ Respond(p, "err")
      BY <1>4 DEF CheckDomainAvailability
    <2> HIDE DEF x
    <2>3. CASE req' = [req EXCEPT ![p] = x]
      <3>1. req'[p] = x
        BY <2>3 DEF RowsGood
      <3> QED  BY <1>1, <2>1, <3>1, FreeUpToDate, AloneSuffices
    <2> QED  BY <1>1, <2>2, <2>3, RespondUpToDate, AloneSuffices
  <1>5. CASE DomainNotFound(p, c)
    BY <1>1, <1>5, RespondUpToDate, AloneSuffices DEF DomainNotFound
  <1> QED  BY <1>2, <1>3, <1>4, <1>5

LEMMA FlagsSerial ==
    ASSUME RowsGood, SerialInv, Alone, NEW p \in Procs,
           \/ SetHostLinked(p) \/ UnsetHostLinked(p) \/ CountHostAssociations(p)
           \/ Abort(p)
    PROVE  SerialInv' /\ RowSteps
  <1>1. HostLimit' /\ RowSteps
    BY RowsKept DEF SerialInv, SetHostLinked, UnsetHostLinked, CountHostAssociations,
                    Abort
  <1>2. (\E res : Respond(p, res)) \/ Goto(p, "unsetLinked")
    BY DEF SetHostLinked, UnsetHostLinked, CountHostAssociations, Abort
  <1>3. CASE Goto(p, "unsetLinked")
    <2>1. Heading(p, "unsetLinked").pc = "unsetLinked"
      BY DEF Heading, IdleWith
    <2>2. req'[p] = Heading(p, "unsetLinked")
      BY <1>3 DEF Goto, RowsGood
    <2> QED  BY <1>1, <2>1, <2>2, FreeUpToDate, AloneSuffices
  <1> QED  BY <1>1, <1>2, <1>3, RespondUpToDate, AloneSuffices

LEMMA NextSerial ==
    ASSUME RowsGood, SerialInv, Alone, [Next]_vars
    PROVE  SerialInv' /\ RowSteps
  <1>1. CASE UNCHANGED vars
    BY <1>1 DEF vars, SerialInv, HostLimit, UpToDate, PurgeUnderWay, Exists, RowSteps,
                RowStep
  <1>2. CASE Tick
    <2>1. UNCHANGED <<db, links, nndn, req>> /\ clock' = clock + 1
      BY <1>2 DEF Tick
    <2>2. \A n \in Names : db[n].purge < clock => db[n].purge < clock'
      BY <2>1 DEF RowsGood, GoodRow, Row
    <2>3. \A p \in Procs : UpToDate(p)'
      BY <2>1, <2>2, HeldGood DEF SerialInv, UpToDate, PurgeUnderWay, Exists
    <2> QED  BY <2>1, <2>3 DEF SerialInv, HostLimit, RowSteps, RowStep
  <1>3. ASSUME NEW p \in Procs, Accept(p)
        PROVE  SerialInv' /\ RowSteps
    BY <1>3, CommandsAssumption, NoCommandType, AcceptSerial, CreateSerial DEF Accept
  <1>4. ASSUME NEW p \in Procs, Serve(p) \/ Abort(p)
        PROVE  SerialInv' /\ RowSteps
    BY <1>4, RowOpsSerial, UpdateDomainSerial, RegisterSerial, AddHostSerial,
       RemoveHostSerial, SaveAfterRemoveHostSerial, DetachSerial, PurgeSerial,
       FlagsSerial DEF Serve
  <1> QED  BY <1>1, <1>2, <1>3, <1>4 DEF Next

-----------------------------------------------------------------------------
\* The invariant of the four theorems that follow.
LEMMA SerialInvariant == Alone => (Spec => [](RowsGood /\ SerialInv))
  <1>1. Init => SerialInv
    <2> SUFFICES ASSUME Init PROVE SerialInv
      OBVIOUS
    <2>1. HostLimit
      BY FS_EmptySet, HostsAssumption DEF Init, HostLimit
    <2>2. \A p \in Procs : UpToDate(p)
      BY DEF Init, IdleWith, UpToDate, PurgePCs
    <2> QED  BY <2>1, <2>2 DEF SerialInv
  <1>2. ASSUME Alone
        PROVE  RowsGood /\ SerialInv /\ [Next]_vars => SerialInv'
    BY <1>2, NextSerial
  <1> SUFFICES ASSUME Alone PROVE Spec => [](RowsGood /\ SerialInv)
    OBVIOUS
  <1>3. RowsGood /\ SerialInv /\ [Next]_vars => SerialInv'
    BY <1>2
  <1> QED  BY <1>1, <1>3, RowsGoodInvariant, PTL DEF Spec

\* HostLimit: adding, removing, registering and detaching hosts one at a time,
\* with any of them failing half-way, never takes a domain past the limit.
THEOREM HostsLimited == Alone => (Spec => []HostLimit)
  <1> SUFFICES ASSUME Alone PROVE Spec => []HostLimit
    OBVIOUS
  <1>1. RowsGood /\ SerialInv => HostLimit
    BY DEF SerialInv
  <1> QED  BY <1>1, SerialInvariant, PTL

\* PurgeIsDue: a purge deletes the row only after the purge date, with the hosts
\* gone and the name blocked if it was to be, also when it is asked for again
\* after an attempt that failed between any two of its statements.
THEOREM PurgesAreDue == Alone => (Spec => PurgeIsDue)
  <1> DEFINE Due ==
         \A n \in Names :
            Exists(n) /\ ~Exists(n)' /\ ServedBy({"PurgeDomain"}) =>
               /\ db[n].purge < clock
               /\ links[n] = {}
               /\ db[n].dropCatch => n \in nndn
  <1> SUFFICES ASSUME Alone PROVE Spec => PurgeIsDue
    OBVIOUS
  <1>1. ASSUME RowsGood, SerialInv, Next
        PROVE  Due
    <2>1. ASSUME NEW n \in Names, Exists(n), ~Exists(n)', ServedBy({"PurgeDomain"})
          PROVE  /\ db[n].purge < clock
                 /\ links[n] = {}
                 /\ db[n].dropCatch => n \in nndn
      <3>1. RowStep(n)
        BY <1>1, NextSerial DEF RowSteps
      <3>2. PICK p \in Procs : Saves(p, n) \/ Removes(p, n)
        BY <2>1, <3>1 DEF RowStep, Exists
      <3>3. Removes(p, n)
        BY <2>1, <3>2 DEF Saves, Exists
      <3>4. req[p].cmd.op = "PurgeDomain"
        BY <2>1 DEF ServedBy, Alone
      <3> QED  BY <3>3, <3>4, Zenon DEF Removes
    <2> QED  BY <2>1
  <1>2. RowsGood /\ SerialInv /\ [Next]_vars => [Due]_vars
    BY <1>1
  <1> QED  BY <1>2, SerialInvariant, PTL DEF Spec, PurgeIsDue

\* DeletionSticks: no renewal, host change, expiry or aborted request takes a
\* domain out of pendingDelete.
THEOREM DeletionsStick == Alone => (Spec => DeletionSticks)
  <1> DEFINE Sticks ==
         \A n \in Names :
            /\ SameRow(n)
            /\ "pendingDelete" \in db[n].status
            /\ "pendingDelete" \notin db'[n].status
            => ServedBy({"RestoreDomain", "UnSetStatus", "UpdateDomain"})
  <1> SUFFICES ASSUME Alone PROVE Spec => DeletionSticks
    OBVIOUS
  <1>1. ASSUME RowsGood, SerialInv, Next
        PROVE  Sticks
    <2>1. ASSUME NEW n \in Names, SameRow(n), "pendingDelete" \in db[n].status,
                 "pendingDelete" \notin db'[n].status
          PROVE  ServedBy({"RestoreDomain", "UnSetStatus", "UpdateDomain"})
      <3>1. RowStep(n)
        BY <1>1, NextSerial DEF RowSteps
      <3>2. PICK p \in Procs : req[p].pc # "idle" /\ Milder(req[p], db[n], db'[n])
        BY <2>1, <3>1 DEF RowStep, SameRow, Saves, Removes, Exists
      <3> QED  BY <2>1, <3>2 DEF Milder, ServedBy
    <2> QED  BY <2>1
  <1>2. RowsGood /\ SerialInv /\ [Next]_vars => [Sticks]_vars
    BY <1>1
  <1> QED  BY <1>2, SerialInvariant, PTL DEF Spec, DeletionSticks

\* RenewalsAccumulate: the expiry date moves back only when it is edited, or by
\* an auto-renewal of a negative number of years.
THEOREM RenewalsAddUp == Alone => (Spec => RenewalsAccumulate)
  <1> DEFINE Accumulate ==
         \A n \in Names :
            SameRow(n) /\ db'[n].expiry < db[n].expiry =>
               \/ ServedBy({"UpdateDomain"})
               \/ /\ ServedBy({"AutoRenewDomain"})
                  /\ \E p \in Procs : req[p].cmd.years < 0
  <1> SUFFICES ASSUME Alone PROVE Spec => RenewalsAccumulate
    OBVIOUS
  <1>1. ASSUME RowsGood, SerialInv, Next
        PROVE  Accumulate
    <2>1. ASSUME NEW n \in Names, SameRow(n), db'[n].expiry < db[n].expiry
          PROVE  \/ ServedBy({"UpdateDomain"})
                 \/ /\ ServedBy({"AutoRenewDomain"})
                    /\ \E p \in Procs : req[p].cmd.years < 0
      <3>1. RowStep(n)
        BY <1>1, NextSerial DEF RowSteps
      <3>2. db'[n] # db[n]
        BY <1>1, <2>1 DEF RowsGood, GoodRow, Row
      <3>3. PICK p \in Procs : req[p].pc # "idle" /\ Milder(req[p], db[n], db'[n])
        BY <2>1, <3>1, <3>2 DEF RowStep, SameRow, Saves, Removes, Exists
      <3> QED  BY <2>1, <3>3 DEF Milder, ServedBy
    <2> QED  BY <2>1
  <1>2. RowsGood /\ SerialInv /\ [Next]_vars => [Accumulate]_vars
    BY <1>1
  <1> QED  BY <1>2, SerialInvariant, PTL DEF Spec, RenewalsAccumulate
=============================================================================
