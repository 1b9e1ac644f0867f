-------------------------- MODULE DomainTableProofs --------------------------
(***************************************************************************)
(* What the requests do to the domains table, whatever their interleaving: *)
(* the row of a registered name is never replaced by that of another       *)
(* registration, the associations of a registration do not outlive its     *)
(* row, and the dates and the registrar of a row follow from those it was  *)
(* registered with.                                                        *)
(***************************************************************************)
EXTENDS DomainRequestsProofs

(***************************************************************************)
(* Every step does one of three things to a name: it keeps the row, or its *)
(* absence; it creates a row where there was none; or it deletes the row   *)
(* once no association refers to it.                                       *)
(***************************************************************************)
Keeps(n)   == db'[n].roid = db[n].roid /\ (Exists(n) \/ links'[n] \subseteq links[n])
Creates(n) == ~Exists(n) /\ (db'[n].roid # 0 \/ links'[n] \subseteq links[n])
Deletes(n) == db'[n].roid = 0 /\ links'[n] = {}

TableStep == \A n \in Names : Keeps(n) \/ Creates(n) \/ Deletes(n)

\* A statement that writes neither table keeps every name.
LEMMA TablesUnchanged == UNCHANGED <<db, links>> => TableStep
  BY DEF TableStep, Keeps, Exists

\* GORM's Save: it updates the row by its primary key, and where it inserts
\* instead the name is free and the row brings no association.
LEMMA SaveOrStep ==
    ASSUME RowsGood, NEW p \in Procs, NEW rows, NEW hs, NEW onSaved,
           SaveOr(p, rows, hs, onSaved)
    PROVE  TableStep
  <1> DEFINE n == req[p].cmd.name
  <1>1. n \in Names
    BY HeldGood
  <1> HIDE DEF n
  <1>2. CASE \E row \in rows :
               /\ Saveable(n, row, hs)
               /\ db' = [db EXCEPT ![n] = row]
               /\ links' = [links EXCEPT ![n] = @ \cup hs]
    <2>1. PICK row \in rows :
            /\ Saveable(n, row, hs)
            /\ db' = [db EXCEPT ![n] = row]
            /\ links' = [links EXCEPT ![n] = @ \cup hs]
      BY <1>2
    <2>2. db'[n] = row /\ links'[n] = links[n] \cup hs
      BY <1>1, <2>1 DEF RowsGood
    <2>3. \A m \in Names \ {n} : db'[m] = db[m] /\ links'[m] = links[m]
      BY <2>1 DEF RowsGood
    <2>4. Keeps(n) \/ Creates(n)
      BY <2>1, <2>2 DEF Saveable, Keeps, Creates, Exists
    <2>5. \A m \in Names \ {n} : Keeps(m)
      BY <2>3 DEF Keeps
    <2> QED  BY <2>4, <2>5 DEF TableStep
  <1>3. CASE UNCHANGED <<db, links>>
    BY <1>3, TablesUnchanged
  <1> QED  BY <1>2, <1>3 DEF SaveOr, n

\* The operations that save a row: those that load it without its hosts,
\* AddHostToDomain, and the saves of RemoveHostFromDomain and
\* RemoveAllDomainHosts.
LEMMA SavesStep ==
    ASSUME RowsGood, NEW p \in Procs,
           \/ RenewDomain(p) \/ AutoRenewDomain(p) \/ MarkDomainForDeletion(p)
           \/ ExpireDomain(p) \/ RestoreDomain(p) \/ DropCatchDomain(p)
           \/ SetDomainStatus(p) \/ UnSetDomainStatus(p) \/ UpdateDomain(p)
           \/ AddHostToDomain(p) \/ SaveAfterRemoveHost(p) \/ SaveAfterDetach(p)
    PROVE  TableStep
  <1>1. ASSUME NEW rows, UpdateRow(p, rows)
        PROVE  TableStep
    BY <1>1, SaveOrStep DEF UpdateRow
  <1>2. CASE \/ RenewDomain(p) \/ AutoRenewDomain(p) \/ MarkDomainForDeletion(p)
             \/ ExpireDomain(p) \/ RestoreDomain(p) \/ DropCatchDomain(p)
             \/ SetDomainStatus(p) \/ UnSetDomainStatus(p)
    BY <1>1, <1>2
    DEF RenewDomain, AutoRenewDomain, MarkDomainForDeletion, ExpireDomain,
        RestoreDomain, DropCatchDomain, SetDomainStatus, UnSetDomainStatus
  <1>3. CASE UpdateDomain(p) \/ SaveAfterRemoveHost(p) \/ SaveAfterDetach(p)
    BY <1>3, SaveOrStep DEF UpdateDomain, SaveAfterRemoveHost, SaveAfterDetach
  <1>4. CASE AddHostToDomain(p)
    BY <1>4, SaveOrStep, TablesUnchanged DEF AddHostToDomain
  <1> QED  BY <1>2, <1>3, <1>4

\* DELETE of the associations, keyed by the RoID of the loaded row.
LEMMA FewerLinks ==
    ASSUME RowsGood, NEW n, NEW roid,
           UNCHANGED links \/ \E h : links' = LinksWithout(n, roid, h)
    PROVE  \A m \in Names : links'[m] \subseteq links[m]
  <1>1. ASSUME NEW h, links' = LinksWithout(n, roid, h)
        PROVE  \A m \in Names : links'[m] \subseteq links[m]
    BY <1>1 DEF LinksWithout, RowsGood
  <1> QED  BY <1>1

\* It takes associations away from the name of the row, and keeps the others.
LEMMA UnlinkStep ==
    ASSUME RowsGood, NEW n \in Names, NEW roid, NEW h,
           links' = LinksWithout(n, roid, h), UNCHANGED db
    PROVE  TableStep
  BY FewerLinks DEF TableStep, Keeps

\* Rows are created with a fresh identifier, and only where there was none.
LEMMA RegisterStep ==
    ASSUME RowsGood, NEW p \in Procs, RegisterDomain(p)
    PROVE  TableStep
  <1> DEFINE c == req[p].cmd
             rows(now) ==
               {x \in UNION {AddHosts(d, c.hosts) :
                        d \in Registration(nextRoid, c.clid, c.years, now)} :
                  Quotable(c.years) /\ ~Exists(c.name)}
  <1>1. c.name \in Names
    BY HeldGood
  <1>2. PICK now \in Now(p) :
          \/ \E row \in rows(now) :
               /\ db' = [db EXCEPT ![c.name] = row]
               /\ links' = [links EXCEPT ![c.name] = c.hosts]
          \/ UNCHANGED <<db, links>>
    BY DEF RegisterDomain
  <1>3. \A row \in rows(now) : row.roid = nextRoid /\ ~Exists(c.name)
    BY HeldGood, RegisterRows
  <1> HIDE DEF rows, c
  <1>4. CASE \E row \in rows(now) :
               /\ db' = [db EXCEPT ![c.name] = row]
               /\ links' = [links EXCEPT ![c.name] = c.hosts]
    <2>1. PICK row \in rows(now) :
            /\ db' = [db EXCEPT ![c.name] = row]
            /\ links' = [links EXCEPT ![c.name] = c.hosts]
      BY <1>4
    <2>2. Creates(c.name)
      <3>1. db'[c.name] = row /\ nextRoid # 0
        BY <1>1, <2>1 DEF RowsGood
      <3> QED  BY <1>3, <3>1 DEF Creates, Exists
    <2>3. \A m \in Names \ {c.name} : Keeps(m)
      BY <2>1 DEF Keeps, RowsGood
    <2> QED  BY <2>2, <2>3 DEF TableStep
  <1> QED  BY <1>2, <1>4, TablesUnchanged

\* CreateDomain and BulkCreate fail when a name they would create exists.
LEMMA CreateKeepsRows ==
    ASSUME RowsGood, NEW p \in Procs, NEW c \in Command, NEW cs \in SUBSET Command,
           CreateDomain(p, c) \/ BulkCreate(p, cs), NEW n \in Names
    PROVE  db'[n] = db[n] \/ ~Exists(n)
  <1>1. CASE CreateDomain(p, c)
    BY <1>1 DEF CreateDomain, AdminMayCreate, RowsGood
  <1>2. CASE BulkCreate(p, cs)
    <2>1. CASE UNCHANGED db
      BY <2>1
    <2>2. CASE \A d \in cs : AdminMayCreate(d)
      <3>1. CASE \E d \in cs : d.name = n
        BY <2>2, <3>1 DEF AdminMayCreate
      <3>2. CASE ~\E d \in cs : d.name = n
        BY <1>2, <3>2 DEF BulkCreate
      <3> QED  BY <3>1, <3>2
    <2> QED  BY <1>2, <2>1, <2>2 DEF BulkCreate
  <1> QED  BY <1>1, <1>2

\* So they keep every row, or create one where there was none.
LEMMA CreateStep ==
    ASSUME RowsGood, NEW p \in Procs, NEW c \in Command, NEW cs \in SUBSET Command,
           CreateDomain(p, c) \/ BulkCreate(p, cs)
    PROVE  TableStep
  <1>1. UNCHANGED links
    BY DEF CreateDomain, BulkCreate
  <1>2. \A n \in Names : db'[n] = db[n] \/ ~Exists(n)
    BY CreateKeepsRows
  <1> QED  BY <1>1, <1>2 DEF TableStep, Keeps, Creates

\* The foreign key of domain_hosts stops DELETE while an association is left.
LEMMA DeleteStep ==
    ASSUME RowsGood, NEW p \in Procs, DeleteRow(p)
    PROVE  TableStep
  <1> DEFINE n == req[p].cmd.name
  <1>1. n \in Names /\ UNCHANGED links
    BY HeldGood DEF DeleteRow
  <1> HIDE DEF n
  <1>2. CASE UNCHANGED db
    BY <1>1, <1>2, TablesUnchanged
  <1>3. CASE links[n] = {} /\ db' = [db EXCEPT ![n] = NoRow]
    <2>1. Deletes(n)
      <3>1. db'[n] = NoRow
        BY <1>1, <1>3 DEF RowsGood
      <3> QED  BY <1>1, <1>3, <3>1, NoRowGood DEF Deletes, Exists
    <2>2. \A m \in Names \ {n} : Keeps(m)
      BY <1>1, <1>3 DEF Keeps, RowsGood
    <2> QED  BY <2>1, <2>2 DEF TableStep
  <1> QED  BY <1>2, <1>3 DEF DeleteRow, n

\* The steps of all the handlers.
LEMMA NextStep ==
    ASSUME RowsGood, [Next]_vars
    PROVE  TableStep
  <1>1. CASE UNCHANGED vars \/ Tick
    BY <1>1, TablesUnchanged DEF vars, Tick
  <1>2. ASSUME NEW p \in Procs, Accept(p)
        PROVE  TableStep
    <2>1. ASSUME NEW c \in Commands,
                 \/ LoadDomain(p, c) \/ DomainNotFound(p, c)
                 \/ CheckDomainAvailability(p, c) \/ DeleteDomainByName(p, c)
          PROVE  TableStep
      BY <2>1, TablesUnchanged
      DEF LoadDomain, DomainNotFound, CheckDomainAvailability, DeleteDomainByName
    <2>2. ASSUME NEW c \in Commands, CreateDomain(p, c)
          PROVE  TableStep
      BY <2>2, CommandsAssumption, CreateStep
    <2>3. ASSUME NEW cs \in SUBSET Commands, BulkCreate(p, cs)
          PROVE  TableStep
      BY <2>3, CommandsAssumption, NoCommandType, CreateStep
    <2> QED  BY <1>2, <2>1, <2>2, <2>3 DEF Accept
  <1>3. ASSUME NEW p \in Procs, Serve(p) \/ Abort(p)
        PROVE  TableStep
    <2>1. CASE \/ SetHostLinked(p) \/ CountHostAssociations(p) \/ UnsetHostLinked(p)
               \/ RemoveAllDomainHosts(p) \/ PurgeDomain(p) \/ CreateNNDN(p)
               \/ Abort(p)
      BY <2>1, TablesUnchanged
      DEF SetHostLinked, CountHostAssociations, UnsetHostLinked,
          RemoveAllDomainHosts, PurgeDomain, CreateNNDN, Abort
    <2>2. CASE RemoveHostFromDomain(p)
      BY <2>2, HeldGood, UnlinkStep, TablesUnchanged DEF RemoveHostFromDomain
    <2>3. CASE UnlinkHost(p)
      BY <2>3, HeldGood, UnlinkStep DEF UnlinkHost
    <2> QED  BY <1>3, <2>1, <2>2, <2>3, SavesStep, RegisterStep, DeleteStep DEF Serve
  <1> QED  BY <1>1, <1>2, <1>3 DEF Next

-----------------------------------------------------------------------------
\* IncarnationStable: an update of a row that was loaded before its domain was
\* deleted and the name registered again never lands on the new registration.
THEOREM IncarnationsStable == Spec => IncarnationStable
  <1>1. RowsGood /\ [Next]_vars =>
          [\A n \in Names :
             Exists(n) /\ Exists(n)' => db'[n].roid = db[n].roid]_vars
    BY NextStep DEF TableStep, Keeps, Creates, Deletes, Exists
  <1> QED  BY <1>1, RowsGoodInvariant, PTL DEF Spec, IncarnationStable

\* NoOrphanLinks: a name without a row has no associations, though purges and
\* deletions remove the associations and the row in separate statements.
THEOREM NoLinkOutlivesItsDomain == Spec => []NoOrphanLinks
  <1>1. Init => NoOrphanLinks
    BY DEF Init, NoOrphanLinks
  <1>2. RowsGood /\ NoOrphanLinks /\ [Next]_vars => NoOrphanLinks'
    BY NextStep DEF TableStep, Keeps, Creates, Deletes, NoOrphanLinks, Exists
  <1> QED  BY <1>1, <1>2, RowsGoodInvariant, PTL DEF Spec

-----------------------------------------------------------------------------
(***************************************************************************)
(* RenewalAccounting and RedemptionBeforePurge speak of the table, but a   *)
(* request saves the row it holds: a renewal that was computed from a row  *)
(* loaded long ago overwrites whatever was saved since.  So the invariant  *)
(* is about every row in the table or in the hands of a request, and each  *)
(* step is shown to produce only rows that descend from one of them (same  *)
(* RoID, same registrar, dates still accounted for unless an administrator *)
(* wrote them) or that are new, under an identifier handed out in the step.*)
(***************************************************************************)
Held == {db[n] : n \in Names} \cup {req[p].row : p \in Procs}
        \cup {req[p].dom : p \in Procs}

Stems(d, e) ==
    /\ d.roid = e.roid
    /\ d.clid = e.clid
    /\ DatesGood(e) => DatesGood(d) \/ d.roid \in edited'

Descends(d) == d.roid = 0 \/ \E e \in Held : Stems(d, e)

Fresh(d) ==
    /\ d.roid \in nextRoid .. (nextRoid' - 1)
    /\ DatesGood(d) \/ d.roid \in edited'

DescentStep ==
    /\ edited \subseteq edited'
    /\ nextRoid' \in Nat /\ nextRoid <= nextRoid'
    /\ \A n \in Names : Descends(db'[n]) \/ Fresh(db'[n])
    /\ \A m, n \in Names : Fresh(db'[m]) /\ db'[n].roid = db'[m].roid => m = n
    /\ \A p \in Procs : Descends(req'[p].row) /\ Descends(req'[p].dom)

\* A row descends from itself.
LEMMA HeldDescends == \A d \in Held : Descends(d)
  BY DEF Descends, Stems

\* So do the rows a method of the entity returns.
LEMMA ContinuesDescends ==
    ASSUME NEW e \in Held, NEW d, Continues(e, d)
    PROVE  Descends(d)
  BY DEF Continues, Descends, Stems

\* The rows there are: those of the table and those a process holds.
LEMMA HeldMembers ==
    /\ \A n \in Names : db[n] \in Held
    /\ \A p \in Procs : req[p].row \in Held /\ req[p].dom \in Held
  BY DEF Held

\* A process that has answered, or keeps nothing but its command.
LEMMA IdleDescends ==
    ASSUME NEW p \in Procs, NEW r, NEW pc
    PROVE  /\ Descends(IdleWith(r).row) /\ Descends(IdleWith(r).dom)
           /\ Descends(Heading(p, pc).row) /\ Descends(Heading(p, pc).dom)
  BY NoRowGood DEF IdleWith, Heading, Descends

\* A step of one process, as far as the rows the processes hold go.
LEMMA RequestDescends ==
    ASSUME RowsGood, NEW p \in Procs, NEW x,
           req' = [req EXCEPT ![p] = x], Descends(x.row), Descends(x.dom)
    PROVE  \A q \in Procs : Descends(req'[q].row) /\ Descends(req'[q].dom)
  <1> SUFFICES ASSUME NEW q \in Procs
               PROVE  Descends(req'[q].row) /\ Descends(req'[q].dom)
    OBVIOUS
  <1>1. CASE q = p
    BY <1>1 DEF RowsGood
  <1>2. CASE q # p
    BY <1>2, HeldMembers, HeldDescends DEF RowsGood
  <1> QED  BY <1>1, <1>2

\* Sending the response.
LEMMA RespondDescends ==
    ASSUME RowsGood, NEW p \in Procs, NEW r, Respond(p, r)
    PROVE  \A q \in Procs : Descends(req'[q].row) /\ Descends(req'[q].dom)
  BY IdleDescends, RequestDescends DEF Respond

\* A step that creates no row.
LEMMA NoFreshRow ==
    ASSUME RowsGood, UNCHANGED nextRoid, edited \subseteq edited',
           \A n \in Names : Descends(db'[n]),
           \A p \in Procs : Descends(req'[p].row) /\ Descends(req'[p].dom)
    PROVE  DescentStep
  <1>1. nextRoid \in Nat /\ \A d : ~Fresh(d)
    BY DEF RowsGood, Fresh
  <1> QED  BY <1>1 DEF DescentStep

\* A step that writes no row.
LEMMA TableKeptDescends ==
    ASSUME RowsGood, UNCHANGED <<db, nextRoid, edited>>,
           \A p \in Procs : Descends(req'[p].row) /\ Descends(req'[p].dom)
    PROVE  DescentStep
  <1>1. \A n \in Names : Descends(db'[n])
    BY HeldMembers, HeldDescends
  <1> QED  BY <1>1, NoFreshRow

\* The identifiers of all the rows there are were handed out before.
RoidsIssued == \A e \in Held : e.roid < nextRoid

\* A step that creates one row, under the next identifier.
LEMMA OneFreshRow ==
    ASSUME RowsGood, RoidsIssued, NEW n \in Names,
           Fresh(db'[n]), \A m \in Names \ {n} : db'[m] = db[m],
           nextRoid' = nextRoid + 1, edited \subseteq edited',
           \A p \in Procs : Descends(req'[p].row) /\ Descends(req'[p].dom)
    PROVE  DescentStep
  <1>1. nextRoid \in Nat /\ nextRoid' \in Nat /\ nextRoid <= nextRoid'
    BY DEF RowsGood
  <1>2. \A m \in Names \ {n} : db'[m] \in Held /\ db'[m].roid \in Nat
                               /\ db'[m].roid < nextRoid
    BY HeldMembers DEF RoidsIssued, RowsGood, GoodRow, Row
  <1>3. \A m \in Names : Descends(db'[m]) \/ Fresh(db'[m])
    BY <1>2, HeldDescends
  <1>4. db'[n].roid = nextRoid
    BY <1>1 DEF Fresh
  <1>5. \A k, m \in Names : Fresh(db'[k]) /\ db'[m].roid = db'[k].roid => k = m
    BY <1>1, <1>2, <1>4 DEF Fresh
  <1> QED  BY <1>1, <1>3, <1>5 DEF DescentStep

\* GORM's Save of rows that descend from one that is held.
LEMMA SaveOrDescends ==
    ASSUME RowsGood, NEW p \in Procs, NEW rows, NEW hs, NEW onSaved,
           SaveOr(p, rows, hs, onSaved), UNCHANGED nextRoid, edited \subseteq edited',
           \A row \in rows : Descends(row),
           Descends(onSaved.row), Descends(onSaved.dom)
    PROVE  DescentStep
  <1> DEFINE n == req[p].cmd.name
  <1>1. CASE \E row \in rows : /\ db' = [db EXCEPT ![n] = row]
                               /\ req' = [req EXCEPT ![p] = onSaved]
    <2>1. PICK row \in rows : db' = [db EXCEPT ![n] = row]
      BY <1>1
    <2> HIDE DEF n
    <2>2. \A m \in Names : Descends(db'[m])
      BY <2>1, HeldMembers, HeldDescends DEF RowsGood
    <2>3. \A q \in Procs : Descends(req'[q].row) /\ Descends(req'[q].dom)
      BY <1>1, RequestDescends
    <2> QED  BY <2>2, <2>3, NoFreshRow
  <1>2. CASE Respond(p, "err") /\ UNCHANGED db
    <2>1. \A m \in Names : Descends(db'[m])
      BY <1>2, HeldMembers, HeldDescends
    <2> QED  BY <1>2, <2>1, RespondDescends, NoFreshRow
  <1> QED  BY <1>1, <1>2 DEF SaveOr

\* The operations that load a row without its hosts, change it and save it.
LEMMA RowOpsSave ==
    ASSUME RowsGood, NEW p \in Procs,
           \/ RenewDomain(p) \/ AutoRenewDomain(p) \/ MarkDomainForDeletion(p)
           \/ ExpireDomain(p) \/ RestoreDomain(p) \/ DropCatchDomain(p)
           \/ SetDomainStatus(p) \/ UnSetDomainStatus(p)
    PROVE  \E rows : /\ UpdateRow(p, rows)
                      /\ \A x \in rows : Continues(req[p].row, x)
  <1> DEFINE d == req[p].row
  <1>1. d \in Row /\ req[p].cmd.years \in Int /\ Now(p) \subseteq Int
    BY HeldGood DEF GoodRow
  <1>2. CASE RenewDomain(p) \/ AutoRenewDomain(p)
    <2> DEFINE years == req[p].cmd.years
    <2>1. PICK now, rows :
            /\ now \in Now(p)
            /\ UpdateRow(p, rows)
            /\ rows \subseteq ForceRenew(d, years) \cup Renew(d, years, now)
      <3>1. CASE RenewDomain(p)
        <4>1. PICK now \in Now(p) :
                UpdateRow(p, {x \in IF req[p].cmd.toggle THEN ForceRenew(d, years)
                                    ELSE Renew(d, years, now) :
                                req[p].row.clid = req[p].cmd.clid /\ Quotable(years)})
          BY <3>1 DEF RenewDomain
        <4> QED  BY <4>1
      <3>2. CASE AutoRenewDomain(p)
        <4>1. PICK now \in Now(p) :
                UpdateRow(p, {x \in Renew(d, years, now) :
                                AllowAutoRenew /\ req[p].row.clid \in AutoRenewRars})
          BY <3>2 DEF AutoRenewDomain
        <4> QED  BY <4>1
      <3> QED  BY <1>2, <3>1, <3>2
    <2>2. \A x \in rows : Continues(d, x)
      BY <1>1, <2>1, RenewContinues
    <2> QED  BY <2>1, <2>2
  <1>3. CASE MarkDomainForDeletion(p) \/ ExpireDomain(p)
    <2>1. PICK now \in Now(p) :
            \/ UpdateRow(p, MarkForDeletion(d, req[p].hosts, now))
            \/ UpdateRow(p, Expire(d, req[p].hosts, now))
      BY <1>3 DEF MarkDomainForDeletion, ExpireDomain
    <2>2. \A x \in MarkForDeletion(d, req[p].hosts, now) \cup Expire(d, req[p].hosts, now) :
            Continues(d, x)
      BY <1>1, <2>1, EndOfLifeContinues
    <2> QED  BY <2>1, <2>2
  <1>4. CASE RestoreDomain(p) \/ SetDomainStatus(p) \/ UnSetDomainStatus(p)
    <2>1. PICK sts : UpdateRow(p, WithStatus(d, sts))
      BY <1>4 DEF RestoreDomain, SetDomainStatus, UnSetDomainStatus, Restore
    <2>2. \A x \in WithStatus(d, sts) : Continues(d, x)
      BY <1>1, StatusContinues
    <2> QED  BY <2>1, <2>2
  <1>5. CASE DropCatchDomain(p)
    <2>1. UpdateRow(p, {[d EXCEPT !.dropCatch = req[p].cmd.toggle]})
      BY <1>5 DEF DropCatchDomain
    <2>2. Continues(d, [d EXCEPT !.dropCatch = req[p].cmd.toggle])
      BY <1>1 DEF Continues, DatesGood, Row
    <2> QED  BY <2>1, <2>2
  <1> QED  BY <1>2, <1>3, <1>4, <1>5

\* They save rows that descend from the one they loaded.
LEMMA RowOpsDescend ==
    ASSUME RowsGood, NEW p \in Procs,
           \/ RenewDomain(p) \/ AutoRenewDomain(p) \/ MarkDomainForDeletion(p)
           \/ ExpireDomain(p) \/ RestoreDomain(p) \/ DropCatchDomain(p)
           \/ SetDomainStatus(p) \/ UnSetDomainStatus(p)
    PROVE  DescentStep
  <1>1. PICK rows : UpdateRow(p, rows) /\ \A x \in rows : Continues(req[p].row, x)
    BY RowOpsSave
  <1>2. \A x \in rows : Descends(x)
    BY <1>1, HeldMembers, ContinuesDescends
  <1> QED  BY <1>1, <1>2, IdleDescends, SaveOrDescends DEF UpdateRow

\* The administrator's update puts the RoID among the edited ones as soon as
\* it changes anything.
LEMMA UpdateDomainDescends ==
    ASSUME RowsGood, NEW p \in Procs, UpdateDomain(p)
    PROVE  DescentStep
  <1> DEFINE a   == req[p].cmd.adm
             new == [req[p].row EXCEPT
                       !.status = a.status, !.created = a.created,
                       !.expiry = a.expiry, !.addEnd = a.addEnd,
                       !.redEnd = a.redEnd, !.purge = a.purge]
  <1>1. /\ SaveOr(p, {x \in {new} : Validate(a.status)}, {},
                  IdleWith(Answer(p, "ok")))
        /\ edited' = IF db' = db THEN edited ELSE edited \cup {new.roid}
        /\ UNCHANGED nextRoid
    BY DEF UpdateDomain
  <1>2. new.roid = req[p].row.roid /\ new.clid = req[p].row.clid
        /\ req[p].row \in Held
    <2>1. req[p].row \in Row
      BY HeldGood DEF GoodRow
    <2> QED  BY <2>1, HeldMembers DEF Row
  <1> HIDE DEF new, a
  <1>3. edited \subseteq edited'
    BY <1>1
  <1>4. CASE db' = db
    <2>1. \E r : Respond(p, r)
      BY <1>1 DEF SaveOr, Respond
    <2> QED  BY <1>1, <1>4, <2>1, RespondDescends, TableKeptDescends
  <1>5. CASE db' # db
    <2>1. Descends(new)
      BY <1>1, <1>2, <1>5 DEF Descends, Stems
    <2> QED  BY <1>1, <1>3, <2>1, IdleDescends, SaveOrDescends
  <1> QED  BY <1>4, <1>5

\* A registration is a new row whose dates are accounted for.
LEMMA RegisterDescends ==
    ASSUME RowsGood, RoidsIssued, NEW p \in Procs, RegisterDomain(p)
    PROVE  DescentStep
  <1> DEFINE c == req[p].cmd
             rows(now) ==
               {x \in UNION {AddHosts(d, c.hosts) :
                        d \in Registration(nextRoid, c.clid, c.years, now)} :
                  Quotable(c.years) /\ ~Exists(c.name)}
  <1>1. c.name \in Names /\ c.clid \in Registrars /\ c.years \in Int
        /\ nextRoid \in Nat /\ Now(p) \subseteq Int
    BY HeldGood DEF RowsGood
  <1>2. UNCHANGED edited
    BY DEF RegisterDomain
  <1>3. PICK now \in Now(p) :
          \/ \E row \in rows(now) :
               /\ db' = [db EXCEPT ![c.name] = row]
               /\ nextRoid' = nextRoid + 1
               /\ Respond(p, "ok")
          \/ /\ Respond(p, "err")
             /\ UNCHANGED <<db, nextRoid>>
    BY DEF RegisterDomain
  <1>4. ASSUME NEW row \in rows(now)
        PROVE  row.roid = nextRoid /\ DatesGood(row)
    <2>1. PICK d \in Registration(nextRoid, c.clid, c.years, now) :
            row \in AddHosts(d, c.hosts)
      BY <1>4
    <2>2. d \in GoodRow /\ DatesGood(d) /\ d.roid = nextRoid
      BY <1>1, <2>1, RegistrationGood, RegistrationDates
    <2>3. \E sts : row \in WithStatus(d, sts)
      BY <2>1 DEF AddHosts
    <2> QED  BY <2>2, <2>3, StatusContinues DEF Continues, GoodRow
  <1> HIDE DEF rows, c
  <1>5. CASE \E row \in rows(now) :
               /\ db' = [db EXCEPT ![c.name] = row]
               /\ nextRoid' = nextRoid + 1
               /\ Respond(p, "ok")
    <2>1. PICK row \in rows(now) :
               /\ db' = [db EXCEPT ![c.name] = row]
               /\ nextRoid' = nextRoid + 1
               /\ Respond(p, "ok")
      BY <1>5
    <2>2. db'[c.name] = row /\ \A m \in Names \ {c.name} : db'[m] = db[m]
      BY <1>1, <2>1 DEF RowsGood
    <2>3. Fresh(row)
      BY <1>1, <1>4, <2>1 DEF Fresh
    <2> QED  BY <1>1, <1>2, <2>1, <2>2, <2>3, OneFreshRow, RespondDescends
  <1>6. CASE Respond(p, "err") /\ UNCHANGED <<db, nextRoid>>
    BY <1>2, <1>6, RespondDescends, TableKeptDescends
  <1> QED  BY <1>3, <1>5, <1>6

\* The administrator's rows are new as well; all of them count as edited.
LEMMA CreateDomainDescends ==
    ASSUME RowsGood, RoidsIssued, NEW p \in Procs, NEW c \in Command,
           CreateDomain(p, c)
    PROVE  DescentStep
  <1> DEFINE row == AdminDomain(c, nextRoid, clock)
  <1>1. c.name \in Names /\ nextRoid \in Nat /\ clock \in Int
    BY DEF Command, RowsGood
  <1>2. row.roid = nextRoid
    BY <1>1, AdminDomainType
  <1> HIDE DEF row
  <1>3. CASE /\ db' = [db EXCEPT ![c.name] = row]
             /\ nextRoid' = nextRoid + 1
             /\ edited' = edited \cup {nextRoid}
             /\ Respond(p, "ok")
    <2>1. db'[c.name] = row /\ \A m \in Names \ {c.name} : db'[m] = db[m]
      BY <1>1, <1>3 DEF RowsGood
    <2>2. Fresh(row)
      BY <1>1, <1>2, <1>3 DEF Fresh
    <2> QED  BY <1>1, <1>3, <2>1, <2>2, OneFreshRow, RespondDescends
  <1>4. CASE Respond(p, "err") /\ UNCHANGED <<db, nextRoid, edited>>
    BY <1>4, RespondDescends, TableKeptDescends
  <1> QED  BY <1>3, <1>4 DEF CreateDomain, row

\* One INSERT for several rows, with an identifier each.
LEMMA BulkCreateDescends ==
    ASSUME RowsGood, RoidsIssued, NEW p \in Procs, NEW cs \in SUBSET Command,
           BulkCreate(p, cs)
    PROVE  DescentStep
  <1>1. CASE Respond(p, "err") /\ UNCHANGED <<db, nextRoid, edited>>
    BY <1>1, RespondDescends, TableKeptDescends
  <1>2. CASE /\ \A c, d \in cs : c.name = d.name => c = d
             /\ \E last \in nextRoid .. MaxRoid :
                  \E roid \in Bijection(cs, nextRoid .. last) :
                    /\ db' = [n \in Names |->
                                IF \E c \in cs : c.name = n
                                THEN LET c == CHOOSE x \in cs : x.name = n
                                     IN  AdminDomain(c, roid[c], clock)
                                ELSE db[n]]
                    /\ nextRoid' = last + 1
                    /\ edited' = edited \cup (nextRoid .. last)
             /\ Respond(p, "ok")
    <2>0. PICK last \in nextRoid .. MaxRoid :
            \E roid \in Bijection(cs, nextRoid .. last) :
              /\ db' = [n \in Names |->
                          IF \E c \in cs : c.name = n
                          THEN LET c == CHOOSE x \in cs : x.name = n
                               IN  AdminDomain(c, roid[c], clock)
                          ELSE db[n]]
              /\ nextRoid' = last + 1
              /\ edited' = edited \cup (nextRoid .. last)
      BY <1>2
    <2>1. PICK roid \in Bijection(cs, nextRoid .. last) :
            /\ db' = [n \in Names |->
                        IF \E c \in cs : c.name = n
                        THEN LET c == CHOOSE x \in cs : x.name = n
                             IN  AdminDomain(c, roid[c], clock)
                        ELSE db[n]]
            /\ nextRoid' = last + 1
            /\ edited' = edited \cup (nextRoid .. last)
      BY <2>0
    <2>2. nextRoid \in Nat /\ last \in Nat /\ nextRoid <= last /\ clock \in Int
      BY BoundsAssumption DEF RowsGood
    <2>3. /\ roid \in [cs -> nextRoid .. last]
          /\ \A c, d \in cs : roid[c] = roid[d] => c = d
      BY <2>1 DEF Bijection, Injection, IsInjective
    <2>4. ASSUME NEW n \in Names
          PROVE  \/ db'[n] = db[n]
                 \/ \E c \in cs : c.name = n /\ db'[n].roid = roid[c]
      <3>1. CASE \E c \in cs : c.name = n
        <4>1. PICK c \in cs : c.name = n /\ db'[n] = AdminDomain(c, roid[c], clock)
          BY <2>1, <3>1
        <4>2. roid[c] \in Nat
          BY <2>2, <2>3
        <4> QED  BY <2>2, <4>1, <4>2, AdminDomainType
      <3>2. CASE ~\E c \in cs : c.name = n
        BY <2>1, <3>2
      <3> QED  BY <3>1, <3>2
    <2>5. \A n \in Names : db[n].roid \in Nat /\ db[n].roid < nextRoid
                           /\ Descends(db[n])
      BY HeldMembers, HeldDescends DEF RoidsIssued, RowsGood, GoodRow, Row
    <2>6. ASSUME NEW n \in Names
          PROVE  Descends(db'[n]) \/ Fresh(db'[n])
      <3>1. CASE db'[n] = db[n]
        BY <2>5, <3>1
      <3>2. CASE \E c \in cs : db'[n].roid = roid[c]
        <4>1. db'[n].roid \in nextRoid .. last
          BY <2>3, <3>2
        <4>2. db'[n].roid \in nextRoid .. (nextRoid' - 1)
          BY <2>1, <2>2, <4>1
        <4> QED  BY <2>1, <4>1, <4>2 DEF Fresh
      <3> QED  BY <2>4, <3>1, <3>2
    <2>7. ASSUME NEW m \in Names, NEW n \in Names,
                 Fresh(db'[m]), db'[n].roid = db'[m].roid
          PROVE  m = n
      <3>1. db'[m].roid \in Nat /\ db'[m].roid >= nextRoid
        BY <2>2, <2>7 DEF Fresh
      <3>2. db'[m] # db[m] /\ db'[n] # db[n]
        BY <2>2, <2>5, <2>7, <3>1
      <3>3. PICK c \in cs, d \in cs : /\ c.name = m /\ db'[m].roid = roid[c]
                                      /\ d.name = n /\ db'[n].roid = roid[d]
        BY <2>4, <3>2
      <3> QED  BY <2>3, <2>7, <3>3
    <2>8. \A q \in Procs : Descends(req'[q].row) /\ Descends(req'[q].dom)
      BY <1>2, RespondDescends
    <2>9. edited \subseteq edited' /\ nextRoid' \in Nat /\ nextRoid <= nextRoid'
      BY <2>1, <2>2
    <2> QED  BY <2>6, <2>7, <2>8, <2>9 DEF DescentStep
  <1> QED  BY <1>1, <1>2 DEF BulkCreate

\* AddHostToDomain and RemoveHostFromDomain change the status of the row only.
LEMMA HostOpsDescend ==
    ASSUME RowsGood, NEW p \in Procs,
           AddHostToDomain(p) \/ RemoveHostFromDomain(p) \/ SaveAfterRemoveHost(p)
    PROVE  DescentStep
  <1> DEFINE d == req[p].row
  <1>1. d \in Row /\ d \in Held /\ Descends(d) /\ Descends(req[p].dom)
    BY HeldGood, HeldMembers, HeldDescends DEF GoodRow
  <1>2. ASSUME NEW sts, NEW x \in WithStatus(d, sts)
        PROVE  Descends(x)
    BY <1>1, <1>2, StatusContinues, ContinuesDescends
  <1>3. CASE AddHostToDomain(p)
    <2>1. PICK h \in req[p].cmd.hosts :
            \/ Respond(p, "ok") /\ UNCHANGED <<db, links>>
            \/ SaveOr(p, AddHost(d, req[p].hosts, h, req[p].cmd.toggle),
                      req[p].hosts \cup {h}, Heading(p, "setLinked"))
      BY <1>3 DEF AddHostToDomain
    <2>2. \A x \in AddHost(d, req[p].hosts, h, req[p].cmd.toggle) : Descends(x)
      BY <1>2 DEF AddHost
    <2>3. UNCHANGED <<nextRoid, edited>>
      BY <1>3 DEF AddHostToDomain
    <2> QED  BY <2>1, <2>2, <2>3, RespondDescends, TableKeptDescends, IdleDescends,
                SaveOrDescends
  <1>4. CASE RemoveHostFromDomain(p)
    <2>1. UNCHANGED <<db, nextRoid, edited>>
      BY <1>4 DEF RemoveHostFromDomain
    <2>2. PICK h :
            \/ \E x \in RemoveHost(d, req[p].hosts, h) :
                 req' = [req EXCEPT ![p] = [req[p] EXCEPT
                           !.pc = "saveRemoved", !.row = x, !.hosts = @ \ {h},
                           !.at = 0]]
            \/ Respond(p, "err")
      BY <1>4 DEF RemoveHostFromDomain
    <2>3. CASE Respond(p, "err")
      BY <2>1, <2>3, RespondDescends, TableKeptDescends
    <2>4. CASE \E x \in RemoveHost(d, req[p].hosts, h) :
                 req' = [req EXCEPT ![p] = [req[p] EXCEPT
                           !.pc = "saveRemoved", !.row = x, !.hosts = @ \ {h},
                           !.at = 0]]
      <3>1. PICK x \in RemoveHost(d, req[p].hosts, h) :
                 req' = [req EXCEPT ![p] = [req[p] EXCEPT
                           !.pc = "saveRemoved", !.row = x, !.hosts = @ \ {h},
                           !.at = 0]]
        BY <2>4
      <3>2. Descends(x)
        BY <1>2 DEF RemoveHost
      <3> DEFINE y == [req[p] EXCEPT !.pc = "saveRemoved", !.row = x,
                                     !.hosts = @ \ {h}, !.at = 0]
      <3>3. y.row = x /\ y.dom = req[p].dom
        BY HeldGood DEF GoodRequest
      <3>4. \A q \in Procs : Descends(req'[q].row) /\ Descends(req'[q].dom)
        <4> HIDE DEF d
        <4> QED  BY <1>1, <3>1, <3>2, <3>3, RequestDescends
      <3> QED  BY <2>1, <3>4, TableKeptDescends
    <2> QED  BY <2>2, <2>3, <2>4
  <1>5. CASE SaveAfterRemoveHost(p)
    BY <1>1, <1>5, IdleDescends, SaveOrDescends DEF SaveAfterRemoveHost
  <1> QED  BY <1>3, <1>4, <1>5

\* The row RemoveAllDomainHosts loads, keeps and saves, and the row of a purge.
LEMMA DetachDescends ==
    ASSUME RowsGood, NEW p \in Procs,
           \/ RemoveAllDomainHosts(p) \/ UnlinkHost(p) \/ SaveAfterDetach(p)
           \/ PurgeDomain(p) \/ CreateNNDN(p) \/ DeleteRow(p)
    PROVE  DescentStep
  <1> DEFINE r == req[p]
             n == r.cmd.name
  <1>1. /\ n \in Names /\ db[n] \in Held /\ db[n] \in Row /\ r \in GoodRequest
        /\ Descends(db[n]) /\ Descends(r.row) /\ Descends(r.dom)
    BY HeldGood, HeldMembers, HeldDescends DEF RowsGood, GoodRow
  <1>2. UNCHANGED <<nextRoid, edited>>
    BY DEF RemoveAllDomainHosts, UnlinkHost, SaveAfterDetach, PurgeDomain,
           CreateNNDN, DeleteRow
  <1>3. ASSUME NEW x, req' = [req EXCEPT ![p] = x], UNCHANGED db,
               Descends(x.row), Descends(x.dom)
        PROVE  DescentStep
    BY <1>2, <1>3, RequestDescends, TableKeptDescends
  <1>4. ASSUME NEW res, Respond(p, res), UNCHANGED db
        PROVE  DescentStep
    BY <1>2, <1>4, RespondDescends, TableKeptDescends
  <1>5. CASE RemoveAllDomainHosts(p)
    <2> DEFINE k == Cardinality(links[n])
               dom == IF k = 0 THEN db[n]
                      ELSE [db[n] EXCEPT !.status = SetUnsetInactiveStatus(@, FALSE)]
    <2>1. UNCHANGED db
      BY <1>5 DEF RemoveAllDomainHosts
    <2>2. \/ \E drop \in SUBSET links[n] :
               req' = [req EXCEPT ![p] = [@ EXCEPT
                         !.pc = "unlink", !.drop = drop, !.short = DetachFails(k),
                         !.dom = dom]]
          \/ Respond(p, "err")
      BY <1>5 DEF RemoveAllDomainHosts
    <2>3. Descends(dom)
      <3>1. dom = db[n] \/ \E sts : dom \in WithStatus(db[n], sts)
        BY DEF WithStatus
      <3> QED  BY <1>1, <3>1, StatusContinues, ContinuesDescends
    <2> HIDE DEF dom, k
    <2>4. CASE \E drop \in SUBSET links[n] :
                 req' = [req EXCEPT ![p] = [@ EXCEPT
                           !.pc = "unlink", !.drop = drop, !.short = DetachFails(k),
                           !.dom = dom]]
      <3>1. PICK drop :
              req' = [req EXCEPT ![p] = [r EXCEPT
                        !.pc = "unlink", !.drop = drop, !.short = DetachFails(k),
                        !.dom = dom]]
        BY <2>4
      <3> DEFINE y == [r EXCEPT !.pc = "unlink", !.drop = drop,
                                !.short = DetachFails(k), !.dom = dom]
      <3>2. y.row = r.row /\ y.dom = dom
        BY <1>1 DEF GoodRequest
      <3> HIDE DEF y, r
      <3> QED  BY <1>1, <1>3, <2>1, <2>3, <3>1, <3>2 DEF y
    <2> QED  BY <1>4, <2>1, <2>2, <2>4
  <1>6. CASE UnlinkHost(p)
    <2>1. PICK h : req' = [req EXCEPT ![p] = [r EXCEPT !.drop = @ \ {h}]]
      BY <1>6 DEF UnlinkHost
    <2>2. UNCHANGED db
      BY <1>6 DEF UnlinkHost
    <2> DEFINE y == [r EXCEPT !.drop = @ \ {h}]
    <2>3. y.row = r.row /\ y.dom = r.dom
      BY <1>1 DEF GoodRequest
    <2> QED  BY <1>1, <1>3, <2>1, <2>2, <2>3
  <1>7. CASE SaveAfterDetach(p)
    <2> DEFINE y == [r EXCEPT !.short = FALSE, !.dom = NoRow,
                              !.pc = IF r.cmd.op = "PurgeDomain" THEN "nndn"
                                     ELSE "delete"]
    <2>1. SaveOr(p, {d \in {r.dom} : ~r.short}, {}, y)
      BY <1>7 DEF SaveAfterDetach
    <2>2. y.row = r.row /\ y.dom = NoRow
      BY <1>1 DEF GoodRequest
    <2>3. Descends(NoRow)
      BY NoRowGood DEF Descends
    <2> HIDE DEF y
    <2> QED  BY <1>1, <1>2, <2>1, <2>2, <2>3, SaveOrDescends
  <1>8. CASE PurgeDomain(p)
    <2>1. PICK pc :
            \/ req' = [req EXCEPT ![p] = [Heading(p, pc) EXCEPT !.row = r.row]]
            \/ Respond(p, "err")
      BY <1>8 DEF PurgeDomain
    <2>2. UNCHANGED db
      BY <1>8 DEF PurgeDomain
    <2> DEFINE y == [Heading(p, pc) EXCEPT !.row = r.row]
    <2>3. y.row = r.row /\ y.dom = NoRow
      BY DEF Heading, IdleWith
    <2>4. Descends(NoRow)
      BY NoRowGood DEF Descends
    <2> HIDE DEF r
    <2> QED  BY <1>1, <1>3, <1>4, <2>1, <2>2, <2>3, <2>4
  <1>9. CASE CreateNNDN(p)
    BY <1>3, <1>4, <1>9, IdleDescends DEF CreateNNDN, Goto
  <1>10. CASE DeleteRow(p)
    <2>1. CASE UNCHANGED db
      BY <1>4, <1>10, <2>1 DEF DeleteRow
    <2>2. CASE db' = [db EXCEPT ![n] = NoRow] /\ Respond(p, "ok")
      <3>1. \A m \in Names : Descends(db'[m])
        BY <1>1, <2>2, NoRowGood, HeldMembers, HeldDescends DEF Descends, RowsGood
      <3> QED  BY <1>2, <2>2, <3>1, RespondDescends, NoFreshRow
    <2> QED  BY <1>10, <2>1, <2>2 DEF DeleteRow
  <1> QED  BY <1>5, <1>6, <1>7, <1>8, <1>9, <1>10

\* A load takes the row of its name; nothing is written.
LEMMA LoadDescends ==
    ASSUME RowsGood, NEW p \in Procs, NEW c \in Command,
           LoadDomain(p, c) \/ DomainNotFound(p, c)
    PROVE  DescentStep
  <1>1. CASE LoadDomain(p, c)
    <2> DEFINE x == [IdleWith("none") EXCEPT
                       !.pc = "loaded", !.cmd = c, !.row = db[c.name],
                       !.hosts = IF c.op \in HostOps THEN links[c.name] ELSE {},
                       !.at = clock]
    <2>1. c.name \in Names
      BY DEF Command
    <2>2. x.row = db[c.name] /\ x.dom = NoRow /\ req' = [req EXCEPT ![p] = x]
      BY <1>1 DEF LoadDomain, IdleWith
    <2> HIDE DEF x
    <2>3. Descends(x.row) /\ Descends(x.dom)
      BY <2>1, <2>2, HeldMembers, HeldDescends, NoRowGood DEF Descends
    <2>4. UNCHANGED <<db, nextRoid, edited>>
      BY <1>1 DEF LoadDomain
    <2> QED  BY <2>2, <2>3, <2>4, RequestDescends, TableKeptDescends
  <1>2. CASE DomainNotFound(p, c)
    BY <1>2, RespondDescends, TableKeptDescends DEF DomainNotFound
  <1> QED  BY <1>1, <1>2

\* The rows after a step of any handler descend from the rows before it.
LEMMA NextDescends ==
    ASSUME RowsGood, RoidsIssued, [Next]_vars
    PROVE  DescentStep
  <1>1. ASSUME UNCHANGED <<db, nextRoid, req, edited>>
        PROVE  DescentStep
    BY <1>1, HeldMembers, HeldDescends, TableKeptDescends
  <1>2. CASE UNCHANGED vars \/ Tick
    BY <1>1, <1>2 DEF vars, Tick
  <1>3. ASSUME NEW p \in Procs, Accept(p)
        PROVE  DescentStep
    <2>1. ASSUME NEW c \in Commands, LoadDomain(p, c) \/ DomainNotFound(p, c)
          PROVE  DescentStep
      BY <2>1, CommandsAssumption, LoadDescends
    <2>3. ASSUME NEW c \in Commands,
                 CheckDomainAvailability(p, c) \/ DeleteDomainByName(p, c)
          PROVE  DescentStep
      <3> DEFINE x == [IdleWith("none") EXCEPT !.pc = "available", !.cmd = c,
                                               !.at = clock]
                 y == [IdleWith("none") EXCEPT
                         !.pc = IF c.toggle THEN "detach" ELSE "delete", !.cmd = c]
      <3>1. /\ x.row = NoRow /\ x.dom = NoRow /\ y.row = NoRow /\ y.dom = NoRow
        BY DEF IdleWith
      <3>2. \/ req' = [req EXCEPT ![p] = x]
            \/ req' = [req EXCEPT ![p] = y]
            \/ Respond(p, "err")
        BY <2>3 DEF CheckDomainAvailability, DeleteDomainByName
      <3>3. Descends(NoRow)
        BY NoRowGood DEF Descends
      <3>4. UNCHANGED <<db, nextRoid, edited>>
        BY <2>3 DEF CheckDomainAvailability, DeleteDomainByName
      <3> HIDE DEF x, y
      <3> QED  BY <3>1, <3>2, <3>3, <3>4, RequestDescends, RespondDescends,
                  TableKeptDescends
    <2>4. ASSUME NEW c \in Commands, CreateDomain(p, c)
          PROVE  DescentStep
      BY <2>4, CommandsAssumption, CreateDomainDescends
    <2>5. ASSUME NEW cs \in SUBSET Commands, BulkCreate(p, cs)
          PROVE  DescentStep
      BY <2>5, CommandsAssumption, BulkCreateDescends
    <2> QED  BY <1>3, <2>1, <2>3, <2>4, <2>5 DEF Accept
  <1>4. ASSUME NEW p \in Procs, Serve(p) \/ Abort(p)
        PROVE  DescentStep
    <2>1. CASE SetHostLinked(p) \/ UnsetHostLinked(p) \/ Abort(p)
      BY <2>1, RespondDescends, TableKeptDescends
      DEF SetHostLinked, UnsetHostLinked, Abort
    <2>2. CASE CountHostAssociations(p)
      BY <2>2, RespondDescends, IdleDescends, RequestDescends, TableKeptDescends
      DEF CountHostAssociations, Goto
    <2> QED  BY <1>4, <2>1, <2>2, RowOpsDescend, UpdateDomainDescends,
                RegisterDescends, HostOpsDescend, DetachDescends DEF Serve
  <1> QED  BY <1>2, <1>3, <1>4 DEF Next

-----------------------------------------------------------------------------
(***************************************************************************)
(* The account of every row there is: its identifier was handed out, its   *)
(* dates are accounted for unless an administrator wrote them, and rows    *)
(* with the same identifier belong to the same registrar.                  *)
(***************************************************************************)
Accounted == \A d \in Held : Unedited(d) => DatesGood(d)

OneRegistrar ==
    \A d, e \in Held : d.roid = e.roid /\ d.roid # 0 => d.clid = e.clid

Lineage == RoidsIssued /\ Accounted /\ OneRegistrar

\* The rows the variables hold after a step.
LEMMA HeldAfter ==
    ASSUME DescentStep, NEW d \in Held'
    PROVE  Descends(d) \/ (Fresh(d) /\ \E n \in Names : d = db'[n])
  BY DEF Held, DescentStep

\* A step whose rows descend from the rows before it keeps the account.
LEMMA LineageKept ==
    ASSUME RowsGood, Lineage, DescentStep
    PROVE  Lineage'
  <1>1. nextRoid \in Nat \ {0} /\ nextRoid' \in Nat /\ nextRoid <= nextRoid'
        /\ edited \subseteq edited'
    BY DEF RowsGood, DescentStep
  <1>2. \A e \in Held : e.roid \in Nat /\ e.roid < nextRoid
    BY DEF Held, RowsGood, GoodRow, GoodRequest, Row, Lineage, RoidsIssued
  <1>3. ASSUME NEW d \in Held'
        PROVE  d.roid < nextRoid' /\ (d.roid # 0 /\ d.roid \notin edited' => DatesGood(d))
    <2>1. CASE d.roid = 0
      BY <1>1, <2>1
    <2>2. CASE \E e \in Held : Stems(d, e)
      <3>1. PICK e \in Held : Stems(d, e)
        BY <2>2
      <3>2. d.roid = e.roid
        BY <3>1 DEF Stems
      <3>3. d.roid < nextRoid'
        BY <1>1, <1>2, <3>2
      <3>4. ASSUME d.roid # 0, d.roid \notin edited'
            PROVE  DatesGood(d)
        <4>1. Unedited(e)
          BY <1>1, <3>2, <3>4 DEF Unedited
        <4> QED  BY <3>1, <3>4, <4>1 DEF Stems, Lineage, Accounted
      <3> QED  BY <3>3, <3>4
    <2>3. CASE Fresh(d)
      BY <1>1, <2>3 DEF Fresh
    <2> QED  BY <2>1, <2>2, <2>3, HeldAfter DEF Descends
  <1>4. ASSUME NEW d \in Held', NEW e \in Held', d.roid = e.roid, d.roid # 0
        PROVE  d.clid = e.clid
    <2>1. ASSUME NEW x \in Held', Fresh(x)
          PROVE  x.roid >= nextRoid /\ \E n \in Names : Fresh(db'[n]) /\ x = db'[n]
      <3>1. x.roid \in Nat /\ x.roid >= nextRoid
        BY <1>1, <2>1 DEF Fresh
      <3>2. ~Descends(x)
        BY <1>1, <1>2, <3>1 DEF Descends, Stems
      <3> QED  BY <2>1, <3>1, <3>2, HeldAfter
    <2>2. ASSUME NEW x \in Held', ~Fresh(x), x.roid # 0
          PROVE  \E y \in Held : x.roid = y.roid /\ x.clid = y.clid
      BY <2>2, HeldAfter DEF Descends, Stems
    <2>3. CASE Fresh(d) \/ Fresh(e)
      <3>1. Fresh(d) /\ Fresh(e)
        <4>1. ASSUME NEW x \in Held', ~Fresh(x), x.roid # 0
              PROVE  ~(x.roid >= nextRoid)
          BY <1>1, <1>2, <4>1, <2>2
        <4> QED  BY <1>4, <2>1, <2>3, <4>1
      <3>2. PICK m \in Names, n \in Names : /\ Fresh(db'[m]) /\ d = db'[m]
                                            /\ Fresh(db'[n]) /\ e = db'[n]
        BY <2>1, <3>1
      <3>3. m = n
        BY <1>4, <3>2 DEF DescentStep
      <3> QED  BY <3>2, <3>3
    <2>4. CASE ~Fresh(d) /\ ~Fresh(e)
      <3>1. PICK x \in Held : d.roid = x.roid /\ d.clid = x.clid
        BY <1>4, <2>2, <2>4
      <3>2. PICK y \in Held : e.roid = y.roid /\ e.clid = y.clid
        BY <1>4, <2>2, <2>4
      <3> QED  BY <1>4, <3>1, <3>2 DEF Lineage, OneRegistrar
    <2> QED  BY <2>3, <2>4
  <1>5. RoidsIssued'
    BY <1>3 DEF RoidsIssued
  <1>6. Accounted'
    BY <1>3 DEF Accounted, Unedited, DatesGood
  <1>7. OneRegistrar'
    BY <1>4 DEF OneRegistrar
  <1> QED  BY <1>5, <1>6, <1>7 DEF Lineage

\* A fresh installation holds no row.
LEMMA InitLineage == Init => Lineage
  <1> SUFFICES ASSUME Init PROVE Lineage
    OBVIOUS
  <1>1. \A d \in Held : d = NoRow
    BY DEF Init, Held, IdleWith
  <1>2. NoRow.roid = 0 /\ nextRoid = 1
    BY NoRowGood DEF Init
  <1> QED  BY <1>1, <1>2 DEF Lineage, RoidsIssued, Accounted, OneRegistrar, Unedited

\* Every row in the table or in the hands of a request has an identifier that
\* was handed out, the registrar of its registration, and accounted dates.
THEOREM LineageInvariant == Spec => []Lineage
  <1>1. Init => Lineage
    BY InitLineage
  <1>2. RowsGood /\ Lineage /\ [Next]_vars => Lineage'
    BY NextDescends, LineageKept DEF Lineage
  <1> QED  BY <1>1, <1>2, RowsGoodInvariant, PTL DEF Spec

\* RenewalAccounting: a row an administrator never wrote expires its renewed
\* years and one year after its creation, through registrations, renewals,
\* forced renewals by any number of years, and updates lost to one another.
THEOREM RenewalsAccounted == Spec => []RenewalAccounting
  <1>1. Lineage => RenewalAccounting
    BY HeldMembers DEF Lineage, Accounted, DatesGood, RenewalAccounting
  <1> QED  BY <1>1, LineageInvariant, PTL

\* RedemptionBeforePurge: while a domain can be restored it cannot be purged,
\* through deletions, expiries and restorations in any order, for any lengths
\* of the grace periods.
THEOREM RedemptionEndsBeforePurge == Spec => []RedemptionBeforePurge
  <1>1. Lineage => RedemptionBeforePurge
    BY HeldMembers DEF Lineage, Accounted, DatesGood, RedemptionBeforePurge
  <1> QED  BY <1>1, LineageInvariant, PTL

-----------------------------------------------------------------------------
(***************************************************************************)
(* SponsorsAgree, for any number of processes.  A request adds the hosts   *)
(* it loaded to the associations of the row it saves, so these have to be  *)
(* sponsored by the registrar of the row it holds; that this is the        *)
(* registrar of the row that is overwritten, and of its associations,      *)
(* follows from OneRegistrar, since the update is by primary key.          *)
(***************************************************************************)
Sponsored(x) == \A h \in x.hosts : Sponsor[h] = x.row.clid

HoldsSponsored == \A p \in Procs : Sponsored(req[p])

SponsorInv == SponsorsAgree /\ HoldsSponsored

\* A request that holds no hosts.
LEMMA IdleSponsored ==
    ASSUME NEW p, NEW r, NEW pc
    PROVE  Sponsored(IdleWith(r)) /\ Sponsored(Heading(p, pc))
  BY DEF Sponsored, IdleWith, Heading

\* The step of one process, as far as what the processes hold goes.
LEMMA RequestSponsored ==
    ASSUME RowsGood, HoldsSponsored, NEW p \in Procs, NEW x, Sponsored(x),
           req' = [req EXCEPT ![p] = x]
    PROVE  HoldsSponsored'
  BY DEF RowsGood, HoldsSponsored, Sponsored

\* Sending the response.
LEMMA RespondSponsored ==
    ASSUME RowsGood, HoldsSponsored, NEW p \in Procs, NEW r, Respond(p, r)
    PROVE  HoldsSponsored'
  BY IdleSponsored, RequestSponsored DEF Respond

\* A step that changes no row and adds no association.
LEMMA FewerLinksSponsored ==
    ASSUME SponsorsAgree, UNCHANGED db, \A n \in Names : links'[n] \subseteq links[n]
    PROVE  SponsorsAgree'
  BY DEF SponsorsAgree

\* GORM's Save of a row and of the associations it was loaded with.
LEMMA SaveOrSponsored ==
    ASSUME RowsGood, Lineage, NoOrphanLinks, SponsorInv, NEW p \in Procs,
           NEW d \in Held, NEW rows, NEW hs, NEW onSaved,
           SaveOr(p, rows, hs, onSaved),
           \A row \in rows : row.roid = d.roid /\ row.clid = d.clid,
           \A h \in hs : Sponsor[h] = d.clid, Sponsored(onSaved)
    PROVE  SponsorInv'
  <1> DEFINE n == req[p].cmd.name
  <1>1. n \in Names
    BY HeldGood
  <1> HIDE DEF n
  <1>2. CASE \E row \in rows :
               /\ Saveable(n, row, hs)
               /\ db' = [db EXCEPT ![n] = row]
               /\ links' = [links EXCEPT ![n] = @ \cup hs]
               /\ req' = [req EXCEPT ![p] = onSaved]
    <2>1. PICK row \in rows :
               /\ Saveable(n, row, hs)
               /\ db' = [db EXCEPT ![n] = row]
               /\ links' = [links EXCEPT ![n] = @ \cup hs]
               /\ req' = [req EXCEPT ![p] = onSaved]
      BY <1>2
    <2>2. /\ db'[n] = row /\ links'[n] = links[n] \cup hs
          /\ \A m \in Names \ {n} : db'[m] = db[m] /\ links'[m] = links[m]
      BY <1>1, <2>1 DEF RowsGood
    <2>3. \A h \in links'[n] : Sponsor[h] = row.clid
      <3>1. CASE Exists(n)
        <4>1. db[n] \in Held /\ db[n].roid = d.roid /\ db[n].roid # 0
          BY <1>1, <2>1, <3>1, HeldMembers DEF Saveable, Exists
        <4>2. db[n].clid = d.clid
          BY <4>1 DEF Lineage, OneRegistrar
        <4> QED  BY <1>1, <2>2, <4>2 DEF SponsorInv, SponsorsAgree
      <3>2. CASE ~Exists(n)
        BY <1>1, <2>1, <2>2, <3>2 DEF Saveable, NoOrphanLinks
      <3> QED  BY <3>1, <3>2
    <2>4. SponsorsAgree'
      BY <2>2, <2>3 DEF SponsorInv, SponsorsAgree
    <2> QED  BY <2>1, <2>4, RequestSponsored DEF SponsorInv
  <1>3. CASE Respond(p, "err") /\ UNCHANGED <<db, links>>
    BY <1>3, RespondSponsored, FewerLinksSponsored DEF SponsorInv
  <1> QED  BY <1>2, <1>3 DEF SaveOr, n

\* The operations that save without hosts, and the administrator's update.
LEMMA RowOpsSponsored ==
    ASSUME RowsGood, Lineage, NoOrphanLinks, SponsorInv, NEW p \in Procs,
           \/ RenewDomain(p) \/ AutoRenewDomain(p) \/ MarkDomainForDeletion(p)
           \/ ExpireDomain(p) \/ RestoreDomain(p) \/ DropCatchDomain(p)
           \/ SetDomainStatus(p) \/ UnSetDomainStatus(p) \/ UpdateDomain(p)
    PROVE  SponsorInv'
  <1>1. PICK rows : /\ SaveOr(p, rows, {}, IdleWith(Answer(p, "ok")))
                    /\ \A x \in rows : /\ x.roid = req[p].row.roid
                                       /\ x.clid = req[p].row.clid
    <2>1. CASE UpdateDomain(p)
      <3> DEFINE a   == req[p].cmd.adm
                 new == [req[p].row EXCEPT
                           !.status = a.status, !.created = a.created,
                           !.expiry = a.expiry, !.addEnd = a.addEnd,
                           !.redEnd = a.redEnd, !.purge = a.purge]
      <3>1. SaveOr(p, {x \in {new} : Validate(a.status)}, {},
                   IdleWith(Answer(p, "ok")))
        BY <2>1 DEF UpdateDomain
      <3>2. new.roid = req[p].row.roid /\ new.clid = req[p].row.clid
        BY HeldGood DEF GoodRow, Row
      <3> DEFINE rows == {x \in {new} : Validate(a.status)}
      <3>3. \A x \in rows : x.roid = req[p].row.roid /\ x.clid = req[p].row.clid
        BY <3>2
      <3> HIDE DEF rows
      <3> QED  BY <3>1, <3>3 DEF rows
    <2>2. CASE ~UpdateDomain(p)
      <3>1. PICK rows : /\ UpdateRow(p, rows)
                        /\ \A x \in rows : Continues(req[p].row, x)
        BY <2>2, RowOpsSave
      <3> QED  BY <3>1 DEF UpdateRow, Continues
    <2> QED  BY <2>1, <2>2
  <1> QED  BY <1>1, HeldMembers, IdleSponsored, SaveOrSponsored

\* AddHostToDomain checks the sponsor against the row it loaded; the save of
\* RemoveHostFromDomain writes the remaining hosts back.
LEMMA HostOpsSponsored ==
    ASSUME RowsGood, Lineage, NoOrphanLinks, SponsorInv, NEW p \in Procs,
           AddHostToDomain(p) \/ RemoveHostFromDomain(p) \/ SaveAfterRemoveHost(p)
    PROVE  SponsorInv'
  <1> DEFINE d == req[p].row
  <1>1. /\ d \in Row /\ d \in Held
        /\ \A h \in req[p].hosts : Sponsor[h] = d.clid
    BY HeldGood, HeldMembers DEF GoodRow, SponsorInv, HoldsSponsored, Sponsored
  <1>2. ASSUME NEW sts, NEW x \in WithStatus(d, sts)
        PROVE  x.roid = d.roid /\ x.clid = d.clid
    BY <1>1, <1>2, StatusContinues DEF Continues
  <1>3. CASE AddHostToDomain(p)
    <2>1. PICK h \in req[p].cmd.hosts :
            \/ Respond(p, "ok") /\ UNCHANGED <<db, links>>
            \/ SaveOr(p, AddHost(d, req[p].hosts, h, req[p].cmd.toggle),
                      req[p].hosts \cup {h}, Heading(p, "setLinked"))
      BY <1>3 DEF AddHostToDomain
    <2>2. CASE Respond(p, "ok") /\ UNCHANGED <<db, links>>
      BY <2>2, RespondSponsored, FewerLinksSponsored DEF SponsorInv
    <2>3. CASE SaveOr(p, AddHost(d, req[p].hosts, h, req[p].cmd.toggle),
                      req[p].hosts \cup {h}, Heading(p, "setLinked"))
      <3> DEFINE rows == AddHost(d, req[p].hosts, h, req[p].cmd.toggle)
      <3>1. \A x \in rows : x.roid = d.roid /\ x.clid = d.clid
        BY <1>2 DEF AddHost
      <3>2. CASE rows = {}
        <4>1. Respond(p, "err") /\ UNCHANGED <<db, links>>
          BY <2>3, <3>2 DEF SaveOr
        <4> QED  BY <4>1, RespondSponsored, FewerLinksSponsored DEF SponsorInv
      <3>3. CASE rows # {}
        <4>1. Sponsor[h] = d.clid
          BY <3>3 DEF AddHost, MayAddHost
        <4>2. \A x \in req[p].hosts \cup {h} : Sponsor[x] = d.clid
          BY <1>1, <4>1
        <4> HIDE DEF rows, d
        <4> QED  BY <1>1, <2>3, <3>1, <4>2, IdleSponsored, SaveOrSponsored DEF rows
      <3> QED  BY <3>2, <3>3
    <2> QED  BY <2>1, <2>2, <2>3
  <1>4. CASE RemoveHostFromDomain(p)
    <2>1. UNCHANGED db /\ \A n \in Names : links'[n] \subseteq links[n]
      <3>1. UNCHANGED links \/ \E h : links' = LinksWithout(req[p].cmd.name, d.roid, h)
        BY <1>4 DEF RemoveHostFromDomain
      <3>2. UNCHANGED db
        BY <1>4 DEF RemoveHostFromDomain
      <3> QED  BY <3>1, <3>2, FewerLinks
    <2>2. PICK h :
            \/ \E x \in RemoveHost(d, req[p].hosts, h) :
                 req' = [req EXCEPT ![p] = [req[p] EXCEPT
                           !.pc = "saveRemoved", !.row = x, !.hosts = @ \ {h},
                           !.at = 0]]
            \/ Respond(p, "err")
      BY <1>4 DEF RemoveHostFromDomain
    <2>3. CASE Respond(p, "err")
      BY <2>1, <2>3, RespondSponsored, FewerLinksSponsored DEF SponsorInv
    <2>4. CASE \E x \in RemoveHost(d, req[p].hosts, h) :
                 req' = [req EXCEPT ![p] = [req[p] EXCEPT
                           !.pc = "saveRemoved", !.row = x, !.hosts = @ \ {h},
                           !.at = 0]]
      <3>1. PICK x \in RemoveHost(d, req[p].hosts, h) :
                 req' = [req EXCEPT ![p] = [req[p] EXCEPT
                           !.pc = "saveRemoved", !.row = x, !.hosts = @ \ {h},
                           !.at = 0]]
        BY <2>4
      <3> DEFINE y == [req[p] EXCEPT !.pc = "saveRemoved", !.row = x,
                                     !.hosts = @ \ {h}, !.at = 0]
      <3>2. y.row = x /\ y.hosts = req[p].hosts \ {h} /\ x.clid = d.clid
        BY <1>2, HeldGood DEF GoodRequest, RemoveHost
      <3>3. Sponsored(y)
        BY <1>1, <3>2 DEF Sponsored
      <3> HIDE DEF y
      <3>4. HoldsSponsored'
        BY <3>1, <3>3, RequestSponsored DEF SponsorInv, y
      <3> QED  BY <2>1, <3>4, FewerLinksSponsored DEF SponsorInv
    <2> QED  BY <2>2, <2>3, <2>4
  <1>5. CASE SaveAfterRemoveHost(p)
    BY <1>1, <1>5, IdleSponsored, SaveOrSponsored DEF SaveAfterRemoveHost
  <1> QED  BY <1>3, <1>4, <1>5

\* RemoveAllDomainHosts and the deletion only take associations away, and
\* save a row they loaded.
LEMMA DetachSponsored ==
    ASSUME RowsGood, Lineage, NoOrphanLinks, SponsorInv, NEW p \in Procs,
           \/ RemoveAllDomainHosts(p) \/ UnlinkHost(p) \/ SaveAfterDetach(p)
           \/ PurgeDomain(p) \/ CreateNNDN(p) \/ DeleteRow(p)
    PROVE  SponsorInv'
  <1> DEFINE r == req[p]
  <1>1. r \in GoodRequest /\ Sponsored(r) /\ r.dom \in Held /\ r.cmd.name \in Names
    BY HeldGood, HeldMembers DEF SponsorInv, HoldsSponsored
  <1>2. ASSUME NEW x, req' = [req EXCEPT ![p] = x], UNCHANGED db,
               \A n \in Names : links'[n] \subseteq links[n],
               x.hosts \subseteq {} \/ (x.hosts = r.hosts /\ x.row = r.row)
        PROVE  SponsorInv'
    <2>1. Sponsored(x)
      BY <1>1, <1>2 DEF Sponsored
    <2> QED  BY <1>2, <2>1, RequestSponsored, FewerLinksSponsored DEF SponsorInv
  <1>3. ASSUME NEW res, Respond(p, res), UNCHANGED <<db, links>>
        PROVE  SponsorInv'
    BY <1>3, RespondSponsored, FewerLinksSponsored DEF SponsorInv
  <1>4. CASE RemoveAllDomainHosts(p)
    <2>1. UNCHANGED <<db, links>>
      BY <1>4 DEF RemoveAllDomainHosts
    <2> DEFINE n == req[p].cmd.name
               k == Cardinality(links[n])
               dom == IF k = 0 THEN db[n]
                      ELSE [db[n] EXCEPT !.status = SetUnsetInactiveStatus(@, FALSE)]
    <2>2. \/ \E drop \in SUBSET links[n] :
               req' = [req EXCEPT ![p] = [@ EXCEPT
                         !.pc = "unlink", !.drop = drop, !.short = DetachFails(k),
                         !.dom = dom]]
          \/ Respond(p, "err")
      BY <1>4 DEF RemoveAllDomainHosts
    <2> HIDE DEF dom, k, n
    <2>3. CASE \E drop \in SUBSET links[n] :
                 req' = [req EXCEPT ![p] = [@ EXCEPT
                           !.pc = "unlink", !.drop = drop, !.short = DetachFails(k),
                           !.dom = dom]]
      <3>1. PICK drop :
              req' = [req EXCEPT ![p] = [r EXCEPT
                        !.pc = "unlink", !.drop = drop, !.short = DetachFails(k),
                        !.dom = dom]]
        BY <2>3
      <3> DEFINE y == [r EXCEPT !.pc = "unlink", !.drop = drop,
                                !.short = DetachFails(k), !.dom = dom]
      <3>2. y.row = r.row /\ y.hosts = r.hosts
        BY <1>1 DEF GoodRequest
      <3> HIDE DEF y, r
      <3> QED  BY <1>2, <2>1, <3>1, <3>2 DEF y
    <2> QED  BY <1>3, <2>1, <2>2, <2>3
  <1>5. CASE UnlinkHost(p)
    <2>1. PICK h : req' = [req EXCEPT ![p] = [r EXCEPT !.drop = @ \ {h}]]
      BY <1>5 DEF UnlinkHost
    <2>2. UNCHANGED db /\ \A n \in Names : links'[n] \subseteq links[n]
      BY <1>5 DEF UnlinkHost, LinksWithout, RowsGood
    <2> DEFINE y == [r EXCEPT !.drop = @ \ {h}]
    <2>3. y.row = r.row /\ y.hosts = r.hosts
      BY <1>1 DEF GoodRequest
    <2> HIDE DEF y, r
    <2> QED  BY <1>2, <2>1, <2>2, <2>3 DEF y
  <1>6. CASE SaveAfterDetach(p)
    <2> DEFINE y == [r EXCEPT !.short = FALSE, !.dom = NoRow,
                              !.pc = IF r.cmd.op = "PurgeDomain" THEN "nndn"
                                     ELSE "delete"]
    <2>1. SaveOr(p, {d \in {r.dom} : ~r.short}, {}, y)
      BY <1>6 DEF SaveAfterDetach
    <2>2. Sponsored(y)
      BY <1>1 DEF GoodRequest, Sponsored
    <2> HIDE DEF y
    <2> QED  BY <1>1, <2>1, <2>2, SaveOrSponsored
  <1>7. CASE PurgeDomain(p)
    <2>1. PICK pc :
            \/ req' = [req EXCEPT ![p] = [Heading(p, pc) EXCEPT !.row = r.row]]
            \/ Respond(p, "err")
      BY <1>7 DEF PurgeDomain
    <2>2. UNCHANGED <<db, links>>
      BY <1>7 DEF PurgeDomain
    <2> DEFINE y == [Heading(p, pc) EXCEPT !.row = r.row]
    <2>3. y.hosts = {}
      BY DEF Heading, IdleWith
    <2> HIDE DEF y, r
    <2> QED  BY <1>2, <1>3, <2>1, <2>2, <2>3 DEF y
  <1>8. CASE CreateNNDN(p)
    <2>1. \A pc : Heading(p, pc).hosts = {}
      BY DEF Heading, IdleWith
    <2>2. UNCHANGED <<db, links>> /\ (Goto(p, "delete") \/ Respond(p, "err"))
      BY <1>8 DEF CreateNNDN
    <2>3. CASE Goto(p, "delete")
      <3>1. req' = [req EXCEPT ![p] = Heading(p, "delete")]
        BY <2>3 DEF Goto
      <3> QED  BY <1>2, <2>1, <2>2, <3>1
    <2> QED  BY <1>3, <2>2, <2>3
  <1>9. CASE DeleteRow(p)
    <2> DEFINE n == r.cmd.name
    <2>1. UNCHANGED links
      BY <1>9 DEF DeleteRow
    <2>2. CASE UNCHANGED db
      BY <1>3, <1>9, <2>1, <2>2 DEF DeleteRow
    <2>3. CASE links[n] = {} /\ db' = [db EXCEPT ![n] = NoRow] /\ Respond(p, "ok")
      <3>1. SponsorsAgree'
        <4> HIDE DEF n
        <4>1. \A m \in Names \ {n} : db'[m] = db[m]
          BY <2>3 DEF RowsGood
        <4> QED  BY <2>1, <2>3, <4>1 DEF SponsorInv, SponsorsAgree
      <3> QED  BY <2>3, <3>1, RespondSponsored DEF SponsorInv
    <2> QED  BY <1>9, <2>2, <2>3 DEF DeleteRow
  <1> QED  BY <1>4, <1>5, <1>6, <1>7, <1>8, <1>9

\* The associations of a registration are sponsored by its registrar.
LEMMA RegisterSponsored ==
    ASSUME RowsGood, SponsorInv, NEW p \in Procs, RegisterDomain(p)
    PROVE  SponsorInv'
  <1> DEFINE c == req[p].cmd
             rows(now) ==
               {x \in UNION {AddHosts(d, c.hosts) :
                        d \in Registration(nextRoid, c.clid, c.years, now)} :
                  Quotable(c.years) /\ ~Exists(c.name)}
  <1>1. c.name \in Names
    BY HeldGood
  <1>2. PICK now \in Now(p) :
          \/ \E row \in rows(now) :
               /\ db' = [db EXCEPT ![c.name] = row]
               /\ links' = [links EXCEPT ![c.name] = c.hosts]
               /\ Respond(p, "ok")
          \/ /\ Respond(p, "err")
             /\ UNCHANGED <<db, links>>
    BY DEF RegisterDomain
  <1>3. ASSUME NEW row \in rows(now)
        PROVE  \A h \in c.hosts : Sponsor[h] = row.clid
    <2>1. PICK d \in Registration(nextRoid, c.clid, c.years, now) :
            row \in AddHosts(d, c.hosts)
      BY <1>3
    <2>2. d \in Row
      BY HeldGood, RegistrationGood DEF RowsGood, GoodRow
    <2>3. row.clid = d.clid
      <3>1. \E sts : row \in WithStatus(d, sts)
        BY <2>1 DEF AddHosts
      <3> QED  BY <2>2, <3>1, StatusContinues DEF Continues
    <2> QED  BY <2>1, <2>3 DEF AddHosts
  <1> HIDE DEF rows, c
  <1>4. CASE \E row \in rows(now) :
               /\ db' = [db EXCEPT ![c.name] = row]
               /\ links' = [links EXCEPT ![c.name] = c.hosts]
               /\ Respond(p, "ok")
    <2>1. PICK row \in rows(now) :
               /\ db' = [db EXCEPT ![c.name] = row]
               /\ links' = [links EXCEPT ![c.name] = c.hosts]
               /\ Respond(p, "ok")
      BY <1>4
    <2>2. /\ db'[c.name] = row /\ links'[c.name] = c.hosts
          /\ \A m \in Names \ {c.name} : db'[m] = db[m] /\ links'[m] = links[m]
      BY <1>1, <2>1 DEF RowsGood
    <2>3. SponsorsAgree'
      BY <1>3, <2>2 DEF SponsorInv, SponsorsAgree
    <2> QED  BY <2>1, <2>3, RespondSponsored DEF SponsorInv
  <1>5. CASE Respond(p, "err") /\ UNCHANGED <<db, links>>
    BY <1>5, RespondSponsored, FewerLinksSponsored DEF SponsorInv
  <1> QED  BY <1>2, <1>4, <1>5

\* Creating a domain gives it no hosts, and its name had none.
LEMMA CreateSponsored ==
    ASSUME RowsGood, NoOrphanLinks, SponsorInv, NEW p \in Procs,
           NEW c \in Command, NEW cs \in SUBSET Command,
           CreateDomain(p, c) \/ BulkCreate(p, cs)
    PROVE  SponsorInv'
  <1>1. UNCHANGED links /\ \E r : Respond(p, r)
    BY DEF CreateDomain, BulkCreate
  <1>2. ASSUME NEW n \in Names
        PROVE  db'[n] = db[n] \/ ~Exists(n)
    BY <1>2, CreateKeepsRows
  <1>3. \A n \in Names : db'[n] = db[n] \/ links[n] = {}
    BY <1>2 DEF NoOrphanLinks
  <1>4. SponsorsAgree'
    BY <1>1, <1>3 DEF SponsorInv, SponsorsAgree
  <1> QED  BY <1>1, <1>4, RespondSponsored DEF SponsorInv

\* A load takes the hosts of the row it loads.
LEMMA LoadSponsored ==
    ASSUME RowsGood, SponsorInv, NEW p \in Procs, NEW c \in Command,
           LoadDomain(p, c) \/ DomainNotFound(p, c)
    PROVE  SponsorInv'
  <1>1. CASE LoadDomain(p, c)
    <2> DEFINE x == [IdleWith("none") EXCEPT
                       !.pc = "loaded", !.cmd = c, !.row = db[c.name],
                       !.hosts = IF c.op \in HostOps THEN links[c.name] ELSE {},
                       !.at = clock]
    <2>1. c.name \in Names
      BY DEF Command
    <2>2. x.row = db[c.name] /\ x.hosts \subseteq links[c.name]
      BY DEF IdleWith
    <2>3. UNCHANGED <<db, links>> /\ req' = [req EXCEPT ![p] = x]
      BY <1>1 DEF LoadDomain
    <2> HIDE DEF x
    <2>4. Sponsored(x)
      BY <2>1, <2>2 DEF SponsorInv, SponsorsAgree, Sponsored
    <2> QED  BY <2>3, <2>4, RequestSponsored, FewerLinksSponsored DEF SponsorInv
  <1>2. CASE DomainNotFound(p, c)
    BY <1>2, RespondSponsored, FewerLinksSponsored DEF DomainNotFound, SponsorInv
  <1> QED  BY <1>1, <1>2

\* Every step of every handler.
LEMMA NextSponsored ==
    ASSUME RowsGood, Lineage, NoOrphanLinks, SponsorInv, [Next]_vars
    PROVE  SponsorInv'
  <1>1. CASE UNCHANGED vars \/ Tick
    BY <1>1 DEF vars, Tick, SponsorInv, SponsorsAgree, HoldsSponsored, Sponsored
  <1>2. ASSUME NEW p \in Procs, NEW res, Respond(p, res), UNCHANGED <<db, links>>
        PROVE  SponsorInv'
    BY <1>2, RespondSponsored, FewerLinksSponsored DEF SponsorInv
  <1>3. ASSUME NEW p \in Procs, NEW x, req' = [req EXCEPT ![p] = x],
               Sponsored(x), UNCHANGED <<db, links>>
        PROVE  SponsorInv'
    BY <1>3, RequestSponsored, FewerLinksSponsored DEF SponsorInv
  <1>4. ASSUME NEW p \in Procs, Accept(p)
        PROVE  SponsorInv'
    <2>1. ASSUME NEW c \in Commands, LoadDomain(p, c) \/ DomainNotFound(p, c)
          PROVE  SponsorInv'
      BY <2>1, CommandsAssumption, LoadSponsored
    <2>2. ASSUME NEW c \in Commands,
                 CheckDomainAvailability(p, c) \/ DeleteDomainByName(p, c)
          PROVE  SponsorInv'
      <3> DEFINE x == [IdleWith("none") EXCEPT !.pc = "available", !.cmd = c,
                                               !.at = clock]
                 y == [IdleWith("none") EXCEPT
                         !.pc = IF c.toggle THEN "detach" ELSE "delete", !.cmd = c]
      <3>1. Sponsored(x) /\ Sponsored(y)
        BY DEF IdleWith, Sponsored
      <3>2. \/ req' = [req EXCEPT ![p] = x]
            \/ req' = [req EXCEPT ![p] = y]
            \/ Respond(p, "err")
        BY <2>2 DEF CheckDomainAvailability, DeleteDomainByName
      <3>3. UNCHANGED <<db, links>>
        BY <2>2 DEF CheckDomainAvailability, DeleteDomainByName
      <3> HIDE DEF x, y
      <3> QED  BY <1>2, <1>3, <3>1, <3>2, <3>3
    <2>3. ASSUME NEW c \in Commands, CreateDomain(p, c)
          PROVE  SponsorInv'
      BY <2>3, CommandsAssumption, CreateSponsored
    <2>4. ASSUME NEW cs \in SUBSET Commands, BulkCreate(p, cs)
          PROVE  SponsorInv'
      BY <2>4, CommandsAssumption, NoCommandType, CreateSponsored
    <2> QED  BY <1>4, <2>1, <2>2, <2>3, <2>4 DEF Accept
  <1>5. ASSUME NEW p \in Procs, Serve(p) \/ Abort(p)
        PROVE  SponsorInv'
    <2>1. CASE \/ SetHostLinked(p) \/ UnsetHostLinked(p) \/ Abort(p)
      BY <1>2, <2>1 DEF SetHostLinked, UnsetHostLinked, Abort
    <2>2. CASE CountHostAssociations(p)
      BY <1>2, <1>3, <2>2, IdleSponsored DEF CountHostAssociations, Goto
    <2> QED  BY <1>5, <2>1, <2>2, RowOpsSponsored, HostOpsSponsored,
                DetachSponsored, RegisterSponsored DEF Serve
  <1> QED  BY <1>1, <1>4, <1>5 DEF Next

\* SponsorsAgree: the hosts of a domain are sponsored by its registrar, for any
\* number of processes, also when a request that loaded the hosts of an earlier
\* registration writes them back after the name was registered again.
THEOREM HostsOfTheRegistrar == Spec => []SponsorsAgree
  <1>1. Init => SponsorInv
    BY DEF Init, SponsorInv, SponsorsAgree, HoldsSponsored, Sponsored, IdleWith
  <1>2. RowsGood /\ Lineage /\ NoOrphanLinks /\ SponsorInv /\ [Next]_vars => SponsorInv'
    BY NextSponsored
  <1>3. SponsorInv => SponsorsAgree
    BY DEF SponsorInv
  <1> QED  BY <1>1, <1>2, <1>3, RowsGoodInvariant, LineageInvariant,
              NoLinkOutlivesItsDomain, PTL DEF Spec
=============================================================================
