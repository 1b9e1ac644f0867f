-------------------------- MODULE TldPhasesProofs --------------------------
(***************************************************************************)
(* Proofs about the calendar of a TLD, for every set of processes, names,  *)
(* prices, policies and requested phases, and every bound on dates and on  *)
(* the number of phases.                                                   *)
(***************************************************************************)
EXTENDS TldPhases, TLAPS

-----------------------------------------------------------------------------
(* The two validations, as facts about two phases.                         *)

\* AddPhase accepts no GA phase that intersects another one, equal starts
\* apart.
LEMMA NoOverlapNoClash ==
    ASSUME NEW p \in Phase, NEW o \in Phase, ~OverlapsWith(p, o)
    PROVE  ~Clash(p, o)
  BY PhaseAssumption
     DEF Phase, Date, OverlapsWith, OpenOverlap, FirstOverlap, Clash,
         Intersect, NotEmpty, StartsBeforeEnd

\* Clash does not depend on the order.
LEMMA ClashSymmetric ==
    ASSUME NEW p, NEW o, Clash(p, o)
    PROVE  Clash(o, p)
  BY DEF Clash, Intersect

\* Setting or moving the end of a phase as EndPhase allows makes it
\* intersect no phase that it did not intersect before, although the first
\* end of a phase is not compared with the calendar.
LEMMA EndKeepsApart ==
    ASSUME NEW calendar, NEW p \in Phase, NEW o \in Phase, o \in calendar,
           NEW end \in Date, NEW t \in Date,
           o.name # p.name, ~Clash(p, o), MayEndPhase(calendar, p, end, t)
    PROVE  ~Clash([p EXCEPT !.ends = end], o)
<1> DEFINE q == [p EXCEPT !.ends = end]
<1>1. q \in Phase /\ q.type = p.type /\ q.starts = p.starts /\ q.ends = end
  BY DEF Phase
<1>2. SUFFICES ASSUME q.type = "GA", o.type = "GA", q.starts # o.starts,
                      Intersect(q, o)
               PROVE  FALSE
  BY DEF Clash
<1>3. ~Intersect(p, o)
  BY <1>1, <1>2 DEF Clash
<1> HIDE DEF q
<1>4. CASE p.ends = NoEnd
  BY <1>1, <1>2, <1>3, <1>4, PhaseAssumption
     DEF Phase, Date, Intersect, NotEmpty, StartsBeforeEnd
<1>5. CASE p.ends # NoEnd
  <2>1. /\ end >= t /\ end >= p.starts /\ ~EndsBefore(p, t)
        /\ EndsBefore(o, t) \/ o.starts >= end
    BY <1>1, <1>2, <1>5 DEF MayEndPhase, MayMoveEnd, GAPhases
  <2> QED
    BY <1>1, <1>2, <1>3, <1>5, <2>1, PhaseAssumption
       DEF Phase, Date, Intersect, NotEmpty, StartsBeforeEnd, EndsBefore
<1> QED
  BY <1>4, <1>5

-----------------------------------------------------------------------------
(* The inductive invariant.                                                *)

UniqueNames(rows) ==
    \A i, j \in DOMAIN rows : rows[i].name = rows[j].name => i = j

\* The ids that a write uses have been handed out.
Used(w) ==
    /\ w.op = "UpdatePhase" => w.id <= lastId
    /\ w.op = "UpdateTLD" =>
          /\ \A i \in DOMAIN w.loaded : i <= lastId
          /\ UniqueNames(w.loaded)

IdsUsed ==
    /\ \A i \in DOMAIN phases : i <= lastId
    /\ \A p \in Procs : Used(req[p])

\* What the handler that prepared a write found out still holds.
Fresh(w) ==
    /\ w.op = "CreatePhase" =>
          \A i \in DOMAIN phases : ~Clash(w.row, phases[i])
    /\ w.op = "UpdatePhase" =>
          /\ w.id \in DOMAIN phases
          /\ \A i \in DOMAIN phases : i # w.id => ~Clash(w.row, phases[i])
    /\ w.op = "UpdateTLD" => w.loaded = phases
    /\ w.op = "DeletePhase" => \A i \in Named(w.name) : phases[i].starts >= now

\* As long as no step falls between a load and its write, one process at
\* most is in between, and what it found out still holds.
Serial ==
    /\ Disjoint(phases)
    /\ \A p, q \in Procs : req[p] # Idle /\ req[q] # Idle => p = q
    /\ \A p \in Procs : Fresh(req[p])

IInv == TypeOK /\ ReferentialIntegrity /\ IdsUsed /\ (~interleaved => Serial)

-----------------------------------------------------------------------------
\* The initial states satisfy the invariant.
LEMMA InitIInv == Init => IInv
<1> SUFFICES ASSUME Init PROVE IInv
  OBVIOUS
<1>1. DOMAIN phases = {} /\ IsTable(phases)
  BY DEF Init, IsTable
<1>2. \A p \in Procs : req[p] = Idle
  BY DEF Init
<1>3. TypeOK
  <2>1. now \in Date /\ lastId \in 0 .. MaxId
    BY PhaseAssumption, CalendarAssumption DEF Init, Date
  <2>2. tld \in [exists : BOOLEAN, escrow : BOOLEAN]
    BY DEF Init, NoTld
  <2>3. req = [p \in Procs |-> req[p]] /\ \A p \in Procs : IsPending(req[p])
    BY <1>2 DEF Init, IsPending, Pending
  <2> QED
    BY <1>1, <2>1, <2>2, <2>3 DEF Init, TypeOK
<1>4. ReferentialIntegrity
  BY <1>1 DEF Init, ReferentialIntegrity
<1>5. IdsUsed
  BY <1>1, <1>2 DEF IdsUsed, Used, Idle
<1>6. Serial
  BY <1>1, <1>2 DEF Serial, Disjoint, Fresh, Idle
<1> QED
  BY <1>3, <1>4, <1>5, <1>6 DEF IInv

-----------------------------------------------------------------------------
(* Loads.                                                                  *)

\* A table of phases, row by row.
LEMMA TableRows ==
    ASSUME NEW t, IsTable(t), NEW i \in DOMAIN t
    PROVE  i \in Ids /\ t[i] \in Phase
  BY DEF IsTable

\* The row of a phase with one field changed is a row of that phase; a
\* change of its policy or of its list changes nothing a Clash looks at.
LEMMA EditedRow ==
    ASSUME NEW p \in Phase
    PROVE  /\ \A end \in Date : [p EXCEPT !.ends = end] \in Phase
           /\ \A policy \in Policies : [p EXCEPT !.policy = policy] \in Phase
           /\ \A list \in Lists \cup {NoList} : [p EXCEPT !.list = list] \in Phase
           /\ \A policy, o : Clash([p EXCEPT !.policy = policy], o) => Clash(p, o)
           /\ \A list, o : Clash([p EXCEPT !.list = list], o) => Clash(p, o)
  BY DEF Phase, Clash, Intersect, NotEmpty, StartsBeforeEnd

\* What a handler prepares is a write, which uses known ids; and when the GA
\* phases are disjoint, the write keeps them so as things stand.
LEMMA LoadPrepares ==
    ASSUME IInv, NEW p \in Procs, Load(p)
    PROVE  \E w : /\ Begin(p, w)
                  /\ IsPending(w) /\ Used(w)
                  /\ Disjoint(phases) => Fresh(w)
<1> DEFINE Good(w) ==
       IsPending(w) /\ Used(w) /\ (Disjoint(phases) => Fresh(w))
<1>1. /\ IsTable(phases) /\ UniqueNames(phases) /\ now \in Date
      /\ \A i \in DOMAIN phases : i \in Ids /\ i <= lastId /\ phases[i] \in Phase
  BY TableRows DEF IInv, TypeOK, ReferentialIntegrity, UniqueNames, IdsUsed
<1>2. SUFFICES \E w : Begin(p, w) /\ Good(w)
  BY DEF Good
\* The save of a phase with one field changed.
<1>3. ASSUME NEW i \in DOMAIN phases, NEW row \in Phase,
             Disjoint(phases) =>
                \A j \in DOMAIN phases : j # i => ~Clash(row, phases[j])
      PROVE  Good([op |-> "UpdatePhase", id |-> i, row |-> row])
  BY <1>1, <1>3 DEF Good, IsPending, Pending, Used, Fresh
\* The other writes concern no phase that is there.
<1>4. ASSUME NEW w \in Pending,
             w.op \notin {"UpdatePhase", "CreatePhase", "UpdateTLD", "DeletePhase"}
      PROVE  Good(w)
  BY <1>4 DEF Good, IsPending, Used, Fresh
<1> HIDE DEF Good
<1>5. CASE LoadDeleteTLD(p)
  BY <1>4, <1>5 DEF LoadDeleteTLD, Pending
<1>6. ASSUME NEW value \in BOOLEAN, LoadSetAllowEscrowImport(p, value)
      PROVE  \E w : Begin(p, w) /\ Good(w)
  <2> DEFINE w == [op |-> "UpdateTLD", escrow |-> value, loaded |-> phases]
  <2>1. Good(w)
    BY <1>1 DEF Good, IsPending, IsUpdateTLD, Used, Fresh
  <2> QED
    BY <1>6, <2>1 DEF LoadSetAllowEscrowImport
<1>7. ASSUME NEW row \in NewPhases, LoadCreatePhase(p, row)
      PROVE  \E w : Begin(p, w) /\ Good(w)
  <2> DEFINE w == [op |-> "CreatePhase", row |-> row]
  <2>1. row \in Phase
    BY CalendarAssumption
  <2>2. ASSUME NEW i \in DOMAIN phases
        PROVE  ~Clash(row, phases[i])
    <3>1. CASE row.type = "GA" /\ phases[i].type = "GA"
      <4>1. ~OverlapsWith(row, phases[i])
        BY <1>7, <3>1 DEF LoadCreatePhase, MayAddPhase, GAPhases, Calendar
      <4> QED
        BY <1>1, <2>1, <4>1, NoOverlapNoClash
    <3>2. CASE ~(row.type = "GA" /\ phases[i].type = "GA")
      BY <3>2 DEF Clash
    <3> QED
      BY <3>1, <3>2
  <2>3. Good(w)
    BY <2>2 DEF Good, IsPending, Pending, Used, Fresh
  <2> QED
    BY <1>7, <2>3 DEF LoadCreatePhase
<1>8. ASSUME NEW n \in PhaseNames, NEW end \in Date, LoadEndPhase(p, n, end)
      PROVE  \E w : Begin(p, w) /\ Good(w)
  <2>1. PICK i \in Named(n) :
           /\ MayEndPhase(Calendar, phases[i], end, now)
           /\ Begin(p, [op |-> "UpdatePhase", id |-> i,
                        row |-> [phases[i] EXCEPT !.ends = end]])
    BY <1>8 DEF LoadEndPhase
  <2> DEFINE row == [phases[i] EXCEPT !.ends = end]
  <2>2. i \in DOMAIN phases /\ row \in Phase
    BY <1>1, EditedRow DEF Named
  <2>3. ASSUME NEW j \in DOMAIN phases, j # i, Disjoint(phases)
        PROVE  ~Clash(row, phases[j])
    <3>1. phases[j] \in Calendar /\ phases[j].name # phases[i].name
      BY <1>1, <2>2, <2>3 DEF Calendar, UniqueNames
    <3>2. ~Clash(phases[i], phases[j])
      BY <2>2, <2>3 DEF Disjoint
    <3> QED
      BY <1>1, <2>1, <2>2, <3>1, <3>2, EndKeepsApart
  <2>4. Good([op |-> "UpdatePhase", id |-> i, row |-> row])
    BY <1>3, <2>2, <2>3
  <2> QED
    BY <2>1, <2>4
<1>9. ASSUME NEW n \in PhaseNames, LoadDeletePhase(p, n)
      PROVE  \E w : Begin(p, w) /\ Good(w)
  <2> DEFINE w == [op |-> "DeletePhase", name |-> n]
  <2>1. PICK i \in Named(n) : phases[i].starts >= now
    BY <1>9 DEF LoadDeletePhase, MayDeletePhase
  <2>2. \A j \in Named(n) : j = i
    BY <1>1 DEF Named, UniqueNames
  <2>3. Good(w)
    BY <2>1, <2>2 DEF Good, IsPending, Pending, Used, Fresh
  <2> QED
    BY <1>9, <2>3 DEF LoadDeletePhase
<1>10. ASSUME NEW n \in PhaseNames, NEW policy \in Policies,
              LoadUpdatePhasePolicy(p, n, policy)
       PROVE  \E w : Begin(p, w) /\ Good(w)
  <2>1. PICK i \in DOMAIN phases :
           Begin(p, [op |-> "UpdatePhase", id |-> i,
                     row |-> [phases[i] EXCEPT !.policy = policy]])
    BY <1>10 DEF LoadUpdatePhasePolicy
  <2>2. Good([op |-> "UpdatePhase", id |-> i,
              row |-> [phases[i] EXCEPT !.policy = policy]])
    BY <1>1, <1>3, EditedRow DEF Disjoint
  <2> QED
    BY <2>1, <2>2
<1>11. ASSUME NEW n \in PhaseNames, NEW list \in Lists \cup {NoList},
              LoadSetPremiumList(p, n, list)
       PROVE  \E w : Begin(p, w) /\ Good(w)
  <2>1. PICK i \in DOMAIN phases :
           Begin(p, [op |-> "UpdatePhase", id |-> i,
                     row |-> [phases[i] EXCEPT !.list = list]])
    BY <1>11 DEF LoadSetPremiumList
  <2>2. Good([op |-> "UpdatePhase", id |-> i,
              row |-> [phases[i] EXCEPT !.list = list]])
    BY <1>1, <1>3, EditedRow DEF Disjoint
  <2> QED
    BY <2>1, <2>2
<1>12. ASSUME NEW n \in PhaseNames, NEW charge \in Charges,
              LoadCreateCharge(p, n, charge) \/ LoadDeleteCharge(p, n, charge)
       PROVE  \E w : Begin(p, w) /\ Good(w)
  <2>1. PICK i \in DOMAIN phases, op \in {"CreateCharge", "DeleteCharge"} :
           Begin(p, [op |-> op, id |-> i, charge |-> charge])
    BY <1>12 DEF LoadCreateCharge, LoadDeleteCharge
  <2>2. Good([op |-> op, id |-> i, charge |-> charge])
    BY <1>1, <1>4 DEF Pending
  <2> QED
    BY <2>1, <2>2
<1> QED
  BY <1>5, <1>6, <1>7, <1>8, <1>9, <1>10, <1>11, <1>12 DEF Load

\* A load keeps the invariant.
LEMMA LoadKeepsIInv ==
    ASSUME IInv, NEW p \in Procs, Load(p)
    PROVE  IInv'
<1>1. PICK w : /\ Begin(p, w)
               /\ IsPending(w) /\ Used(w)
               /\ Disjoint(phases) => Fresh(w)
  BY LoadPrepares
<1>2. /\ req[p] = Idle
      /\ req' = [req EXCEPT ![p] = w]
      /\ interleaved' = (interleaved \/ Busy)
      /\ UNCHANGED <<now, tld, phases, charges, lists, lastId>>
  BY <1>1 DEF Begin
<1>3. /\ DOMAIN req = Procs /\ interleaved' \in BOOLEAN
      /\ \A q \in Procs : req'[q] = IF q = p THEN w ELSE req[q]
  BY <1>2 DEF IInv, TypeOK
<1>4. TypeOK'
  <2>1. req' = [q \in Procs |-> req'[q]]
    BY <1>2, <1>3 DEF IInv, TypeOK
  <2>2. \A q \in Procs : IsPending(req'[q])
    BY <1>1, <1>3 DEF IInv, TypeOK
  <2> QED
    BY <1>2, <1>3, <2>1, <2>2 DEF IInv, TypeOK, IsTable
<1>5. ReferentialIntegrity'
  BY <1>2 DEF IInv, ReferentialIntegrity
<1>6. IdsUsed'
  BY <1>1, <1>2, <1>3 DEF IInv, IdsUsed, Used
<1>7. ASSUME ~interleaved'
      PROVE  Serial'
  <2>1. ~interleaved /\ \A q \in Procs : req[q] = Idle
    BY <1>2, <1>7 DEF Busy
  <2>2. Disjoint(phases) /\ Fresh(w) /\ \A q \in Procs : Fresh(req[q])
    BY <1>1, <2>1 DEF IInv, Serial
  <2> QED
    BY <1>2, <1>3, <2>1, <2>2 DEF Serial, Fresh, Disjoint, Named
<1> QED
  BY <1>4, <1>5, <1>6, <1>7 DEF IInv

-----------------------------------------------------------------------------
(* Writes.                                                                 *)

\* The fields a pending write has, by its kind.
LEMMA PendingShape ==
    ASSUME NEW w, IsPending(w)
    PROVE  /\ w.op = "CreatePhase" => w.row \in NewPhases
           /\ w.op = "UpdatePhase" => w.id \in Ids /\ w.row \in Phase
           /\ w.op \in {"CreateCharge", "DeleteCharge"} =>
                 w.id \in Ids /\ w.charge \in Charges
           /\ w.op = "UpdateTLD" => w.escrow \in BOOLEAN /\ IsTable(w.loaded)
<1>1. CASE IsUpdateTLD(w)
  <2>1. w.op = "UpdateTLD"
    BY <1>1 DEF IsUpdateTLD
  <2> QED
    BY <1>1, <2>1 DEF IsUpdateTLD
<1>2. CASE w \in {Idle, [op |-> "DeleteTLD"]}
  BY <1>2 DEF Idle
<1>3. CASE w \in [op : {"CreatePhase"}, row : NewPhases]
  BY <1>3
<1>4. CASE w \in [op : {"UpdatePhase"}, id : Ids, row : Phase]
  BY <1>4
<1>5. CASE w \in [op : {"DeletePhase"}, name : PhaseNames]
  BY <1>5
<1>6. CASE w \in [op : {"CreateCharge", "DeleteCharge"}, id : Ids,
                  charge : Charges]
  BY <1>6
<1> QED
  BY <1>1, <1>2, <1>3, <1>4, <1>5, <1>6 DEF IsPending, Pending

\* Finish frees the process, and nothing else that is observed.
LEMMA FinishStep ==
    ASSUME IInv, NEW p \in Procs, Finish(p)
    PROVE  /\ \A q \in Procs : req'[q] = IF q = p THEN Idle ELSE req[q]
           /\ req' = [q \in Procs |-> req'[q]]
           /\ \A q \in Procs : IsPending(req'[q])
           /\ now' = now /\ lists' = lists /\ interleaved' = interleaved
  BY DEF IInv, TypeOK, Finish, IsPending, Pending

\* After a write in a history without interleaving every process is idle.
LEMMA WriteFreesAll ==
    ASSUME IInv, NEW p \in Procs, req[p] # Idle, Finish(p), ~interleaved'
    PROVE  Disjoint(phases') => Serial'
<1>1. ~interleaved /\ \A q \in Procs : req'[q] = Idle
  BY FinishStep DEF IInv, Serial
<1>2. \A q \in Procs : Fresh(req[q])'
  BY <1>1 DEF Fresh, Idle
<1> QED
  BY <1>1, <1>2 DEF Serial, Disjoint

\* Two steps to a write's invariant: what the tables look like afterwards,
\* and what follows for the rest.
LEMMA WriteStep ==
    ASSUME IInv, NEW p \in Procs, req[p] # Idle, Finish(p),
           IsTable(phases'), charges' \subseteq Ids \X Charges,
           tld' \in [exists : BOOLEAN, escrow : BOOLEAN],
           lastId' \in 0 .. MaxId, lastId' >= lastId,
           ReferentialIntegrity',
           \A i \in DOMAIN phases' : i <= lastId',
           ~interleaved => Disjoint(phases')
    PROVE  IInv'
<1>1. TypeOK'
  BY FinishStep DEF IInv, TypeOK
<1>2. IdsUsed'
  <2>1. lastId \in Nat /\ lastId' \in Nat /\ Ids \subseteq Nat
    BY CalendarAssumption DEF IInv, TypeOK, Ids
  <2>2. ASSUME NEW q \in Procs
        PROVE  Used(req[q])'
    <3>1. CASE q = p
      BY <3>1, FinishStep DEF Used, Idle
    <3>2. CASE q # p
      <4>1. req'[q] = req[q] /\ Used(req[q]) /\ IsPending(req[q])
        BY <3>2, FinishStep DEF IInv, TypeOK, IdsUsed
      <4>2. req[q].op = "UpdatePhase" => req[q].id \in Nat
        BY <2>1, <4>1, PendingShape
      <4>3. req[q].op = "UpdateTLD" => DOMAIN req[q].loaded \subseteq Nat
        BY <2>1, <4>1, PendingShape DEF IsTable
      <4> QED
        BY <2>1, <4>1, <4>2, <4>3 DEF Used
    <3> QED
      BY <3>1, <3>2
  <2> QED
    BY <2>2 DEF IdsUsed
<1>3. ~interleaved' => Serial'
  BY WriteFreesAll, FinishStep
<1> QED
  BY <1>1, <1>2, <1>3 DEF IInv

\* What the invariant says of the tables.
LEMMA Tables ==
    ASSUME IInv
    PROVE  /\ IsTable(phases) /\ charges \subseteq Ids \X Charges
           /\ tld \in [exists : BOOLEAN, escrow : BOOLEAN]
           /\ lastId \in 0 .. MaxId /\ lastId \in Nat
           /\ ReferentialIntegrity
           /\ \A i \in DOMAIN phases : i \in Nat /\ i <= lastId
           /\ ~interleaved => Disjoint(phases)
<1>1. Ids \subseteq Nat /\ 0 .. MaxId \subseteq Nat
  BY CalendarAssumption DEF Ids
<1> QED
  BY <1>1, TableRows DEF IInv, TypeOK, IdsUsed, Serial

\* Storing a row that the constraints of the table accept.
LEMMA StoreRow ==
    ASSUME IInv, NEW k \in Ids, NEW row \in Phase, MayStore(k, row),
           UNCHANGED <<tld, charges, lists>>,
           phases' = [i \in DOMAIN phases \cup {k} |->
                         IF i = k THEN row ELSE phases[i]]
    PROVE  /\ IsTable(phases') /\ ReferentialIntegrity'
           /\ DOMAIN phases' = DOMAIN phases \cup {k}
           /\ (/\ Disjoint(phases)
               /\ \A i \in DOMAIN phases : i # k => ~Clash(row, phases[i]))
              => Disjoint(phases')
<1>1. DOMAIN phases' = DOMAIN phases \cup {k}
  OBVIOUS
<1>2. \A i \in DOMAIN phases' : phases'[i] = IF i = k THEN row ELSE phases[i]
  BY <1>1
<1>3. IsTable(phases')
  BY <1>1, <1>2, Tables DEF IsTable
<1>4. ReferentialIntegrity'
  BY <1>1, <1>2, Tables DEF ReferentialIntegrity, MayStore
<1>5. ASSUME Disjoint(phases),
             \A i \in DOMAIN phases : i # k => ~Clash(row, phases[i])
      PROVE  Disjoint(phases')
  BY <1>1, <1>2, <1>5, ClashSymmetric DEF Disjoint
<1> QED
  BY <1>1, <1>3, <1>4, <1>5

\* Removing rows, with the charges that go with them.
LEMMA RemoveRows ==
    ASSUME IInv, NEW S, phases' = Without(S), charges' = ChargesWithout(S),
           lists' = lists, tld' = tld \/ S = DOMAIN phases
    PROVE  /\ IsTable(phases') /\ charges' \subseteq Ids \X Charges
           /\ ReferentialIntegrity'
           /\ DOMAIN phases' \subseteq DOMAIN phases
           /\ Disjoint(phases) => Disjoint(phases')
<1>1. DOMAIN phases' = DOMAIN phases \ S
  BY DEF Without
<1>2. \A i \in DOMAIN phases' : phases'[i] = phases[i]
  BY <1>1 DEF Without
<1>3. IsTable(phases')
  <2>1. phases' = [i \in DOMAIN phases' |-> phases[i]]
    BY <1>1 DEF Without
  <2> QED
    BY <1>1, <2>1, Tables DEF IsTable
<1>4. ReferentialIntegrity'
  BY <1>1, <1>2, Tables DEF ReferentialIntegrity, ChargesWithout
<1>5. Disjoint(phases) => Disjoint(phases')
  BY <1>1, <1>2 DEF Disjoint
<1> QED
  BY <1>1, <1>3, <1>4, <1>5, Tables DEF ChargesWithout

\* A write keeps the invariant.
LEMMA WriteKeepsIInv ==
    ASSUME IInv, NEW p \in Procs, Write(p)
    PROVE  IInv'
<1>1. CASE DeleteTLD(p)
  <2>1. charges' = ChargesWithout(DOMAIN phases)
    BY <1>1, Tables DEF DeleteTLD, ChargesWithout, ReferentialIntegrity
  <2>2. lists' = lists /\ phases' = Without(DOMAIN phases)
    BY <1>1 DEF DeleteTLD, Finish
  <2>3. req[p] # Idle /\ Finish(p) /\ lastId' = lastId /\ tld' = NoTld
    BY <1>1 DEF DeleteTLD, Idle
  <2>4. tld' \in [exists : BOOLEAN, escrow : BOOLEAN]
    BY <2>3 DEF NoTld
  <2>5. /\ IsTable(phases') /\ charges' \subseteq Ids \X Charges
        /\ ReferentialIntegrity' /\ DOMAIN phases' \subseteq DOMAIN phases
        /\ Disjoint(phases) => Disjoint(phases')
    BY <2>1, <2>2, RemoveRows
  <2> QED
    BY <2>3, <2>4, <2>5, Tables, WriteStep
<1>2. CASE UpdateTLD(p)
  <2> DEFINE loaded == req[p].loaded
             gone == DOMAIN loaded \ DOMAIN phases
  <2>1. /\ req[p] # Idle /\ Finish(p) /\ lastId' = lastId /\ charges' = charges
        /\ lists' = lists
        /\ \A i \in gone : MayStore(i, loaded[i])
        /\ tld' = [exists |-> TRUE, escrow |-> req[p].escrow]
        /\ phases' = [i \in DOMAIN phases \cup gone |->
                         IF i \in gone THEN loaded[i] ELSE phases[i]]
    BY <1>2 DEF UpdateTLD, Idle, Finish
  <2>2. IsPending(req[p]) /\ req[p].op = "UpdateTLD" /\ Used(req[p])
    BY <1>2 DEF UpdateTLD, IInv, TypeOK, IdsUsed
  <2>3. IsTable(loaded) /\ UniqueNames(loaded) /\ req[p].escrow \in BOOLEAN
        /\ \A i \in DOMAIN loaded : i <= lastId
    BY <2>2, PendingShape DEF Used
  <2>4. tld' \in [exists : BOOLEAN, escrow : BOOLEAN] /\ tld'.exists
    BY <2>1, <2>3
  <2> HIDE DEF loaded
  <2>5. /\ DOMAIN phases' = DOMAIN phases \cup gone
        /\ \A i \in DOMAIN phases' :
              phases'[i] = IF i \in gone THEN loaded[i] ELSE phases[i]
    BY <2>1
  <2>6. IsTable(phases')
    <3>1. \A i \in DOMAIN phases' : i \in Ids /\ phases'[i] \in Phase
      BY <2>3, <2>5, Tables, TableRows
    <3>2. phases' = [i \in DOMAIN phases' |-> phases'[i]]
      BY <2>1, <2>5
    <3> QED
      BY <3>1, <3>2 DEF IsTable
  <2>7. ReferentialIntegrity'
    <3>1. \A c \in charges' : c[1] \in DOMAIN phases'
      BY <2>1, <2>5, Tables DEF ReferentialIntegrity
    <3>2. \A i \in DOMAIN phases' : phases'[i].list \in lists' \cup {NoList}
      BY <2>1, <2>5, Tables DEF ReferentialIntegrity, MayStore
    <3>3. ASSUME NEW i \in DOMAIN phases', NEW j \in DOMAIN phases',
                 phases'[i].name = phases'[j].name
          PROVE  i = j
      <4>1. CASE i \in gone /\ j \in gone
        BY <2>3, <2>5, <3>3, <4>1 DEF UniqueNames
      <4>2. CASE i \in gone /\ j \notin gone
        BY <2>1, <2>5, <3>3, <4>2 DEF MayStore
      <4>3. CASE i \notin gone /\ j \in gone
        BY <2>1, <2>5, <3>3, <4>3 DEF MayStore
      <4>4. CASE i \notin gone /\ j \notin gone
        BY <2>5, <3>3, <4>4, Tables DEF ReferentialIntegrity
      <4> QED
        BY <4>1, <4>2, <4>3, <4>4
    <3> QED
      BY <2>4, <3>1, <3>2, <3>3 DEF ReferentialIntegrity
  <2>8. ASSUME ~interleaved
        PROVE  Disjoint(phases')
    <3>1. Fresh(req[p]) /\ Disjoint(phases)
      BY <2>8 DEF IInv, Serial
    <3>2. gone = {}
      BY <2>2, <3>1 DEF Fresh, loaded
    <3> QED
      BY <2>5, <3>1, <3>2 DEF Disjoint
  <2>9. \A i \in DOMAIN phases' : i <= lastId'
    BY <2>1, <2>3, <2>5, Tables
  <2>10. charges' \subseteq Ids \X Charges /\ lastId' \in 0 .. MaxId
         /\ lastId' >= lastId
    BY <2>1, Tables
  <2> QED
    BY <2>1, <2>4, <2>6, <2>7, <2>8, <2>9, <2>10, WriteStep
<1>3. CASE CreatePhase(p)
  <2> DEFINE k == lastId + 1
             row == req[p].row
  <2>1. /\ req[p] # Idle /\ Finish(p) /\ lastId' = k /\ lastId < MaxId
        /\ UNCHANGED <<tld, charges, lists>>
        /\ MayStore(k, row)
        /\ phases' = [i \in DOMAIN phases \cup {k} |->
                         IF i = k THEN row ELSE phases[i]]
    BY <1>3 DEF CreatePhase, Idle, Finish
  <2>2. k \in Ids /\ lastId' \in 0 .. MaxId /\ lastId' >= lastId
    BY <2>1, Tables, CalendarAssumption DEF Ids
  <2>3. req[p].op = "CreatePhase" /\ row \in Phase
    BY <1>3, PendingShape, CalendarAssumption DEF CreatePhase, IInv, TypeOK
  <2>4. ~interleaved => \A i \in DOMAIN phases : ~Clash(row, phases[i])
    BY <2>3 DEF IInv, Serial, Fresh
  <2> HIDE DEF k, row
  <2>5. /\ IsTable(phases') /\ ReferentialIntegrity'
        /\ DOMAIN phases' = DOMAIN phases \cup {k}
        /\ ~interleaved => Disjoint(phases')
    BY <2>1, <2>2, <2>3, <2>4, StoreRow, Tables
  <2>6. \A i \in DOMAIN phases' : i <= lastId'
    <3>1. \A i \in DOMAIN phases : i <= k
      BY Tables DEF k
    <3>2. k <= k
      BY Tables DEF k
    <3> QED
      BY <2>1, <2>5, <3>1, <3>2
  <2> QED
    BY <2>1, <2>2, <2>5, <2>6, Tables, WriteStep
<1>4. CASE UpdatePhase(p)
  <2> DEFINE k == req[p].id
             row == req[p].row
  <2>1. /\ req[p] # Idle /\ Finish(p)
        /\ UNCHANGED <<tld, charges, lists, lastId>>
        /\ MayStore(k, row)
        /\ phases' = [i \in DOMAIN phases \cup {k} |->
                         IF i = k THEN row ELSE phases[i]]
    BY <1>4 DEF UpdatePhase, Idle, Finish
  <2>2. req[p].op = "UpdatePhase" /\ k \in Ids /\ row \in Phase
    BY <1>4, PendingShape DEF UpdatePhase, IInv, TypeOK
  <2>3. k <= lastId
    BY <2>2 DEF IInv, IdsUsed, Used
  <2>4. ~interleaved => \A i \in DOMAIN phases : i # k => ~Clash(row, phases[i])
    BY <2>2 DEF IInv, Serial, Fresh
  <2> HIDE DEF k, row
  <2>5. /\ IsTable(phases') /\ ReferentialIntegrity'
        /\ DOMAIN phases' = DOMAIN phases \cup {k}
        /\ ~interleaved => Disjoint(phases')
    BY <2>1, <2>2, <2>4, StoreRow, Tables
  <2>6. lastId' \in 0 .. MaxId /\ lastId' >= lastId
        /\ \A i \in DOMAIN phases' : i <= lastId'
    BY <2>1, <2>3, <2>5, Tables
  <2> QED
    BY <2>1, <2>5, <2>6, Tables, WriteStep
<1>5. CASE DeletePhase(p)
  <2>1. /\ req[p] # Idle /\ Finish(p)
        /\ UNCHANGED <<tld, lists, lastId>>
        /\ phases' = Without(Named(req[p].name))
        /\ charges' = ChargesWithout(Named(req[p].name))
    BY <1>5 DEF DeletePhase, Idle, Finish
  <2>2. /\ IsTable(phases') /\ charges' \subseteq Ids \X Charges
        /\ ReferentialIntegrity' /\ DOMAIN phases' \subseteq DOMAIN phases
        /\ Disjoint(phases) => Disjoint(phases')
    BY <2>1, RemoveRows
  <2> QED
    BY <2>1, <2>2, Tables, WriteStep
<1>6. CASE CreateCharge(p) \/ DeleteCharge(p) \/ Fail(p)
  <2>1. /\ req[p] # Idle /\ Finish(p)
        /\ UNCHANGED <<tld, phases, lists, lastId>>
    BY <1>6 DEF CreateCharge, DeleteCharge, Fail, Idle, Finish
  <2>2. charges' \subseteq charges
        \/ /\ req[p].op = "CreateCharge" /\ req[p].id \in DOMAIN phases
           /\ charges' = charges \cup {<<req[p].id, req[p].charge>>}
    BY <1>6 DEF CreateCharge, DeleteCharge, Fail
  <2>3. charges' \subseteq Ids \X Charges
    BY <2>2, Tables, PendingShape DEF IInv, TypeOK
  <2>4. \A c \in charges' : c[1] \in DOMAIN phases
    BY <2>2, Tables DEF ReferentialIntegrity
  <2>5. ReferentialIntegrity'
    BY <2>1, <2>4, Tables DEF ReferentialIntegrity
  <2>6. IsTable(phases') /\ (\A i \in DOMAIN phases' : i <= lastId')
        /\ (~interleaved => Disjoint(phases')) /\ lastId' >= lastId
    BY <2>1, Tables
  <2> QED
    BY <2>1, <2>3, <2>5, <2>6, Tables, WriteStep
<1> QED
  BY <1>1, <1>2, <1>3, <1>4, <1>5, <1>6 DEF Write

-----------------------------------------------------------------------------
(* The other steps, and the theorems.                                      *)

\* A step that falls between a load and its write is noticed.
LEMMA BetweenKeepsSerial ==
    ASSUME IInv, Between, UNCHANGED <<phases, req>>, ~interleaved'
    PROVE  Serial'
<1>1. ~interleaved /\ \A q \in Procs : req[q] = Idle
  BY DEF Between, Busy
<1>2. \A q \in Procs : Fresh(req[q])'
  BY <1>1 DEF Fresh, Idle
<1> QED
  BY <1>1, <1>2 DEF IInv, Serial, Disjoint

\* Every step keeps the invariant.
LEMMA NextIInv == IInv /\ [Next]_vars => IInv'
<1> SUFFICES ASSUME IInv, [Next]_vars PROVE IInv'
  OBVIOUS
<1>1. CASE \E p \in Procs : Load(p) \/ Write(p)
  BY <1>1, LoadKeepsIInv, WriteKeepsIInv
<1>2. CASE CreateTLD
  <2>1. TypeOK'
    BY <1>2 DEF CreateTLD, Between, IInv, TypeOK, IsTable, Ids
  <2>2. ReferentialIntegrity' /\ IdsUsed'
    BY <1>2 DEF CreateTLD, IInv, ReferentialIntegrity, IdsUsed, Used
  <2>3. ~interleaved' => Serial'
    BY <1>2, BetweenKeepsSerial DEF CreateTLD
  <2> QED
    BY <2>1, <2>2, <2>3 DEF IInv
<1>3. ASSUME NEW l \in Lists, CreateList(l) \/ DeleteList(l)
      PROVE  IInv'
  <2>1. TypeOK'
    BY <1>3 DEF CreateList, DeleteList, Between, IInv, TypeOK
  <2>2. ReferentialIntegrity'
    BY <1>3 DEF CreateList, DeleteList, IInv, ReferentialIntegrity, Calendar
  <2>3. IdsUsed'
    BY <1>3 DEF CreateList, DeleteList, IInv, IdsUsed, Used
  <2>4. ~interleaved' => Serial'
    BY <1>3, BetweenKeepsSerial DEF CreateList, DeleteList
  <2> QED
    BY <2>1, <2>2, <2>3, <2>4 DEF IInv
<1>4. CASE Tick
  <2>1. TypeOK'
    BY <1>4, PhaseAssumption DEF Tick, Between, IInv, TypeOK, Date
  <2>2. ReferentialIntegrity' /\ IdsUsed'
    BY <1>4 DEF Tick, IInv, ReferentialIntegrity, IdsUsed, Used
  <2>3. ~interleaved' => Serial'
    BY <1>4, BetweenKeepsSerial DEF Tick
  <2> QED
    BY <2>1, <2>2, <2>3 DEF IInv
<1>5. CASE UNCHANGED vars
  BY <1>5 DEF vars, IInv, TypeOK, ReferentialIntegrity, IdsUsed, Used, Serial,
              Disjoint, Fresh, Named
<1> QED
  BY <1>1, <1>2, <1>3, <1>4, <1>5 DEF Next

\* The invariant holds in every history.
THEOREM CalendarInvariant == Spec => []IInv
  BY InitIInv, NextIInv, PTL DEF Spec

\* Every variable keeps its type.
THEOREM CalendarTypeCorrect == Spec => []TypeOK
<1>1. IInv => TypeOK
  BY DEF IInv
<1> QED
  BY <1>1, CalendarInvariant, PTL

\* The tables refer to each other consistently in every interleaving of the
\* handlers, stale saves included: phases have a TLD, prices and fees a
\* phase, premium lists exist, names are unique.
THEOREM TablesConsistent == Spec => []ReferentialIntegrity
<1>1. IInv => ReferentialIntegrity
  BY DEF IInv
<1> QED
  BY <1>1, CalendarInvariant, PTL

\* As long as no step falls between the load and the write of a handler, GA
\* phases with different starts do not intersect.
THEOREM GACalendarDisjoint == Spec => []GAPhasesDisjoint
<1>1. IInv => GAPhasesDisjoint
  BY DEF IInv, Serial, GAPhasesDisjoint
<1> QED
  BY <1>1, CalendarInvariant, PTL

\* As long as no step falls between the load and the write of a handler, a
\* phase that has started is removed only with its TLD.
THEOREM StartedPhasesStay == Spec => StartedPhasesKept
<1> DEFINE Kept ==
       ~interleaved' /\ tld'.exists =>
          \A i \in DOMAIN phases :
             phases[i].starts < now => i \in DOMAIN phases'
<1>1. ASSUME IInv, Next
      PROVE  Kept
  <2>1. ASSUME NEW p \in Procs, Load(p)
        PROVE  Kept
    <3>1. phases' = phases
      BY <1>1, <2>1, LoadPrepares DEF Begin
    <3> QED
      BY <3>1
  <2>2. ASSUME NEW p \in Procs, DeletePhase(p), ~interleaved'
        PROVE  \A i \in DOMAIN phases :
                  phases[i].starts < now => i \in DOMAIN phases'
    <3>1. \A i \in Named(req[p].name) : phases[i].starts >= now
      BY <1>1, <2>2 DEF DeletePhase, Finish, IInv, Serial, Fresh
    <3>2. DOMAIN phases' = DOMAIN phases \ Named(req[p].name)
      BY <2>2 DEF DeletePhase, Without
    <3>3. \A i \in DOMAIN phases : phases[i].starts \in Nat
      BY <1>1, Tables, TableRows DEF Phase, Date
    <3>4. now \in Nat
      BY <1>1 DEF IInv, TypeOK, Date
    <3> QED
      BY <3>1, <3>2, <3>3, <3>4
  <2>3. ASSUME NEW p \in Procs, Write(p), ~DeletePhase(p)
        PROVE  Kept
    <3>1. CASE DeleteTLD(p)
      BY <3>1 DEF DeleteTLD, NoTld
    <3>2. CASE UpdateTLD(p)
      BY <3>2 DEF UpdateTLD
    <3>3. CASE CreatePhase(p) \/ UpdatePhase(p)
      BY <3>3 DEF CreatePhase, UpdatePhase
    <3>4. CASE CreateCharge(p) \/ DeleteCharge(p) \/ Fail(p)
      BY <3>4 DEF CreateCharge, DeleteCharge, Fail
    <3> QED
      BY <2>3, <3>1, <3>2, <3>3, <3>4 DEF Write
  <2>4. CASE CreateTLD \/ Tick \/ \E l \in Lists : CreateList(l) \/ DeleteList(l)
    BY <2>4 DEF CreateTLD, Tick, CreateList, DeleteList
  <2> QED
    BY <1>1, <2>1, <2>2, <2>3, <2>4 DEF Next
<1>2. IInv /\ [Next]_vars => [Kept]_vars
  BY <1>1
<1> QED
  BY <1>2, CalendarInvariant, PTL DEF Spec, StartedPhasesKept

-----------------------------------------------------------------------------
(***************************************************************************)
(* The protection of the past, of end dates and of the TLD.  The guards    *)
(* are evaluated at the load, the change happens at the write: as long as  *)
(* nothing falls in between, a pending write is still permitted (Checked). *)
(***************************************************************************)
\* The save of row over the row p.
Permitted(p, row) ==
    /\ EndsBefore(p, now) => row.ends = p.ends /\ row.policy = p.policy
    /\ row.ends # p.ends =>
          row.ends # NoEnd /\ row.ends >= now /\ row.ends >= p.starts

Checked(w) ==
    /\ w.op = "UpdatePhase" =>
          w.id \in DOMAIN phases /\ Permitted(phases[w.id], w.row)
    /\ w.op = "DeleteCharge" =>
          w.id \in DOMAIN phases /\ ~EndsBefore(phases[w.id], now)
    /\ w.op = "DeleteTLD" => GetCurrentPhases(Calendar, now) = {}
    /\ w.op = "UpdateTLD" =>
          /\ w.escrow => GetCurrentPhases(Calendar, now) = {}
          /\ w.loaded = phases

AllChecked == ~interleaved => \A p \in Procs : Checked(req[p])

\* EndPhase, UpdatePolicy and SetPremiumList change one field of a phase.
\* The end of an ended phase is not moved, because the new end would have to
\* be in the past, and its policy is refused by CanUpdate.
LEMMA EditsPermitted ==
    ASSUME IInv, NEW p \in Phase
    PROVE  /\ \A end \in Date : MayEndPhase(Calendar, p, end, now) =>
                 Permitted(p, [p EXCEPT !.ends = end])
           /\ \A policy \in Policies : CanUpdate(p, now) =>
                 Permitted(p, [p EXCEPT !.policy = policy])
           /\ \A list \in Lists \cup {NoList} : Permitted(p, [p EXCEPT !.list = list])
<1>1. now \in Nat /\ NoEnd \notin Date /\ Date \subseteq Nat
  BY PhaseAssumption DEF IInv, TypeOK, Date
<1>2. ASSUME NEW end \in Date, MayEndPhase(Calendar, p, end, now)
      PROVE  Permitted(p, [p EXCEPT !.ends = end])
  <2> DEFINE row == [p EXCEPT !.ends = end]
  <2>1. row.ends = end /\ row.policy = p.policy
    BY DEF Phase
  <2>2. end >= now /\ end >= p.starts /\ end # NoEnd
    BY <1>1, <1>2 DEF MayEndPhase, MaySetEnd
  <2>3. ~EndsBefore(p, now)
    BY <1>2 DEF MayEndPhase, MayMoveEnd, EndsBefore
  <2> HIDE DEF row
  <2> QED
    BY <2>1, <2>2, <2>3 DEF Permitted
<1>3. ASSUME NEW policy \in Policies, CanUpdate(p, now)
      PROVE  Permitted(p, [p EXCEPT !.policy = policy])
  BY <1>3 DEF Permitted, CanUpdate, Phase
<1>4. ASSUME NEW list
      PROVE  Permitted(p, [p EXCEPT !.list = list])
  BY DEF Permitted, Phase
<1> QED
  BY <1>2, <1>3, <1>4

\* What a handler prepares is permitted when it is prepared.
LEMMA LoadChecks ==
    ASSUME IInv, NEW p \in Procs, Load(p)
    PROVE  /\ Checked(req'[p])
           /\ \A q \in Procs \ {p} : req'[q] = req[q]
           /\ UNCHANGED <<now, tld, phases, charges>>
           /\ ~interleaved' => ~interleaved /\ \A q \in Procs : req[q] = Idle
<1>1. \A i \in DOMAIN phases : phases[i] \in Phase
  BY TableRows DEF IInv, TypeOK
<1>2. ASSUME NEW w, Begin(p, w)
      PROVE  req'[p] = w
  BY <1>2 DEF Begin, IInv, TypeOK
<1>3. ASSUME NEW i \in DOMAIN phases, NEW row,
             Begin(p, [op |-> "UpdatePhase", id |-> i, row |-> row]),
             Permitted(phases[i], row)
      PROVE  Checked(req'[p])
  BY <1>2, <1>3 DEF Checked
<1>4. ASSUME LoadDeleteTLD(p)
      PROVE  Checked(req'[p])
  <2>1. /\ req'[p] = [op |-> "DeleteTLD"]
        /\ GetCurrentPhases(Calendar, now) = {}
    BY <1>2, <1>4 DEF LoadDeleteTLD
  <2>2. ASSUME NEW w, w.op = "DeleteTLD"
        PROVE  Checked(w)
    BY <2>1, <2>2 DEF Checked
  <2> QED
    BY <2>1, <2>2
<1>5. ASSUME NEW value \in BOOLEAN, LoadSetAllowEscrowImport(p, value)
      PROVE  Checked(req'[p])
  BY <1>2, <1>5 DEF LoadSetAllowEscrowImport, MayToggle, Checked
<1>6. ASSUME NEW row \in NewPhases, LoadCreatePhase(p, row)
      PROVE  Checked(req'[p])
  BY <1>2, <1>6 DEF LoadCreatePhase, Checked
<1>7. ASSUME NEW n \in PhaseNames, NEW end \in Date, LoadEndPhase(p, n, end)
      PROVE  Checked(req'[p])
  BY <1>1, <1>3, <1>7, EditsPermitted DEF LoadEndPhase, Named
<1>8. ASSUME NEW n \in PhaseNames, LoadDeletePhase(p, n)
      PROVE  Checked(req'[p])
  BY <1>2, <1>8 DEF LoadDeletePhase, Checked
<1>9. ASSUME NEW n \in PhaseNames, NEW policy \in Policies,
             LoadUpdatePhasePolicy(p, n, policy)
      PROVE  Checked(req'[p])
  BY <1>1, <1>3, <1>9, EditsPermitted DEF LoadUpdatePhasePolicy
<1>10. ASSUME NEW n \in PhaseNames, NEW list \in Lists \cup {NoList},
              LoadSetPremiumList(p, n, list)
       PROVE  Checked(req'[p])
  BY <1>1, <1>3, <1>10, EditsPermitted DEF LoadSetPremiumList
<1>11. ASSUME NEW n \in PhaseNames, NEW charge \in Charges,
              LoadCreateCharge(p, n, charge) \/ LoadDeleteCharge(p, n, charge)
       PROVE  Checked(req'[p])
  <2>1. PICK i \in DOMAIN phases :
           \/ req'[p] = [op |-> "CreateCharge", id |-> i, charge |-> charge]
           \/ /\ req'[p] = [op |-> "DeleteCharge", id |-> i, charge |-> charge]
              /\ CanUpdate(phases[i], now)
    BY <1>2, <1>11 DEF LoadCreateCharge, LoadDeleteCharge
  <2> QED
    BY <2>1 DEF CanUpdate, Checked
<1>12. Checked(req'[p])
  BY <1>4, <1>5, <1>6, <1>7, <1>8, <1>9, <1>10, <1>11 DEF Load
<1>13. PICK w : Begin(p, w)
  BY LoadPrepares
<1> QED
  BY <1>12, <1>13 DEF Begin, Busy, IInv, TypeOK

\* As long as nothing is interleaved, every pending write is permitted.
LEMMA NextChecked == IInv /\ AllChecked /\ [Next]_vars => AllChecked'
<1> SUFFICES ASSUME IInv, AllChecked, [Next]_vars, ~interleaved'
             PROVE  \A p \in Procs : Checked(req[p])'
  BY DEF AllChecked
<1>1. ASSUME \A p \in Procs : req'[p] = Idle
      PROVE  \A p \in Procs : Checked(req[p])'
  BY <1>1 DEF Checked, Idle
<1>2. ASSUME NEW w, Checked(w), UNCHANGED <<now, phases>>
      PROVE  Checked(w)'
  BY <1>2 DEF Checked, Permitted, Calendar
<1>3. ASSUME NEW p \in Procs, Load(p)
      PROVE  \A q \in Procs : Checked(req[q])'
  <2>1. \A q \in Procs : q # p => req'[q] = Idle
    BY <1>3, LoadChecks
  <2>2. Checked(req[p])'
    BY <1>3, LoadChecks DEF Checked, Permitted, Calendar
  <2> QED
    BY <2>1, <2>2 DEF Checked, Idle
<1>4. ASSUME NEW p \in Procs, Write(p)
      PROVE  \A q \in Procs : Checked(req[q])'
  <2>1. req[p] # Idle /\ Finish(p)
    BY <1>4 DEF Write, DeleteTLD, UpdateTLD, CreatePhase, UpdatePhase, DeletePhase,
                CreateCharge, DeleteCharge, Fail, Idle
  <2>2. \A q \in Procs : req'[q] = Idle
    BY <2>1, FinishStep DEF IInv, Serial
  <2> QED
    BY <1>1, <2>2
<1>5. CASE CreateTLD \/ Tick \/ \E l \in Lists : CreateList(l) \/ DeleteList(l)
  <2>1. \A p \in Procs : req'[p] = Idle
    BY <1>5 DEF CreateTLD, Tick, CreateList, DeleteList, Between, Busy
  <2> QED
    BY <1>1, <2>1
<1>6. CASE UNCHANGED vars
  BY <1>6 DEF vars, AllChecked, Checked, Permitted, Calendar
<1> QED
  BY <1>3, <1>4, <1>5, <1>6 DEF Next

\* The invariant of the three theorems that follow.
LEMMA AlwaysChecked == Spec => [](IInv /\ AllChecked)
<1>1. Init => AllChecked
  BY DEF Init, AllChecked, Checked, Idle
<1> QED
  BY <1>1, NextChecked, CalendarInvariant, PTL DEF Spec
\* Every row that stays is the old one or the result of a permitted save, what
\* an ended phase costs stays, and a current phase keeps its TLD.
PermittedStep ==
    /\ \A i \in DOMAIN phases \cap DOMAIN phases' : Permitted(phases[i], phases'[i])
    /\ \A i \in DOMAIN phases \cap DOMAIN phases' :
          EndsBefore(phases[i], now) =>
             \A c \in charges : c[1] = i => c \in charges'
    /\ GetCurrentPhases(Calendar, now) # {} =>
          tld'.exists /\ (tld'.escrow => tld.escrow)

LEMMA WritesPermitted ==
    ASSUME IInv, AllChecked, ~interleaved, NEW p \in Procs, Write(p)
    PROVE  PermittedStep
<1>1. Checked(req[p])
  BY DEF AllChecked
<1>2. /\ tld.exists \in BOOLEAN
      /\ GetCurrentPhases(Calendar, now) # {} => tld.exists
  <2>1. GetCurrentPhases(Calendar, now) # {} => DOMAIN phases # {}
    BY DEF GetCurrentPhases, Calendar
  <2> QED
    BY <2>1 DEF IInv, TypeOK, ReferentialIntegrity
<1>3. CASE DeleteTLD(p)
  BY <1>1, <1>3 DEF DeleteTLD, Without, Checked, PermittedStep
<1>4. CASE UpdateTLD(p)
  <2>1. req[p].loaded = phases /\ (req[p].escrow => GetCurrentPhases(Calendar, now) = {})
    BY <1>1, <1>4 DEF UpdateTLD, Checked
  <2>2. \A i \in DOMAIN phases : phases'[i] = phases[i]
    BY <2>1, <1>4 DEF UpdateTLD
  <2>3. charges' = charges /\ tld' = [exists |-> TRUE, escrow |-> req[p].escrow]
    BY <1>4 DEF UpdateTLD
  <2> QED
    BY <2>1, <2>2, <2>3 DEF Permitted, PermittedStep
<1>5. CASE CreatePhase(p)
  <2>1. \A i \in DOMAIN phases : phases'[i] = phases[i]
    <3>1. lastId' \notin DOMAIN phases
      BY <1>5 DEF CreatePhase, IInv, IdsUsed, TypeOK
    <3> QED
      BY <3>1, <1>5 DEF CreatePhase
  <2>2. charges' = charges /\ tld' = tld
    BY <1>5 DEF CreatePhase
  <2> QED
    BY <1>2, <2>1, <2>2 DEF Permitted, PermittedStep
<1>6. CASE UpdatePhase(p)
  <2>1. /\ req[p].id \in DOMAIN phases
        /\ Permitted(phases[req[p].id], req[p].row)
    BY <1>1, <1>6 DEF UpdatePhase, Checked
  <2>2. \A i \in DOMAIN phases :
           phases'[i] = IF i = req[p].id THEN req[p].row ELSE phases[i]
    BY <1>6 DEF UpdatePhase
  <2>3. charges' = charges /\ tld' = tld
    BY <1>6 DEF UpdatePhase
  <2>4. \A q : Permitted(q, q)
    BY DEF Permitted
  <2> QED
    BY <1>2, <2>1, <2>2, <2>3, <2>4 DEF PermittedStep
<1>7. CASE DeletePhase(p)
  BY <1>2, <1>7 DEF DeletePhase, Without, ChargesWithout, Permitted, PermittedStep
<1>8. CASE DeleteCharge(p)
  BY <1>1, <1>2, <1>8 DEF DeleteCharge, Checked, Permitted, PermittedStep
<1>9. CASE CreateCharge(p) \/ Fail(p)
  BY <1>2, <1>9 DEF CreateCharge, Fail, Permitted, PermittedStep
<1> QED
  BY <1>3, <1>4, <1>5, <1>6, <1>7, <1>8, <1>9 DEF Write

LEMMA StepsPermitted == IInv /\ AllChecked /\ Next /\ ~interleaved' => PermittedStep
<1> SUFFICES ASSUME IInv, AllChecked, Next, ~interleaved'
             PROVE  PermittedStep
  OBVIOUS
<1>1. ASSUME phases' = phases, charges' = charges, tld' = tld \/ ~tld.exists
      PROVE  PermittedStep
  <2>1. GetCurrentPhases(Calendar, now) # {} => tld.exists
    BY DEF GetCurrentPhases, Calendar, IInv, ReferentialIntegrity
  <2> QED
    BY <1>1, <2>1 DEF Permitted, PermittedStep
<1>2. ASSUME NEW p \in Procs, Load(p)
      PROVE  PermittedStep
  BY <1>1, <1>2, LoadChecks
<1>3. ASSUME NEW p \in Procs, Write(p)
      PROVE  PermittedStep
  <2>1. interleaved' = interleaved
    BY <1>3 DEF Write, DeleteTLD, UpdateTLD, CreatePhase, UpdatePhase, DeletePhase,
                CreateCharge, DeleteCharge, Fail, Finish
  <2> QED
    BY <1>3, <2>1, WritesPermitted
<1>4. CASE CreateTLD
  BY <1>1, <1>4 DEF CreateTLD
<1>5. CASE Tick \/ \E l \in Lists : CreateList(l) \/ DeleteList(l)
  BY <1>1, <1>5 DEF Tick, CreateList, DeleteList
<1> QED
  BY <1>2, <1>3, <1>4, <1>5 DEF Next

\* As long as no step falls between the load and the write of a handler, the
\* end, the policy, the prices and the fees of an ended phase stay.
THEOREM HistoryFrozen == Spec => HistoricPhasesFrozen
<1> DEFINE Frozen ==
       ~interleaved' =>
          \A i \in DOMAIN phases \cap DOMAIN phases' :
             EndsBefore(phases[i], now) =>
                /\ phases'[i].ends = phases[i].ends
                /\ phases'[i].policy = phases[i].policy
                /\ \A c \in charges : c[1] = i => c \in charges'
<1>1. IInv /\ AllChecked /\ Next => Frozen
  BY StepsPermitted DEF PermittedStep, Permitted
<1>2. IInv /\ AllChecked /\ [Next]_vars => [Frozen]_vars
  BY <1>1
<1> QED
  BY <1>2, AlwaysChecked, PTL DEF Spec, HistoricPhasesFrozen

\* As long as no step falls between the load and the write of a handler, no
\* end date is taken back or moved into the past.
THEOREM EndsMoveForward == Spec => EndDatesMoveForward
<1> DEFINE Forward ==
       ~interleaved' =>
          \A i \in DOMAIN phases \cap DOMAIN phases' :
             phases'[i].ends # phases[i].ends =>
                /\ phases'[i].ends # NoEnd
                /\ phases'[i].ends >= now
                /\ phases'[i].ends >= phases[i].starts
<1>1. IInv /\ AllChecked /\ Next => Forward
  BY StepsPermitted DEF PermittedStep, Permitted
<1>2. IInv /\ AllChecked /\ [Next]_vars => [Forward]_vars
  BY <1>1
<1> QED
  BY <1>2, AlwaysChecked, PTL DEF Spec, EndDatesMoveForward

\* As long as no step falls between the load and the write of a handler, a
\* TLD with a current phase is neither deleted nor opened for an import.
THEOREM TldProtected == Spec => CurrentPhaseProtectsTld
<1> DEFINE Protected ==
       ~interleaved' /\ GetCurrentPhases(Calendar, now) # {} =>
          tld'.exists /\ (tld'.escrow => tld.escrow)
<1>1. IInv /\ AllChecked /\ Next => Protected
  BY StepsPermitted DEF PermittedStep
<1>2. IInv /\ AllChecked /\ [Next]_vars => [Protected]_vars
  BY <1>1
<1> QED
  BY <1>2, AlwaysChecked, PTL DEF Spec, CurrentPhaseProtectsTld
=============================================================================
