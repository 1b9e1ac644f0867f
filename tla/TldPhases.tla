----------------------------- MODULE TldPhases -----------------------------
(***************************************************************************)
(* The calendar of one TLD: the rows of its phases, their prices and fees, *)
(* the premium lists they name, and the endpoints that change them, each   *)
(* served by a process.  A handler loads rows, validates the change on     *)
(* what it loaded (PhaseEntity), and writes: Load and write are two steps, *)
(* no lock or transaction spans them, and the clock may tick in between    *)
(* (the validation reads the clock at the time of the load).  A request    *)
(* that is refused changes nothing and is left out.                        *)
(***************************************************************************)
EXTENDS PhaseEntity, FiniteSets

CONSTANTS
    Procs,        \* the processes that serve requests
    NewPhases,    \* the phases that POST /tlds/:tldName/phases may ask for
    Charges,      \* the keys of prices and of fees: <<table, key>>
    MaxId         \* bound: the number of phase rows ever inserted

ASSUME CalendarAssumption ==
    /\ MaxId \in Nat
    /\ NewPhases \subseteq
          {p \in Phase : p.list = NoList /\ p.policy = NewPolicy}

Ids == 1 .. MaxId

VARIABLES
    now,          \* the clock
    tld,          \* the row of the TLD: [exists, escrow]
    phases,       \* the phases table: the row of each id in its domain
    charges,      \* the phase_prices and phase_fees tables: <<id, charge>>
    lists,        \* the premium_lists table
    lastId,       \* the sequence that numbers the phases
    req,          \* the write each process is about to do, or Idle
    interleaved   \* observed: has any step fallen between Load and write?

vars == <<now, tld, phases, charges, lists, lastId, req, interleaved>>

NoTld == [exists |-> FALSE, escrow |-> FALSE]
Idle == [op |-> "idle"]

\* A phases table: the rows of some ids.
IsTable(t) == DOMAIN t \subseteq Ids /\ t \in [DOMAIN t -> Phase]

\* What a process may be about to write.
Pending ==
    {Idle, [op |-> "DeleteTLD"]}
    \cup [op : {"CreatePhase"}, row : NewPhases]
    \cup [op : {"UpdatePhase"}, id : Ids, row : Phase]
    \cup [op : {"DeletePhase"}, name : PhaseNames]
    \cup [op : {"CreateCharge", "DeleteCharge"}, id : Ids, charge : Charges]

IsUpdateTLD(w) ==
    /\ w.op = "UpdateTLD"
    /\ w = [op |-> "UpdateTLD", escrow |-> w.escrow, loaded |-> w.loaded]
    /\ w.escrow \in BOOLEAN
    /\ IsTable(w.loaded)

IsPending(w) == w \in Pending \/ IsUpdateTLD(w)

Calendar == {phases[i] : i \in DOMAIN phases}
Named(n) == {i \in DOMAIN phases : phases[i].name = n}

Init ==
    /\ now = 0
    /\ tld = NoTld
    /\ phases \in [{} -> Phase]
    /\ charges = {}
    /\ lists = {}
    /\ lastId = 0
    /\ req = [p \in Procs |-> Idle]
    /\ interleaved = FALSE

-----------------------------------------------------------------------------
(* Loads: what a handler does up to its write, and the write it goes for.  *)

Busy == \E q \in Procs : req[q] # Idle

Begin(p, write) ==
    /\ req[p] = Idle
    /\ req' = [req EXCEPT ![p] = write]
    /\ interleaved' = (interleaved \/ Busy)
    /\ UNCHANGED <<now, tld, phases, charges, lists, lastId>>

\* TLDRepository.GetByName, which preloads the phases.
TldLoaded == tld.exists

\* PhaseRepository.GetPhaseByTLDAndName.
PhaseLoaded(i, n) == i \in Named(n)

LoadDeleteTLD(p) ==
    /\ TldLoaded
    /\ GetCurrentPhases(Calendar, now) = {}
    /\ Begin(p, [op |-> "DeleteTLD"])

\* Mutant: the restriction is put on the wrong value.
MayToggleOff(value) == ~value => GetCurrentPhases(Calendar, now) = {}

\* ToggleAllowEscrowImport: nothing restricts setting it to false.
MayToggle(value) == value => GetCurrentPhases(Calendar, now) = {}

LoadSetAllowEscrowImport(p, value) ==
    /\ TldLoaded
    /\ MayToggle(value)
    /\ Begin(p, [op |-> "UpdateTLD", escrow |-> value, loaded |-> phases])

LoadCreatePhase(p, row) ==
    /\ TldLoaded
    /\ MayAddPhase(Calendar, row)
    /\ Begin(p, [op |-> "CreatePhase", row |-> row])

LoadEndPhase(p, n, end) ==
    /\ TldLoaded
    /\ \E i \in Named(n) :
          /\ MayEndPhase(Calendar, phases[i], end, now)
          /\ Begin(p, [op |-> "UpdatePhase", id |-> i,
                       row |-> [phases[i] EXCEPT !.ends = end]])

LoadDeletePhase(p, n) ==
    /\ TldLoaded
    /\ \E i \in Named(n) : MayDeletePhase(phases[i], now)
    /\ Begin(p, [op |-> "DeletePhase", name |-> n])

\* Mutant: the policy ends up in another column.
LoadUpdatePhasePolicyAsList(p, n, policy) ==
    \E i \in DOMAIN phases :
       /\ PhaseLoaded(i, n)
       /\ Begin(p, [op |-> "UpdatePhase", id |-> i,
                    row |-> [phases[i] EXCEPT !.list = policy]])

LoadUpdatePhasePolicy(p, n, policy) ==
    \E i \in DOMAIN phases :
       /\ PhaseLoaded(i, n)
       /\ CanUpdate(phases[i], now)
       /\ Begin(p, [op |-> "UpdatePhase", id |-> i,
                    row |-> [phases[i] EXCEPT !.policy = policy]])

\* SetPremiumList and UnSetPremiumList (list = NoList) ask for no CanUpdate.
LoadSetPremiumList(p, n, list) ==
    \E i \in DOMAIN phases :
       /\ PhaseLoaded(i, n)
       /\ Begin(p, [op |-> "UpdatePhase", id |-> i,
                    row |-> [phases[i] EXCEPT !.list = list]])

\* AddPrice and AddFee refuse a duplicate, at any time.
LoadCreateCharge(p, n, charge) ==
    \E i \in DOMAIN phases :
       /\ PhaseLoaded(i, n)
       /\ <<i, charge>> \notin charges
       /\ Begin(p, [op |-> "CreateCharge", id |-> i, charge |-> charge])

\* DeletePrice and DeleteFee refuse a phase that has ended.
LoadDeleteCharge(p, n, charge) ==
    \E i \in DOMAIN phases :
       /\ PhaseLoaded(i, n)
       /\ CanUpdate(phases[i], now)
       /\ Begin(p, [op |-> "DeleteCharge", id |-> i, charge |-> charge])

Load(p) ==
    \/ LoadDeleteTLD(p)
    \/ \E value \in BOOLEAN : LoadSetAllowEscrowImport(p, value)
    \/ \E row \in NewPhases : LoadCreatePhase(p, row)
    \/ \E n \in PhaseNames :
          \/ \E end \in Date : LoadEndPhase(p, n, end)
          \/ LoadDeletePhase(p, n)
          \/ \E policy \in Policies : LoadUpdatePhasePolicy(p, n, policy)
          \/ \E list \in Lists \cup {NoList} : LoadSetPremiumList(p, n, list)
          \/ \E charge \in Charges :
                LoadCreateCharge(p, n, charge) \/ LoadDeleteCharge(p, n, charge)

-----------------------------------------------------------------------------
(* Writes: one statement, or one transaction of GORM, each.                *)

Finish(p) ==
    /\ req' = [req EXCEPT ![p] = Idle]
    /\ UNCHANGED <<now, lists, interleaved>>

\* The constraints of the phases table: the foreign keys to the TLD and to
\* the premium list, the unique index on the name within the TLD.
MayStore(i, row) ==
    /\ tld.exists
    /\ row.list \in lists \cup {NoList}
    /\ \A j \in DOMAIN phases \ {i} : phases[j].name # row.name

Without(S) == [i \in DOMAIN phases \ S |-> phases[i]]
\* Mutant: the foreign key does not cascade.
ChargesKept(S) == charges

ChargesWithout(S) == {c \in charges : c[1] \notin S}

\* Deletes the row of the TLD, and by cascade its phases and their charges.
DeleteTLD(p) ==
    /\ req[p].op = "DeleteTLD"
    /\ tld' = NoTld
    /\ phases' = Without(DOMAIN phases)
    /\ charges' = {}
    /\ UNCHANGED lastId
    /\ Finish(p)

\* Save of the TLD with the phases it was loaded with: updates its row, or
\* inserts it if it is gone, and inserts those phases that are gone; a phase
\* that is there keeps its row.  The phases are written first, so that none
\* can be inserted while the row of the TLD is missing.
UpdateTLD(p) ==
    /\ req[p].op = "UpdateTLD"
    /\ LET r == req[p]
           gone == DOMAIN r.loaded \ DOMAIN phases
       IN /\ \A i \in gone : MayStore(i, r.loaded[i])
          /\ tld' = [exists |-> TRUE, escrow |-> r.escrow]
          /\ phases' = [i \in DOMAIN phases \cup gone |->
                           IF i \in gone THEN r.loaded[i] ELSE phases[i]]
    /\ UNCHANGED <<charges, lastId>>
    /\ Finish(p)

CreatePhase(p) ==
    /\ req[p].op = "CreatePhase"
    /\ lastId < MaxId
    /\ lastId' = lastId + 1
    /\ MayStore(lastId', req[p].row)
    /\ phases' = [i \in DOMAIN phases \cup {lastId'} |->
                     IF i = lastId' THEN req[p].row ELSE phases[i]]
    /\ UNCHANGED <<tld, charges>>
    /\ Finish(p)

\* Save of the whole row: updates the row with that id, or inserts it if it
\* is gone.
UpdatePhase(p) ==
    /\ req[p].op = "UpdatePhase"
    /\ LET r == req[p] IN
          /\ MayStore(r.id, r.row)
          /\ phases' = [i \in DOMAIN phases \cup {r.id} |->
                           IF i = r.id THEN r.row ELSE phases[i]]
    /\ UNCHANGED <<tld, charges, lastId>>
    /\ Finish(p)

\* Deletes by name: the row may be another one than the one validated.
DeletePhase(p) ==
    /\ req[p].op = "DeletePhase"
    /\ phases' = Without(Named(req[p].name))
    /\ charges' = ChargesWithout(Named(req[p].name))
    /\ UNCHANGED <<tld, lastId>>
    /\ Finish(p)

CreateCharge(p) ==
    /\ req[p].op = "CreateCharge"
    /\ req[p].id \in DOMAIN phases
    /\ <<req[p].id, req[p].charge>> \notin charges
    /\ charges' = charges \cup {<<req[p].id, req[p].charge>>}
    /\ UNCHANGED <<tld, phases, lastId>>
    /\ Finish(p)

DeleteCharge(p) ==
    /\ req[p].op = "DeleteCharge"
    /\ charges' = charges \ {<<req[p].id, req[p].charge>>}
    /\ UNCHANGED <<tld, phases, lastId>>
    /\ Finish(p)

\* The database refuses the write, or the request dies before it.
Fail(p) ==
    /\ req[p] # Idle
    /\ UNCHANGED <<tld, phases, charges, lastId>>
    /\ Finish(p)

Write(p) ==
    \/ DeleteTLD(p) \/ UpdateTLD(p)
    \/ CreatePhase(p) \/ UpdatePhase(p) \/ DeletePhase(p)
    \/ CreateCharge(p) \/ DeleteCharge(p)
    \/ Fail(p)

-----------------------------------------------------------------------------
(* Requests of a single statement, and the clock.                          *)

Between == interleaved' = (interleaved \/ Busy)

CreateTLD ==
    /\ ~tld.exists
    /\ tld' = [exists |-> TRUE, escrow |-> FALSE]
    /\ Between
    /\ UNCHANGED <<now, phases, charges, lists, lastId, req>>

CreateList(l) ==
    /\ l \notin lists
    /\ lists' = lists \cup {l}
    /\ Between
    /\ UNCHANGED <<now, tld, phases, charges, lastId, req>>

\* Refused by the foreign key of a phase that names the list.
DeleteList(l) ==
    /\ l \in lists
    /\ \A q \in Calendar : q.list # l
    /\ lists' = lists \ {l}
    /\ Between
    /\ UNCHANGED <<now, tld, phases, charges, lastId, req>>

Tick ==
    /\ now < Horizon
    /\ now' = now + 1
    /\ Between
    /\ UNCHANGED <<tld, phases, charges, lists, lastId, req>>

Next ==
    \/ \E p \in Procs : Load(p) \/ Write(p)
    \/ CreateTLD
    \/ \E l \in Lists : CreateList(l) \/ DeleteList(l)
    \/ Tick

Spec == Init /\ [][Next]_vars

-----------------------------------------------------------------------------
(***************************************************************************)
(* Properties.  Handlers do not exclude each other, and what one of them   *)
(* validated may no longer hold when it writes; interleaved tells the      *)
(* histories in which that may have happened.  What the validations are    *)
(* worth on their own is stated for the others.                            *)
(***************************************************************************)

\* Every variable has its type.
TypeOK ==
    /\ now \in Date
    /\ tld \in [exists : BOOLEAN, escrow : BOOLEAN]
    /\ IsTable(phases)
    /\ charges \subseteq Ids \X Charges
    /\ lists \subseteq Lists
    /\ lastId \in 0 .. MaxId
    /\ req = [p \in Procs |-> req[p]]
    /\ \A p \in Procs : IsPending(req[p])
    /\ interleaved \in BOOLEAN

\* In every interleaving, stale saves that insert deleted phases again
\* included: no phase without its TLD, no price or fee without its phase, no
\* phase that names a missing premium list, no two phases of one name.
ReferentialIntegrity ==
    /\ DOMAIN phases # {} => tld.exists
    /\ \A c \in charges : c[1] \in DOMAIN phases
    /\ \A i \in DOMAIN phases : phases[i].list \in lists \cup {NoList}
    /\ \A i, j \in DOMAIN phases : phases[i].name = phases[j].name => i = j

\* Two phases that both are in force at some time between two dates.
NotEmpty(p) == p.ends = NoEnd \/ p.starts < p.ends
StartsBeforeEnd(p, q) == q.ends = NoEnd \/ p.starts < q.ends
Intersect(p, q) ==
    NotEmpty(p) /\ NotEmpty(q) /\ StartsBeforeEnd(p, q) /\ StartsBeforeEnd(q, p)

Clash(p, q) ==
    p.type = "GA" /\ q.type = "GA" /\ p.starts # q.starts /\ Intersect(p, q)

Disjoint(rows) ==
    \A i, j \in DOMAIN rows : i # j => ~Clash(rows[i], rows[j])

\* GA phases that start at different times do not intersect, whatever
\* sequence of creations, endings, changes of an end and saves of other
\* fields led here: GetCurrentGAPhase has one answer.  (OverlapsWith misses
\* the overlap of two phases with the same start.)
GAPhasesDisjoint == ~interleaved => Disjoint(phases)

\* "We keep current and historic phases for traceability": a phase that has
\* started leaves its TLD only with the TLD.
StartedPhasesKept ==
    [][~interleaved' /\ tld'.exists =>
          \A i \in DOMAIN phases :
             phases[i].starts < now => i \in DOMAIN phases']_vars

\* "Changing the past can have consequences in the present": the end date
\* and the policy of a phase that has ended stay, and so do its prices and
\* its fees, as long as the phase is there.
HistoricPhasesFrozen ==
    [][~interleaved' =>
          \A i \in DOMAIN phases \cap DOMAIN phases' :
             EndsBefore(phases[i], now) =>
                /\ phases'[i].ends = phases[i].ends
                /\ phases'[i].policy = phases[i].policy
                /\ \A c \in charges : c[1] = i => c \in charges']_vars

\* An end date is never taken back, and is moved only to a time that is
\* neither past nor before the start of the phase.
EndDatesMoveForward ==
    [][~interleaved' =>
          \A i \in DOMAIN phases \cap DOMAIN phases' :
             phases'[i].ends # phases[i].ends =>
                /\ phases'[i].ends # NoEnd
                /\ phases'[i].ends >= now
                /\ phases'[i].ends >= phases[i].starts]_vars

\* While some phase is current, its TLD is not deleted and not opened for an
\* escrow import.
CurrentPhaseProtectsTld ==
    [][~interleaved' /\ GetCurrentPhases(Calendar, now) # {} =>
          tld'.exists /\ (tld'.escrow => tld.escrow)]_vars
=============================================================================
