---------------------------- MODULE PhaseEntity ----------------------------
(***************************************************************************)
(* The Phase and TLD entities: a TLD is sold in phases, at most one of     *)
(* which is meant to be a current GA (general availability) phase.  The    *)
(* operators are the validations of internal/domain/entities/phase.go and  *)
(* tld.go; a calendar is the set of the phases a TLD was loaded with, and  *)
(* now the time.Now() of the validation.                                   *)
(***************************************************************************)
EXTENDS Naturals

CONSTANTS
    PhaseNames,   \* the phase names, ClIDType in the code
    Lists,        \* the names of premium lists
    NoList,       \* a phase without a premium list
    Policies,     \* the values of the phase policy
    NewPolicy,    \* the policy a phase is created with
    NoEnd,        \* Ends == nil
    Horizon       \* bound: the last date

Date == 0 .. Horizon

ASSUME PhaseAssumption ==
    /\ Horizon \in Nat
    /\ NoEnd \notin Date
    /\ NoList \notin Lists
    /\ NewPolicy \in Policies

Phase == [name : PhaseNames, type : {"GA", "Launch"}, starts : Date,
          ends : Date \cup {NoEnd}, list : Lists \cup {NoList},
          policy : Policies]

\* The phase NewPhase returns, with the end date CreatePhase puts in it.
NewPhase(name, type, starts, ends) ==
    [name |-> name, type |-> type, starts |-> starts, ends |-> ends,
     list |-> NoList, policy |-> NewPolicy]

EndsBefore(p, date) == p.ends # NoEnd /\ p.ends < date

IsCurrentlyActive(p, now) ==
    p.starts < now /\ (p.ends = NoEnd \/ p.ends > now)

\* Mutant: looks at the start instead of the end.
CanUpdateStarted(p, now) == p.starts <= now

CanUpdate(p, now) == ~EndsBefore(p, now)

\* p has no end date and o has one.
OpenOverlap(p, o) ==
    /\ p.ends = NoEnd /\ o.ends # NoEnd
    /\ o.starts > p.starts \/ o.ends >= p.starts

\* Both have an end date, and p starts first.
FirstOverlap(p, o) ==
    /\ p.ends # NoEnd /\ o.ends # NoEnd
    /\ p.starts < o.starts /\ p.ends >= o.starts

\* Mutant: no overlap with an ended phase that starts first.
OverlapsWithLater(p, o) ==
    \/ p.ends = NoEnd /\ o.ends = NoEnd
    \/ OpenOverlap(p, o)  \/ OpenOverlap(o, p)
    \/ FirstOverlap(p, o)

OverlapsWith(p, o) ==
    \/ p.ends = NoEnd /\ o.ends = NoEnd
    \/ OpenOverlap(p, o)  \/ OpenOverlap(o, p)
    \/ FirstOverlap(p, o) \/ FirstOverlap(o, p)

GAPhases(calendar) == {p \in calendar : p.type = "GA"}

GetCurrentPhases(calendar, now) ==
    {p \in calendar : IsCurrentlyActive(p, now)}

\* AddPhase: no phase of that name, and for a GA phase no overlap with
\* another one; launch phases may overlap with anything.
MayAddPhase(calendar, p) ==
    /\ \A o \in calendar : o.name # p.name
    /\ p.type = "GA" => \A o \in GAPhases(calendar) : ~OverlapsWith(p, o)

\* Mutant: the end may be in the past.
MaySetEndAfterStart(p, end, now) == end >= p.starts

\* SetEnd.
MaySetEnd(p, end, now) == end >= p.starts /\ end >= now

\* checkPhaseEndUpdate, for a phase that has an end date.
MayMoveEnd(calendar, p, end, now) ==
    /\ end >= now /\ end >= p.starts
    /\ ~EndsBefore(p, now)
    /\ p.type = "GA" =>
          \A o \in GAPhases(calendar) :
             o.name = p.name \/ EndsBefore(o, now) \/ o.starts >= end

\* TLD.EndPhase: only the change of an end date is checked against the
\* calendar, the first one is not.
MayEndPhase(calendar, p, end, now) ==
    /\ p.ends # NoEnd => MayMoveEnd(calendar, p, end, now)
    /\ MaySetEnd(p, end, now)

\* Mutant: only the current phase is protected.
MayDeletePhaseNotCurrent(p, now) == ~IsCurrentlyActive(p, now)

\* TLD.DeletePhase: "cannot delete the current phase", then "cannot delete a
\* historic phase".
MayDeletePhase(p, now) == ~IsCurrentlyActive(p, now) /\ p.starts >= now
=============================================================================
