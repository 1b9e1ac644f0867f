---------------------------- MODULE MCTldPhases ----------------------------
(***************************************************************************)
(* A small instance of TldPhases for TLC: two names, so that a GA phase    *)
(* meets an earlier, a later and an equal one, with and without an end,    *)
(* and a launch phase.                                                     *)
(***************************************************************************)
EXTENDS TldPhases, TLC

CONSTANTS g1, g2, usd

Asked(n, type, starts, ends) ==
    {NewPhase(n, type, s, e) : s \in starts, e \in ends}

CalendarPhases ==
    Asked(g1, "GA", {1}, {NoEnd, 2})
    \cup Asked(g2, "GA", {1, 2}, {3}) \cup Asked(g2, "Launch", {1}, {NoEnd})

Edited(i) == phases[i].policy # NewPolicy \/ phases[i].list # NoList

\* Bounds on the states whose successors are explored: one phase at most is
\* edited or has a price; what follows an interleaving is explored up to
\* time 1, over the phases named g1.
Bounded ==
    /\ Cardinality({i \in DOMAIN phases : Edited(i)} \cup {c[1] : c \in charges})
          <= 1
    /\ interleaved =>
          now <= 1 /\ \A i \in DOMAIN phases : phases[i].name = g1

ProcSymmetry == Permutations(Procs)

MCCharges == {<<"price", usd>>}
=============================================================================
