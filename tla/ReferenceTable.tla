--------------------------- MODULE ReferenceTable ---------------------------
(***************************************************************************)
(* What the readers of a table of reference data (the IANA registrars, the *)
(* Specification 5 labels) may rely on: it is empty or holds exactly one   *)
(* of the lists that its source published, never a part or a mixture.      *)
(***************************************************************************)
CONSTANT Lists

VARIABLE contents

Init == contents \in {{}} \cup Lists

\* "deletes ...
Clear == contents' = {}

\* ... and recreates all": only an empty table is filled.
Fill ==
    /\ contents = {}
    /\ contents' \in Lists

Next == Clear \/ Fill

Spec == Init /\ [][Next]_contents
=============================================================================
