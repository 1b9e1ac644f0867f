---------------------------- MODULE TableRefresh ----------------------------
(***************************************************************************)
(* RefreshIANARegistrars (and RefreshSpec5Labels, its twin): the list is   *)
(* downloaded, the table is emptied by one statement and filled by another,*)
(* with no transaction around them.  Refreshes run concurrently, because   *)
(* an activity that timed out is executed again while its request goes on, *)
(* and because the endpoint is open to the administrators.  A request may  *)
(* die between its steps.                                                  *)
(***************************************************************************)
EXTENDS Integers, FiniteSets, Sequences

CONSTANTS Refreshes,  \* requests that refresh the table
          Published   \* the lists that the source publishes one after another

ASSUME PublishedAssumption ==
    /\ Published \in Seq(SUBSET Nat)
    /\ Published # << >>
    /\ \A i \in DOMAIN Published : IsFiniteSet(Published[i])
    \* A new list keeps entries of the one before: registrars stay listed when
    \* they are terminated, and the reserved names are never withdrawn.
    /\ \A i, j \in DOMAIN Published : Published[i] \cap Published[j] # {}

VARIABLES
    current,  \* the number of the list the source answers with
    table,    \* the keys in the table
    refresh   \* the state of each request: "idle", "called", "fetched",
              \* "cleared", "ok", "error"; and the list that it downloaded

refreshVars == <<current, table, refresh>>

NoRequest == [state |-> "idle", list |-> {}]

RefreshInit ==
    /\ current = 1
    /\ table = {}
    /\ refresh = [r \in Refreshes |-> NoRequest]

Publish ==
    /\ current < Len(Published)
    /\ current' = current + 1
    /\ UNCHANGED <<table, refresh>>

InState(r, state) == refresh[r].state = state
Goes(r, state) == refresh' = [refresh EXCEPT ![r].state = state]

\* PUT /sync/iana-registrars.
Requested(r) ==
    /\ InState(r, "idle")
    /\ Goes(r, "called")
    /\ UNCHANGED <<current, table>>

\* ListRegistrars: the status of the answer is not looked at, so that a
\* document of another kind is a list with no records.
Fetch(r) ==
    /\ InState(r, "called")
    /\ refresh' \in {[refresh EXCEPT ![r] = [state |-> "fetched", list |-> L]]
                       : L \in {Published[current], {}}}
    /\ UNCHANGED <<current, table>>

FetchFails(r) ==
    /\ InState(r, "called")
    /\ Goes(r, "error")
    /\ UNCHANGED <<current, table>>

\* DELETE FROM iana_registrars.
Clear(r) ==
    /\ InState(r, "fetched")
    /\ Goes(r, "cleared")
    /\ table' = {}
    /\ UNCHANGED current

\* Mutant: rows that are there already are skipped.
InsertMissing(r) ==
    /\ InState(r, "cleared")
    /\ refresh[r].list # {}
    /\ Goes(r, "ok")
    /\ table' = table \cup refresh[r].list
    /\ UNCHANGED current

\* One INSERT of all rows, which fails as a whole on a duplicate key; gorm
\* refuses an empty slice.
Insert(r) ==
    /\ InState(r, "cleared")
    /\ refresh[r].list # {}
    /\ refresh[r].list \cap table = {}
    /\ Goes(r, "ok")
    /\ table' = table \cup refresh[r].list
    /\ UNCHANGED current

InsertFails(r) ==
    /\ InState(r, "cleared")
    /\ refresh[r].list = {} \/ refresh[r].list \cap table # {}
    /\ Goes(r, "error")
    /\ UNCHANGED <<current, table>>

\* The process, or its connection to the database, dies.
RequestDies(r) ==
    /\ refresh[r].state \in {"called", "fetched", "cleared"}
    /\ Goes(r, "error")
    /\ UNCHANGED <<current, table>>

Work(r) == Fetch(r) \/ FetchFails(r) \/ Clear(r) \/ Insert(r) \/ InsertFails(r)

\* A request that has been answered makes room for a new one.
Answered(r) ==
    /\ refresh[r].state \in {"ok", "error"}
    /\ refresh' = [refresh EXCEPT ![r] = NoRequest]
    /\ UNCHANGED <<current, table>>

RefreshNext ==
    Publish \/ \E r \in Refreshes : Requested(r) \/ Work(r) \/ RequestDies(r) \/ Answered(r)

RefreshSpec == RefreshInit /\ [][RefreshNext]_refreshVars

-----------------------------------------------------------------------------
RefreshTypeOK ==
    /\ current \in DOMAIN Published
    /\ table \in SUBSET UNION {Published[i] : i \in DOMAIN Published}
    /\ refresh \in [Refreshes ->
         [state : {"idle", "called", "fetched", "cleared", "ok", "error"},
          list : {{}} \cup {Published[i] : i \in DOMAIN Published}]]

\* RefreshIANARegistrars "deletes and recreates all IANARegistrars": however
\* refreshes overlap, fail or die, readers find one published list or none.
Promise == INSTANCE ReferenceTable
             WITH contents <- table,
                  Lists <- {Published[i] : i \in DOMAIN Published}

TableIsOneList == Promise!Spec
=============================================================================
