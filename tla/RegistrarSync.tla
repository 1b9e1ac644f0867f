--------------------------- MODULE RegistrarSync ---------------------------
(***************************************************************************)
(* SyncRegistrarsWorkflow, which a schedule starts every day: it refreshes *)
(* the table of the IANA registrars, counts the registrars, lists the IANA *)
(* registrars page by page and creates registrars from the list.  Each     *)
(* call is an activity that is attempted SyncAttempts times; an attempt    *)
(* that timed out leaves its request running.                              *)
(*                                                                         *)
(* GetIANARegistrars cannot succeed: the cursor of the endpoint is set on  *)
(* every page that has a row, so that the last page has none, its Data is  *)
(* null and the type assertion fails.  What the workflow does with a list  *)
(* it got is therefore not modelled: no execution reaches it.              *)
(***************************************************************************)
EXTENDS TableRefresh, Paging

CONSTANTS SyncAttempts,     \* of the retry policy; 3 in the code
          BatchSize,        \* page size of the first page; 100 in the code
          DefaultPageSize,  \* of the next ones, whose URL has none; 25
          Reserved          \* IANA registrars that are not created

Attempts == 1 .. SyncAttempts

ASSUME SyncAssumption ==
    /\ SyncAttempts \in Nat \ {0}
    /\ Attempts \subseteq Refreshes  \* attempt a of SyncIana runs request a

VARIABLES
    registrars,  \* the registrars of the platform, by IANA number
    sync         \* the workflow: step, attempt, next page, list, first import

syncVars == <<current, table, refresh, registrars, sync>>

SyncSteps == {"idle", "sync", "count", "list", "create", "done", "failed"}

FirstRequest == [after |-> NoCursor, size |-> BatchSize]

SyncInit ==
    /\ RefreshInit
    /\ registrars = {}
    /\ sync = [step |-> "idle", attempt |-> 1, page |-> FirstRequest,
               list |-> {}, first |-> FALSE]

\* POST /registrars by an administrator.
AdminCreates(k) ==
    /\ k \notin registrars
    /\ registrars' = registrars \cup {k}
    /\ UNCHANGED <<current, table, refresh, sync>>

Activity(step) ==
    sync' = [sync EXCEPT !.step = step, !.attempt = 1, !.page = FirstRequest]

\* The schedule starts the next run when the last one has ended.
StartSync ==
    /\ sync.step \in {"idle", "done", "failed"}
    /\ Requested(1)
    /\ Activity("sync")
    /\ UNCHANGED registrars

\* The attempt's answer; its request is over.
SyncIana ==
    /\ sync.step = "sync"
    /\ InState(sync.attempt, "ok")
    /\ refresh' = [refresh EXCEPT ![sync.attempt] = NoRequest]
    /\ Activity("count")
    /\ UNCHANGED <<current, table, registrars>>

\* StartToCloseTimeout or an error: the next attempt, whose number is free.
SyncIanaAgain ==
    /\ sync.step = "sync"
    /\ refresh[sync.attempt].state # "ok"
    /\ sync.attempt < SyncAttempts
    /\ Requested(sync.attempt + 1)
    /\ sync' = [sync EXCEPT !.attempt = @ + 1]
    /\ UNCHANGED registrars

SyncIanaFails ==
    /\ sync.step = "sync"
    /\ refresh[sync.attempt].state # "ok"
    /\ sync.attempt = SyncAttempts
    /\ Activity("failed")
    /\ UNCHANGED <<current, table, refresh, registrars>>

\* CountRegistrars; its failure ends the run.
CountRegistrars ==
    /\ sync.step = "count"
    /\ sync' \in {[sync EXCEPT !.step = "list", !.first = registrars = {}],
                  [sync EXCEPT !.step = "failed"]}
    /\ UNCHANGED <<current, table, refresh, registrars>>

SyncPage == IANARegistrarsPage(table, [after |-> sync.page.after,
                                       size |-> sync.page.size,
                                       wanted |-> table])

\* GetIANARegistrars reads on while a page has rows, with the cursor only.
GetIANARegistrars ==
    /\ sync.step = "list"
    /\ SyncPage.keys # {}
    /\ sync' = [sync EXCEPT !.page = [after |-> SyncPage.cursor,
                                      size |-> DefaultPageSize]]
    /\ UNCHANGED <<current, table, refresh, registrars>>

\* After the failure of the activity: the first import goes on with the list
\* it has, an empty one; any other run returns the error.
Unlisted == IF sync.first THEN "create" ELSE "failed"

\* Mutant: no limit on the attempts.
ListAgainForever ==
    [sync EXCEPT !.page = FirstRequest,
                 !.attempt = IF @ < SyncAttempts THEN @ + 1 ELSE @]

ListAgain ==
    IF sync.attempt < SyncAttempts
    THEN [sync EXCEPT !.page = FirstRequest, !.attempt = @ + 1]
    ELSE [sync EXCEPT !.page = FirstRequest, !.step = Unlisted]

\* "unexpected data type in response": on the page after the last row.
NullPage ==
    /\ sync.step = "list"
    /\ SyncPage.keys = {}
    /\ sync' = ListAgain
    /\ UNCHANGED <<current, table, refresh, registrars>>

\* The page cannot be fetched.
PageLost ==
    /\ sync.step = "list"
    /\ sync' = ListAgain
    /\ UNCHANGED <<current, table, refresh, registrars>>

\* GetCreateCommands makes a command of every registrar of the list that is
\* not reserved; the rows of the CSV file only add details to them.
CreateCommands(list) == list \ Reserved

BulkCreateRegistrars ==
    /\ sync.step = "create"
    /\ registrars' = registrars \cup CreateCommands(sync.list)
    /\ Activity("done")
    /\ UNCHANGED <<current, table, refresh>>

SyncStep ==
    \/ SyncIana \/ SyncIanaAgain \/ SyncIanaFails
    \/ CountRegistrars \/ GetIANARegistrars \/ NullPage \/ PageLost
    \/ BulkCreateRegistrars

RequestStep(r) == Work(r) /\ UNCHANGED <<registrars, sync>>

\* Requests the workflow does not wait for (any more).
Unawaited(r) == sync.step # "sync" \/ r # sync.attempt

RequestOver(r) ==
    /\ Unawaited(r)
    /\ Answered(r)
    /\ UNCHANGED <<registrars, sync>>

AdminCalls(r) == r \notin Attempts /\ Requested(r) /\ UNCHANGED <<registrars, sync>>

SyncNext ==
    \/ StartSync
    \/ SyncStep
    \/ \E r \in Refreshes :
         RequestStep(r) \/ RequestOver(r) \/ AdminCalls(r)
           \/ (RequestDies(r) /\ UNCHANGED <<registrars, sync>>)
    \/ Publish /\ UNCHANGED <<registrars, sync>>
    \/ \E k \in Published[1] : AdminCreates(k)

\* Temporal runs a workflow to its end; requests in progress go on.
SyncFairness ==
    /\ WF_syncVars(SyncStep)
    /\ \A r \in Refreshes : WF_syncVars(RequestStep(r)) /\ WF_syncVars(RequestOver(r))

-----------------------------------------------------------------------------
SyncTypeOK ==
    /\ RefreshTypeOK
    /\ registrars \subseteq UNION {Published[i] : i \in DOMAIN Published}
    /\ sync.step \in SyncSteps
    /\ sync.attempt \in Attempts
    /\ sync.page.after \in {NoCursor} \cup UNION {Published[i] : i \in DOMAIN Published}
    /\ sync.page.size \in {BatchSize, DefaultPageSize}
    /\ sync.list = {}
    /\ sync.first \in BOOLEAN

\* Every run of the workflow comes to its end, though the list that it reads
\* changes, requests time out, die or overlap, and lists cannot be read.
SyncEnds == sync.step = "sync" ~> sync.step \in {"done", "failed"}

\* "the processes that are required to keep registrars in-sync with IANA and
\* ICANN": a run that ends without an error, and without a refresh that is
\* still under way, has created the registrars that the table lists.
SyncedWhenDone ==
    [][sync.step = "create" /\ sync'.step = "done"
         /\ (\A r \in Refreshes : refresh[r] = NoRequest)
       => CreateCommands(table) \subseteq registrars']_syncVars
=============================================================================
