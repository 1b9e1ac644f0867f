------------------------- MODULE LifecycleWorkflows -------------------------
(***************************************************************************)
(* The Temporal workflows that drive the life cycle of the domains:        *)
(* ExpiryLoop, PurgeLoop and RestoreWorkflow.  A schedule starts each of   *)
(* them again and again; a run lists the domains it has to work on and     *)
(* then, one domain after the other, executes activities, which are HTTP   *)
(* requests to the domain API.  Temporal retries an activity that fails    *)
(* or takes too long up to MaximumAttempts times.  It cannot recall the    *)
(* request of an attempt it gave up: the API may still serve it while the  *)
(* next attempt runs.                                                      *)
(*                                                                         *)
(* The API is module DomainRequests; its Workers serve the requests of the *)
(* activities, and its other processes serve the clients'.                 *)
(***************************************************************************)
EXTENDS DomainRequests

CONSTANTS
    MaximumAttempts,  \* of the retry policy of the activities; 3 in the code
    MaxFailures,      \* bound: failed requests and lost or late responses
    MaxCalls          \* bound: the number of requests of clients

ASSUME WorkflowsAssumption ==
    /\ MaximumAttempts \in Nat \ {0}
    /\ MaxFailures \in Nat
    /\ MaxCalls \in Nat

Workflows == {"ExpiryLoop", "PurgeLoop", "RestoreWorkflow"}

VARIABLES
    wf,        \* the state of each workflow
    failures,  \* how many failures there have been
    calls      \* how many requests the clients have sent

allVars == <<vars, wf, failures, calls>>

(***************************************************************************)
(* step is the activity being executed, or "asleep" between two runs and   *)
(* "next" between two domains.  item is the domain at hand as it was       *)
(* listed, todo the items that are left, proc the processes that serve the *)
(* current attempt (none or one).                                          *)
(***************************************************************************)
Calls == {"AutoRenewDomain", "ExpireDomain", "PurgeDomain",
          "UnSetDomainStatus", "RenewDomain"}
Steps == {"asleep", "next", "CheckDomainCanAutoRenew", "SetDomainStatus"} \cup Calls

Item == [name : Names, clid : Registrars]
NoItem == [name |-> NoCommand.name, clid |-> NoCommand.clid]

Workflow ==
    [step : Steps, todo : SUBSET Item, item : Item,
     attempt : 1 .. MaximumAttempts, proc : SUBSET Workers]

AtStep(step, todo, item) ==
    [step |-> step, todo |-> todo, item |-> item, attempt |-> 1, proc |-> {}]

WorkflowsInit ==
    /\ Init
    /\ wf = [w \in Workflows |-> AtStep("asleep", {}, NoItem)]
    /\ failures = 0
    /\ calls = 0

-----------------------------------------------------------------------------
(* What the workflows list.                                                *)

\* ListExpiringDomains with the current time.
Expiring(n) ==
    /\ Exists(n)
    /\ db[n].expiry < clock
    /\ db[n].status \cap {"pendingDelete", "pendingRenew", "pendingRestore"} = {}

\* ListPurgeableDomains; a zero purge date is left out.
Purgeable(n) ==
    /\ Exists(n)
    /\ db[n].purge # 0 /\ db[n].purge <= clock
    /\ "pendingDelete" \in db[n].status

\* ListRestoredDomains.
Restored(n) == Exists(n) /\ "pendingRestore" \in db[n].status

Listed(w, n) ==
    CASE w = "ExpiryLoop"      -> Expiring(n)
      [] w = "PurgeLoop"       -> Purgeable(n)
      [] w = "RestoreWorkflow" -> Restored(n)

\* Mutant: RestoreWorkflow renews without unsetting the status.
FirstStepRenews(w) ==
    CASE w = "ExpiryLoop"      -> "CheckDomainCanAutoRenew"
      [] w = "PurgeLoop"       -> "PurgeDomain"
      [] w = "RestoreWorkflow" -> "RenewDomain"

FirstStep(w) ==
    CASE w = "ExpiryLoop"      -> "CheckDomainCanAutoRenew"
      [] w = "PurgeLoop"       -> "PurgeDomain"
      [] w = "RestoreWorkflow" -> "UnSetDomainStatus"

-----------------------------------------------------------------------------
(* The workflows.                                                          *)

Advance(w, step) ==
    wf' = [wf EXCEPT ![w] = AtStep(step, wf[w].todo,
                                   IF step = "next" THEN NoItem ELSE wf[w].item)]

\* The schedule starts a run when the previous one is over.
Start(w) ==
    /\ wf[w].step = "asleep"
    /\ \E n \in Names : Listed(w, n)
    /\ wf' = [wf EXCEPT ![w] =
                AtStep("next", {[name |-> n, clid |-> db[n].clid] :
                                  n \in {m \in Names : Listed(w, m)}}, NoItem)]
    /\ UNCHANGED <<vars, failures, calls>>

NextDomain(w) ==
    /\ wf[w].step = "next"
    /\ \E item \in wf[w].todo :
         wf' = [wf EXCEPT ![w] =
                  AtStep(FirstStep(w), wf[w].todo \ {item}, item)]
    /\ UNCHANGED <<vars, failures, calls>>

Finish(w) ==
    /\ wf[w].step = "next"
    /\ wf[w].todo = {}
    /\ Advance(w, "asleep")
    /\ UNCHANGED <<vars, failures, calls>>

\* What the workflow does when an activity has succeeded, or failed for good.
\* RestoreWorkflow ignores that it could not unset the status.
Continue(w, ok) ==
    LET step == wf[w].step
    IN  Advance(w, CASE step = "UnSetDomainStatus"      -> "RenewDomain"
                     [] step = "RenewDomain" /\ ~ok     -> "SetDomainStatus"
                     [] OTHER                           -> "next")

\* Mutant: one attempt more.
RetryOnceMore(w) ==
    IF wf[w].attempt <= MaximumAttempts
    THEN wf' = [wf EXCEPT ![w].attempt = @ + 1, ![w].proc = {}]
    ELSE Continue(w, FALSE)

RetryOrContinue(w) ==
    IF wf[w].attempt < MaximumAttempts
    THEN wf' = [wf EXCEPT ![w].attempt = @ + 1, ![w].proc = {}]
    ELSE Continue(w, FALSE)

\* A read of the API: renewal by the registry if the status, the GA phase and
\* the registrar allow it, expiry otherwise, an error if there is no domain.
CanAutoRenew(d) == CanBeRenewed(d) /\ AllowAutoRenew /\ d.clid \in AutoRenewRars

\* Mutant: a domain that is not renewed is passed over.
CheckOrPass(w) ==
    LET n == wf[w].item.name
    IN  /\ wf[w].step = "CheckDomainCanAutoRenew"
        /\ \/ Exists(n) /\ CanAutoRenew(db[n]) /\ Advance(w, "AutoRenewDomain")
           \/ Exists(n) /\ ~CanAutoRenew(db[n]) /\ Advance(w, "next")
           \/ ~Exists(n) /\ RetryOrContinue(w)
        /\ UNCHANGED <<vars, failures, calls>>

CheckDomainCanAutoRenew(w) ==
    LET n == wf[w].item.name
    IN  /\ wf[w].step = "CheckDomainCanAutoRenew"
        /\ \/ Exists(n) /\ CanAutoRenew(db[n]) /\ Advance(w, "AutoRenewDomain")
           \/ Exists(n) /\ ~CanAutoRenew(db[n]) /\ Advance(w, "ExpireDomain")
           \/ ~Exists(n) /\ RetryOrContinue(w)
        /\ UNCHANGED <<vars, failures, calls>>

\* The request of each activity.  The renewal of a restored domain is forced
\* and names the registrar the domain was listed with.
Call(w) ==
    LET c == [NoCommand EXCEPT !.name = wf[w].item.name]
    IN  CASE wf[w].step = "AutoRenewDomain" ->
               [c EXCEPT !.op = "AutoRenewDomain", !.years = 1]
          [] wf[w].step = "ExpireDomain" -> [c EXCEPT !.op = "ExpireDomain"]
          [] wf[w].step = "PurgeDomain"  -> [c EXCEPT !.op = "PurgeDomain"]
          [] wf[w].step = "UnSetDomainStatus" ->
               [c EXCEPT !.op = "UnSetStatus", !.flag = "pendingRestore"]
          [] wf[w].step = "RenewDomain" ->
               [c EXCEPT !.op = "RenewDomain", !.clid = wf[w].item.clid,
                         !.years = 1, !.toggle = TRUE]

\* Any free worker will do: they are all alike.
Free == {p \in Workers : req[p] = IdleWith("none")}

Attempt(w) ==
    LET p == CHOOSE q \in Free : TRUE
    IN  /\ wf[w].step \in Calls
        /\ wf[w].proc = {}
        /\ Free # {}
        /\ LoadDomain(p, Call(w)) \/ DomainNotFound(p, Call(w))
        /\ wf' = [wf EXCEPT ![w].proc = {p}]
        /\ UNCHANGED <<failures, calls>>

Return(w) ==
    /\ \E p \in wf[w].proc :
         /\ req[p].res # "none"
         /\ req' = [req EXCEPT ![p] = IdleWith("none")]
         /\ IF req[p].res = "ok" THEN Continue(w, TRUE) ELSE RetryOrContinue(w)
    /\ UNCHANGED <<clock, db, links, linked, nndn, nextRoid, edited,
                   failures, calls>>

\* The attempt takes longer than its StartToCloseTimeout, or its response is
\* lost; the request itself goes on.
Lose(w) ==
    /\ wf[w].proc # {}
    /\ failures < MaxFailures
    /\ failures' = failures + 1
    /\ RetryOrContinue(w)
    /\ UNCHANGED <<vars, calls>>

\* A response nobody waits for.
Forget(p) ==
    /\ req[p].res # "none"
    /\ \A w \in Workflows : p \notin wf[w].proc
    /\ req' = [req EXCEPT ![p] = IdleWith("none")]
    /\ UNCHANGED <<clock, db, links, linked, nndn, nextRoid, edited, wf,
                   failures, calls>>

\* The activity that would mark the domain for another try is not registered
\* with the worker, so that every attempt fails without a request.
SetDomainStatusFails(w) ==
    /\ wf[w].step = "SetDomainStatus"
    /\ Continue(w, FALSE)
    /\ UNCHANGED <<vars, failures, calls>>

Work(w) ==
    \/ Start(w)
    \/ NextDomain(w)
    \/ Finish(w)
    \/ CheckDomainCanAutoRenew(w)
    \/ Attempt(w)
    \/ Return(w)
    \/ SetDomainStatusFails(w)

-----------------------------------------------------------------------------
(* The API and its clients.                                                *)

Clients == Procs \ Workers

ClientCall(p) ==
    /\ calls < MaxCalls
    /\ Accept(p)
    /\ calls' = calls + 1
    /\ UNCHANGED <<wf, failures>>

ServeRequest(p) == Serve(p) /\ UNCHANGED <<wf, failures, calls>>

RequestFails(p) ==
    /\ failures < MaxFailures
    /\ Abort(p)
    /\ failures' = failures + 1
    /\ UNCHANGED <<wf, calls>>

TimePasses == Tick /\ UNCHANGED <<wf, failures, calls>>

WorkflowsNext ==
    \/ TimePasses
    \/ \E w \in Workflows : Work(w) \/ Lose(w)
    \/ \E p \in Workers : Forget(p)
    \/ \E p \in Clients : ClientCall(p)
    \/ \E p \in Procs : ServeRequest(p) \/ RequestFails(p)

\* Temporal starts the scheduled runs and executes what a workflow asks for,
\* and the API serves a request of an activity to its end.  Nothing is assumed
\* of the clients, of their requests, of the clock and of the failures.
Fairness ==
    /\ \A w \in Workflows : WF_allVars(Work(w))
    /\ \A p \in Workers : WF_allVars(ServeRequest(p) \/ Forget(p))

WorkflowsSpec == WorkflowsInit /\ [][WorkflowsNext]_allVars /\ Fairness

-----------------------------------------------------------------------------
\* Every variable stays in its range, and no process serves two workflows.
WorkflowsTypeOK ==
    /\ TypeOK
    /\ wf \in [Workflows -> Workflow]
    /\ failures \in 0 .. MaxFailures
    /\ calls \in 0 .. MaxCalls
    /\ \A v, w \in Workflows : v # w => wf[v].proc \cap wf[w].proc = {}

\* ExpireDomain refuses a domain with serverDeleteProhibited, and pendingDelete
\* cannot join another pending action; such a domain is listed for ever.
CanEnd(d) ==
    CanAutoRenew(d) \/ (~HasPendings(d.status) /\ "serverDeleteProhibited" \notin d.status)

\* An expired domain that the registry can renew or expire is not left on the
\* list of ExpiryLoop, though requests fail, answers get lost and clients
\* interfere.
ExpiredHandled ==
    \A n \in Names : (Expiring(n) /\ CanEnd(db[n])) ~> ~(Expiring(n) /\ CanEnd(db[n]))

PurgeDue(n) == Purgeable(n) /\ db[n].purge < clock

\* A purgeable domain is purged in the end.  The exception is the domain with
\* dropCatch whose NNDN was created by a purge that failed before it deleted
\* the row: no later purge gets past the NNDN.
PurgeableHandled ==
    \A n \in Names : PurgeDue(n) ~> (~PurgeDue(n) \/ (db[n].dropCatch /\ n \in nndn))

\* RestoreWorkflow ends the pendingRestore status of every restored domain
\* whose status may be updated.
RestoredHandled ==
    \A n \in Names : (Restored(n) /\ ~UpdateProhibited(db[n].status))
                        ~> ~(Restored(n) /\ ~UpdateProhibited(db[n].status))

\* "if the renew fails, set the domain status to PendingRestore again so we can
\* try again later": when RestoreWorkflow has finished with a domain whose
\* renewal failed, the domain is pendingRestore.
RestoreTriedAgain ==
    [][LET d == db[wf["RestoreWorkflow"].item.name]
       IN  (wf["RestoreWorkflow"].step = "SetDomainStatus"
            /\ wf'["RestoreWorkflow"].step # "SetDomainStatus")
               => "pendingRestore" \in d.status]_allVars
=============================================================================
