-------------------------- MODULE LifecycleProofs ---------------------------
(***************************************************************************)
(* Proofs about the workflows on top of the domain API, for every number   *)
(* of names, workers, clients, attempts and failures.  The workflows send  *)
(* requests of their own, which no client may send, repeat them after a    *)
(* response was lost, and leave the given-up ones running; the properties  *)
(* of the API that DomainTableProofs shows for the requests of clients     *)
(* hold none the less.                                                     *)
(***************************************************************************)
EXTENDS LifecycleWorkflows, DomainTableProofs

(***************************************************************************)
(* What the workflows do to the API besides what its own clients do: they  *)
(* send a command of theirs, and take a response.                          *)
(***************************************************************************)
Takes(p) ==
    /\ req' = [req EXCEPT ![p] = IdleWith("none")]
    /\ UNCHANGED <<clock, db, links, linked, nndn, nextRoid, edited>>

CallerStep ==
    \E p \in Procs :
       \/ \E c \in Command : LoadDomain(p, c) \/ DomainNotFound(p, c)
       \/ Takes(p)

ApiStep == [Next]_vars \/ CallerStep

\* The inductive invariants of the API.
ApiInv == RowsGood /\ NoOrphanLinks /\ Lineage /\ SponsorInv

LEMMA CallerTableStep == ASSUME CallerStep PROVE TableStep
  BY TablesUnchanged DEF CallerStep, LoadDomain, DomainNotFound, Takes

LEMMA ApiTableStep == ASSUME RowsGood, ApiStep PROVE TableStep
  BY CallerTableStep, NextStep DEF ApiStep

\* A step of a caller keeps the invariants of the API.
LEMMA CallerKeepsApi ==
    ASSUME ApiInv, CallerStep
    PROVE  ApiInv'
  <1>1. RowsGood /\ NoOrphanLinks /\ Lineage /\ SponsorInv /\ RoidsIssued
    BY DEF ApiInv, Lineage
  <1>2. NoOrphanLinks'
    BY <1>1, CallerTableStep
    DEF TableStep, Keeps, Creates, Deletes, NoOrphanLinks, Exists
  <1>3. PICK p \in Procs : \/ \E c \in Command : LoadDomain(p, c) \/ DomainNotFound(p, c)
                           \/ Takes(p)
    BY DEF CallerStep
  <1>4. CASE \E c \in Command : LoadDomain(p, c) \/ DomainNotFound(p, c)
    <2>1. PICK c \in Command : LoadDomain(p, c) \/ DomainNotFound(p, c)
      BY <1>4
    <2> QED  BY <1>1, <1>2, <2>1, LoadGood, LoadDescends, LineageKept, LoadSponsored
             DEF ApiInv
  <1>5. CASE Takes(p)
    <2>1. IdleWith("none") \in GoodRequest
      BY IdleWithGood
    <2>2. RowsGood'
      BY <1>1, <1>5, <2>1 DEF Takes, RowsGood
    <2>3. Descends(IdleWith("none").row) /\ Descends(IdleWith("none").dom)
      BY IdleDescends
    <2>4. DescentStep
      BY <1>1, <1>5, <2>3, RequestDescends, TableKeptDescends DEF Takes
    <2>5. HoldsSponsored'
      BY <1>1, <1>5, IdleSponsored, RequestSponsored DEF Takes, SponsorInv
    <2>6. SponsorsAgree'
      BY <1>1, <1>5, FewerLinksSponsored DEF Takes, SponsorInv
    <2> QED  BY <1>1, <1>2, <2>2, <2>4, <2>5, <2>6, LineageKept DEF ApiInv, SponsorInv
  <1> QED  BY <1>3, <1>4, <1>5

\* So does a step of the API itself.
LEMMA ApiKept ==
    ASSUME ApiInv, ApiStep
    PROVE  ApiInv'
  <1>1. CASE [Next]_vars
    <2>1. RowsGood /\ NoOrphanLinks /\ Lineage /\ SponsorInv /\ RoidsIssued
      BY DEF ApiInv, Lineage
    <2>2. NoOrphanLinks'
      BY <1>1, <2>1, NextStep
      DEF TableStep, Keeps, Creates, Deletes, NoOrphanLinks, Exists
    <2> QED  BY <1>1, <2>1, <2>2, NextGood, NextDescends, LineageKept, NextSponsored
             DEF ApiInv
  <1> QED  BY <1>1, CallerKeepsApi DEF ApiStep

-----------------------------------------------------------------------------
(* What the API does to the request of a worker: it answers it, sooner or  *)
(* later, and no request of another process touches it.                    *)

Answering(x) == x.pc # "idle" \/ x.res # "none"

ServedAlone(p) ==
    \E x : req' = [req EXCEPT ![p] = x] /\ (p \in Workers => Answering(x))

LEMMA HeadingAnswers ==
    ASSUME NEW p, NEW pc \in PCs \ {"idle"}
    PROVE  Answering(Heading(p, pc))
  BY DEF Answering, Heading, IdleWith

LEMMA AnswerAnswers ==
    ASSUME NEW p \in Workers, NEW r \in {"ok", "err"}
    PROVE  Answering(IdleWith(Answer(p, r)))
  BY DEF Answering, IdleWith, Answer

LEMMA RespondServes ==
    ASSUME NEW p, NEW r \in {"ok", "err"}, Respond(p, r)
    PROVE  ServedAlone(p)
  BY AnswerAnswers DEF Respond, ServedAlone

LEMMA GotoServes ==
    ASSUME NEW p, NEW pc \in PCs \ {"idle"}, Goto(p, pc)
    PROVE  ServedAlone(p)
  BY HeadingAnswers DEF Goto, ServedAlone

LEMMA SaveOrServes ==
    ASSUME NEW p, NEW rows, NEW hs, NEW onSaved, p \in Workers => Answering(onSaved),
           SaveOr(p, rows, hs, onSaved)
    PROVE  ServedAlone(p)
  <1>1. Respond(p, "err") \/ req' = [req EXCEPT ![p] = onSaved]
    BY DEF SaveOr
  <1> QED  BY <1>1, RespondServes DEF ServedAlone

LEMMA UpdateRowServes ==
    ASSUME NEW p, NEW rows, UpdateRow(p, rows)
    PROVE  ServedAlone(p)
  BY SaveOrServes, AnswerAnswers DEF UpdateRow

\* The last statement of a handler answers, any other leads to the next one.
LEMMA ServeServes ==
    ASSUME RowsGood, NEW p \in Procs, Serve(p) \/ Abort(p)
    PROVE  ServedAlone(p)
  <1>2. CASE \/ RenewDomain(p) \/ AutoRenewDomain(p) \/ MarkDomainForDeletion(p)
             \/ ExpireDomain(p) \/ RestoreDomain(p) \/ DropCatchDomain(p)
             \/ SetDomainStatus(p) \/ UnSetDomainStatus(p)
    <2>1. \E rows : UpdateRow(p, rows)
      BY <1>2 DEF RenewDomain, AutoRenewDomain, MarkDomainForDeletion, ExpireDomain,
                  RestoreDomain, DropCatchDomain, SetDomainStatus, UnSetDomainStatus
    <2> QED  BY <2>1, UpdateRowServes
  <1>3. CASE UpdateDomain(p)
    <2>1. \E rows : SaveOr(p, rows, {}, IdleWith(Answer(p, "ok")))
      BY <1>3 DEF UpdateDomain
    <2> QED  BY <2>1, SaveOrServes, AnswerAnswers
  <1>4. CASE RegisterDomain(p)
    BY <1>4, RespondServes DEF RegisterDomain
  <1>5. CASE \/ SetHostLinked(p) \/ UnsetHostLinked(p) \/ CountHostAssociations(p)
             \/ CreateNNDN(p) \/ DeleteRow(p) \/ Abort(p)
    <2>1. \/ \E r \in {"ok", "err"} : Respond(p, r)
          \/ Goto(p, "unsetLinked") \/ Goto(p, "delete")
      BY <1>5 DEF SetHostLinked, UnsetHostLinked, CountHostAssociations,
                  CreateNNDN, DeleteRow, Abort
    <2> QED  BY <2>1, RespondServes, GotoServes DEF PCs
  <1>6. CASE AddHostToDomain(p)
    <2>1. \/ Respond(p, "ok")
          \/ \E rows, hs : SaveOr(p, rows, hs, Heading(p, "setLinked"))
      BY <1>6 DEF AddHostToDomain
    <2> QED  BY <2>1, RespondServes, SaveOrServes, HeadingAnswers DEF PCs
  <1>7. CASE RemoveHostFromDomain(p)
    <2>1. \/ Respond(p, "err")
          \/ \E h, d : req' = [req EXCEPT ![p] = [req[p] EXCEPT
                          !.pc = "saveRemoved", !.row = d, !.hosts = @ \ {h}, !.at = 0]]
      BY <1>7 DEF RemoveHostFromDomain
    <2>2. ASSUME NEW h, NEW d
          PROVE  Answering([req[p] EXCEPT !.pc = "saveRemoved", !.row = d,
                                          !.hosts = @ \ {h}, !.at = 0])
      BY HeldGood DEF GoodRequest, Answering
    <2> QED  BY <2>1, <2>2, RespondServes DEF ServedAlone
  <1>8. CASE SaveAfterRemoveHost(p)
    BY <1>8, SaveOrServes, HeadingAnswers DEF SaveAfterRemoveHost, PCs
  <1>9. CASE RemoveAllDomainHosts(p)
    <2>1. CASE Respond(p, "err")
      BY <2>1, RespondServes
    <2>2. CASE \E drop, short, dom :
                 req' = [req EXCEPT ![p] = [req[p] EXCEPT
                           !.pc = "unlink", !.drop = drop, !.short = short, !.dom = dom]]
      <3>1. PICK drop, short, dom :
                 req' = [req EXCEPT ![p] = [req[p] EXCEPT
                           !.pc = "unlink", !.drop = drop, !.short = short, !.dom = dom]]
        BY <2>2
      <3>2. Answering([req[p] EXCEPT !.pc = "unlink", !.drop = drop,
                                     !.short = short, !.dom = dom])
        BY HeldGood DEF GoodRequest, Answering
      <3> QED  BY <3>1, <3>2 DEF ServedAlone
    <2> QED  BY <1>9, <2>1, <2>2 DEF RemoveAllDomainHosts
  <1>10. CASE UnlinkHost(p)
    <2>1. req[p].pc = "unlink"
          /\ \E h : req' = [req EXCEPT ![p] = [req[p] EXCEPT !.drop = @ \ {h}]]
      BY <1>10 DEF UnlinkHost
    <2>2. ASSUME NEW h
          PROVE  Answering([req[p] EXCEPT !.drop = @ \ {h}])
      BY <2>1, HeldGood DEF GoodRequest, Answering
    <2> QED  BY <2>1, <2>2 DEF ServedAlone
  <1>11. CASE SaveAfterDetach(p)
    <2> DEFINE next == [req[p] EXCEPT !.short = FALSE, !.dom = NoRow,
                          !.pc = IF req[p].cmd.op = "PurgeDomain" THEN "nndn"
                                 ELSE "delete"]
    <2>1. Answering(next)
      BY HeldGood DEF GoodRequest, Answering
    <2>2. \E rows : SaveOr(p, rows, {}, next)
      BY <1>11 DEF SaveAfterDetach
    <2> HIDE DEF next
    <2> QED  BY <2>1, <2>2, SaveOrServes
  <1>12. CASE PurgeDomain(p)
    <2>1. \/ Respond(p, "err")
          \/ \E pc \in PCs \ {"idle"} :
               req' = [req EXCEPT ![p] = [Heading(p, pc) EXCEPT !.row = req[p].row]]
      BY <1>12 DEF PurgeDomain, PCs
    <2>2. ASSUME NEW pc \in PCs \ {"idle"}
          PROVE  Answering([Heading(p, pc) EXCEPT !.row = req[p].row])
      BY DEF Answering, Heading, IdleWith
    <2> QED  BY <2>1, <2>2, RespondServes DEF ServedAlone
  <1> QED  BY <1>2, <1>3, <1>4, <1>5, <1>6, <1>7, <1>8, <1>9, <1>10, <1>11, <1>12
           DEF Serve
LEMMA AcceptServes ==
    ASSUME NEW p \in Procs, Accept(p)
    PROVE  \E x : req' = [req EXCEPT ![p] = x]
  BY DEF Accept, LoadDomain, DomainNotFound, CheckDomainAvailability, CreateDomain,
         DeleteDomainByName, BulkCreate, Respond

-----------------------------------------------------------------------------
(***************************************************************************)
(* The state of the workflows.  Type correctness is not inductive: that no *)
(* process serves two workflows holds because Attempt takes a process at   *)
(* rest, so one that serves a workflow must not be at rest until its       *)
(* response was taken (Attended).                                          *)
(***************************************************************************)
Apart == \A v, w \in Workflows : v # w => wf[v].proc \cap wf[w].proc = {}

Attended == \A w \in Workflows : \A p \in wf[w].proc : req[p] # IdleWith("none")

WorkflowsInv ==
    /\ wf \in [Workflows -> Workflow]
    /\ failures \in 0 .. MaxFailures
    /\ calls \in 0 .. MaxCalls
    /\ Apart
    /\ Attended

LEMMA NoItemType == NoItem \in Item
  BY NoCommandType DEF NoItem, Item, Command

LEMMA AtStepType ==
    ASSUME NEW step \in Steps, NEW todo \in SUBSET Item, NEW item \in Item
    PROVE  AtStep(step, todo, item) \in Workflow /\ AtStep(step, todo, item).proc = {}
  BY WorkflowsAssumption DEF AtStep, Workflow

\* What a workflow may become: typed, and served by nobody.
Released(w) == \E x \in Workflow : x.proc = {} /\ wf' = [wf EXCEPT ![w] = x]

LEMMA HeldByWorkflow ==
    ASSUME WorkflowsInv, NEW w \in Workflows
    PROVE  /\ wf[w] \in Workflow
           /\ wf[w].step \in Steps /\ wf[w].todo \in SUBSET Item /\ wf[w].item \in Item
           /\ wf[w].attempt \in 1 .. MaximumAttempts /\ wf[w].proc \in SUBSET Workers
  BY DEF WorkflowsInv, Workflow

LEMMA AdvanceReleases ==
    ASSUME WorkflowsInv, NEW w \in Workflows, NEW step \in Steps, Advance(w, step)
    PROVE  Released(w)
  <1>1. (IF step = "next" THEN NoItem ELSE wf[w].item) \in Item
    BY NoItemType, HeldByWorkflow
  <1> QED  BY <1>1, HeldByWorkflow, AtStepType DEF Advance, Released

LEMMA ContinueReleases ==
    ASSUME WorkflowsInv, NEW w \in Workflows, NEW ok \in BOOLEAN, Continue(w, ok)
    PROVE  Released(w)
  <1> DEFINE step == CASE wf[w].step = "UnSetDomainStatus"      -> "RenewDomain"
                       [] wf[w].step = "RenewDomain" /\ ~ok     -> "SetDomainStatus"
                       [] OTHER                                 -> "next"
  <1>1. step \in Steps
    BY DEF Steps, Calls
  <1>2. Advance(w, step)
    BY DEF Continue
  <1> HIDE DEF step
  <1> QED  BY <1>1, <1>2, AdvanceReleases

LEMMA RetryReleases ==
    ASSUME WorkflowsInv, NEW w \in Workflows, RetryOrContinue(w)
    PROVE  Released(w)
  <1>1. CASE wf[w].attempt < MaximumAttempts
    <2> DEFINE x == [wf[w] EXCEPT !.attempt = @ + 1, !.proc = {}]
    <2>1. wf' = [wf EXCEPT ![w] = x]
      BY <1>1, HeldByWorkflow DEF RetryOrContinue, WorkflowsInv
    <2>2. wf[w].attempt + 1 \in 1 .. MaximumAttempts
      BY <1>1, HeldByWorkflow, WorkflowsAssumption
    <2>3. x \in Workflow /\ x.proc = {}
      BY <2>2, HeldByWorkflow DEF Workflow
    <2> QED  BY <2>1, <2>3 DEF Released
  <1>2. CASE ~(wf[w].attempt < MaximumAttempts)
    BY <1>2, ContinueReleases DEF RetryOrContinue
  <1> QED  BY <1>1, <1>2

\* A workflow that lets its process go keeps the others and theirs.
LEMMA ReleasedKeeps ==
    ASSUME WorkflowsInv, NEW w \in Workflows, Released(w)
    PROVE  /\ wf' \in [Workflows -> Workflow]
           /\ Apart'
           /\ \A v \in Workflows : wf'[v].proc \subseteq wf[v].proc
           /\ wf'[w].proc = {}
  <1>1. PICK x \in Workflow : x.proc = {} /\ wf' = [wf EXCEPT ![w] = x]
    BY DEF Released
  <1>2. wf'[w] = x /\ \A v \in Workflows \ {w} : wf'[v] = wf[v]
    BY <1>1 DEF WorkflowsInv
  <1>3. wf' \in [Workflows -> Workflow]
    BY <1>1 DEF WorkflowsInv
  <1>4. \A v \in Workflows : wf'[v].proc \subseteq wf[v].proc
    BY <1>1, <1>2
  <1>5. Apart'
    BY <1>4 DEF Apart, WorkflowsInv
  <1> QED  BY <1>1, <1>2, <1>3, <1>4, <1>5

\* The request of an activity is a command of the API, although no client may
\* send it.
LEMMA CallType ==
    ASSUME WorkflowsInv, NEW w \in Workflows, wf[w].step \in Calls
    PROVE  Call(w) \in Command
  <1> DEFINE c == [NoCommand EXCEPT !.name = wf[w].item.name]
  <1>1. wf[w].item.name \in Names /\ wf[w].item.clid \in Registrars
    BY HeldByWorkflow DEF Item
  <1>2. c \in Command
    BY <1>1, NoCommandType DEF Command
  <1>3. /\ "AutoRenewDomain" \in Ops /\ "ExpireDomain" \in Ops /\ "PurgeDomain" \in Ops
        /\ "UnSetStatus" \in Ops /\ "RenewDomain" \in Ops
    BY DEF Ops, RowOps, HostOps
  <1>5. "pendingRestore" \in Flags /\ 1 \in Int
    BY DEF Flags, Pendings
  <1> HIDE DEF c
  <1>4. /\ [c EXCEPT !.op = "AutoRenewDomain", !.years = 1] \in Command
        /\ [c EXCEPT !.op = "ExpireDomain"] \in Command
        /\ [c EXCEPT !.op = "PurgeDomain"] \in Command
        /\ [c EXCEPT !.op = "UnSetStatus", !.flag = "pendingRestore"] \in Command
        /\ [c EXCEPT !.op = "RenewDomain", !.clid = wf[w].item.clid,
                     !.years = 1, !.toggle = TRUE] \in Command
    BY <1>1, <1>2, <1>3, <1>5 DEF Command
  <1> QED  BY <1>4 DEF Call, Calls, c

-----------------------------------------------------------------------------
(* The steps.                                                              *)

\* A step of the workflows that does not touch the API.
LEMMA ReleaseKeepsInv ==
    ASSUME WorkflowsInv, NEW w \in Workflows, Released(w), UNCHANGED <<vars, calls>>,
           failures' \in 0 .. MaxFailures
    PROVE  WorkflowsInv'
  <1>1. Attended'
    BY ReleasedKeeps DEF Attended, WorkflowsInv, vars, IdleWith, NoRow, NoCommand
  <1> QED  BY <1>1, ReleasedKeeps DEF WorkflowsInv

LEMMA QuietWork ==
    ASSUME ApiInv, WorkflowsInv, NEW w \in Workflows,
           \/ Start(w) \/ NextDomain(w) \/ Finish(w) \/ CheckDomainCanAutoRenew(w)
           \/ SetDomainStatusFails(w) \/ Lose(w)
    PROVE  WorkflowsInv' /\ UNCHANGED vars
  <1>1. CASE Start(w)
    <2> DEFINE todo == {[name |-> n, clid |-> db[n].clid] :
                          n \in {m \in Names : Listed(w, m)}}
    <2>1. \A n \in Names : db[n].clid \in Registrars
      BY DEF ApiInv, RowsGood, GoodRow, Row
    <2>2. todo \in SUBSET Item
      BY <2>1 DEF Item
    <2>3. wf' = [wf EXCEPT ![w] = AtStep("next", todo, NoItem)]
      BY <1>1 DEF Start
    <2> HIDE DEF todo
    <2>4. Released(w)
      BY <2>2, <2>3, AtStepType, NoItemType DEF Released, Steps
    <2> QED  BY <1>1, <2>4, ReleaseKeepsInv DEF Start, WorkflowsInv
  <1>2. CASE NextDomain(w)
    <2>1. PICK item \in wf[w].todo :
            wf' = [wf EXCEPT ![w] =
                     AtStep(FirstStep(w), wf[w].todo \ {item}, item)]
      BY <1>2 DEF NextDomain
    <2>2. FirstStep(w) \in Steps
      BY DEF FirstStep, Steps, Calls, Workflows
    <2>3. item \in Item /\ wf[w].todo \ {item} \in SUBSET Item
      BY HeldByWorkflow
    <2>4. Released(w)
      BY <2>1, <2>2, <2>3, AtStepType DEF Released
    <2> QED  BY <1>2, <2>4, ReleaseKeepsInv DEF NextDomain, WorkflowsInv
  <1>3. CASE Finish(w)
    <2>1. Released(w)
      BY <1>3, AdvanceReleases DEF Finish, Steps
    <2> QED  BY <1>3, <2>1, ReleaseKeepsInv DEF Finish, WorkflowsInv
  <1>4. CASE CheckDomainCanAutoRenew(w)
    <2>1. Advance(w, "AutoRenewDomain") \/ Advance(w, "ExpireDomain") \/ RetryOrContinue(w)
      BY <1>4 DEF CheckDomainCanAutoRenew
    <2>2. "AutoRenewDomain" \in Steps /\ "ExpireDomain" \in Steps
      BY DEF Steps, Calls
    <2>3. Released(w)
      BY <2>1, <2>2, AdvanceReleases, RetryReleases
    <2> QED  BY <1>4, <2>3, ReleaseKeepsInv DEF CheckDomainCanAutoRenew, WorkflowsInv
  <1>5. CASE SetDomainStatusFails(w)
    <2>1. Released(w)
      BY <1>5, ContinueReleases DEF SetDomainStatusFails
    <2> QED  BY <1>5, <2>1, ReleaseKeepsInv DEF SetDomainStatusFails, WorkflowsInv
  <1>6. CASE Lose(w)
    <2>1. Released(w)
      BY <1>6, RetryReleases DEF Lose
    <2>2. failures' \in 0 .. MaxFailures
      BY <1>6, WorkflowsAssumption DEF Lose, WorkflowsInv
    <2> QED  BY <1>6, <2>1, <2>2, ReleaseKeepsInv DEF Lose
  <1> QED  BY <1>1, <1>2, <1>3, <1>4, <1>5, <1>6
\* A step of a process leaves those of the workflows attended: another one is
\* left alone, and its own is answered at the earliest.
LEMMA ServedStaysAttended ==
    ASSUME RowsGood, WorkflowsInv, NEW p \in Procs, ServedAlone(p),
           NEW w \in Workflows, NEW q \in wf[w].proc
    PROVE  req'[q] # IdleWith("none")
  <1>1. q \in Workers /\ q \in Procs
    BY HeldByWorkflow, RequestsAssumption
  <1>2. PICK x : req' = [req EXCEPT ![p] = x] /\ (p \in Workers => Answering(x))
    BY DEF ServedAlone
  <1>3. CASE q = p
    <2>1. req'[q] = x /\ Answering(x)
      BY <1>1, <1>2, <1>3 DEF RowsGood
    <2>2. ~Answering(IdleWith("none"))
      BY DEF Answering, IdleWith
    <2> QED  BY <2>1, <2>2
  <1>4. CASE q # p
    BY <1>1, <1>2, <1>4 DEF RowsGood, WorkflowsInv, Attended
  <1> QED  BY <1>3, <1>4

LEMMA ServingKeepsInv ==
    ASSUME RowsGood, WorkflowsInv, NEW p \in Procs, ServedAlone(p), UNCHANGED wf,
           failures' \in 0 .. MaxFailures, calls' \in 0 .. MaxCalls
    PROVE  WorkflowsInv'
  <1>1. Attended'
    BY ServedStaysAttended DEF Attended, IdleWith, NoRow, NoCommand
  <1> QED  BY <1>1 DEF WorkflowsInv, Apart

\* The request of an activity is given to a worker at rest, which no workflow
\* waits for.
LEMMA AttemptKeepsInv ==
    ASSUME ApiInv, WorkflowsInv, NEW w \in Workflows, Attempt(w)
    PROVE  WorkflowsInv' /\ ApiStep
  <1> DEFINE p == CHOOSE q \in Free : TRUE
  <1>1. /\ p \in Free /\ wf[w].step \in Calls
        /\ LoadDomain(p, Call(w)) \/ DomainNotFound(p, Call(w))
        /\ wf' = [wf EXCEPT ![w].proc = {p}]
        /\ UNCHANGED <<failures, calls>>
    BY DEF Attempt
  <1> HIDE DEF p
  <1>2. p \in Workers /\ p \in Procs /\ req[p] = IdleWith("none") /\ RowsGood
    BY <1>1, RequestsAssumption DEF Free, ApiInv
  <1>3. \A v \in Workflows : p \notin wf[v].proc
    BY <1>2 DEF WorkflowsInv, Attended
  <1>4. Call(w) \in Command
    BY <1>1, CallType
  <1>5. ServedAlone(p)
    <2>1. CASE LoadDomain(p, Call(w))
      <3> DEFINE x == [IdleWith("none") EXCEPT
                         !.pc = "loaded", !.cmd = Call(w), !.row = db[Call(w).name],
                         !.hosts = IF Call(w).op \in HostOps THEN links[Call(w).name]
                                   ELSE {},
                         !.at = clock]
      <3>1. req' = [req EXCEPT ![p] = x]
        BY <2>1 DEF LoadDomain
      <3>2. x.pc = "loaded"
        BY DEF IdleWith
      <3> HIDE DEF x
      <3> QED  BY <3>1, <3>2 DEF ServedAlone, Answering
    <2>2. CASE DomainNotFound(p, Call(w))
      BY <2>2, RespondServes DEF DomainNotFound
    <2> QED  BY <1>1, <2>1, <2>2
  <1>6. wf' = [wf EXCEPT ![w] = [wf[w] EXCEPT !.proc = {p}]]
    BY <1>1 DEF WorkflowsInv
  <1>7. [wf[w] EXCEPT !.proc = {p}] \in Workflow
    BY <1>2, HeldByWorkflow DEF Workflow
  <1>8. wf' \in [Workflows -> Workflow]
    BY <1>6, <1>7 DEF WorkflowsInv
  <1>9. wf'[w].proc = {p} /\ \A v \in Workflows \ {w} : wf'[v] = wf[v]
    BY <1>6, HeldByWorkflow DEF WorkflowsInv, Workflow
  <1>10. Apart'
    BY <1>3, <1>9 DEF Apart, WorkflowsInv
  <1>11. req'[p] # IdleWith("none")
    <2>1. PICK x : req' = [req EXCEPT ![p] = x] /\ Answering(x)
      BY <1>2, <1>5 DEF ServedAlone
    <2>2. req'[p] = x
      BY <1>2, <2>1 DEF RowsGood
    <2>3. ~Answering(IdleWith("none"))
      BY DEF Answering, IdleWith
    <2> QED  BY <2>1, <2>2, <2>3
  <1>12. \A v \in Workflows : \A q \in wf'[v].proc : req'[q] # IdleWith("none")
    BY <1>2, <1>5, <1>9, <1>11, ServedStaysAttended
  <1>13. Attended'
    BY <1>12 DEF Attended, IdleWith, NoRow, NoCommand
  <1>14. CallerStep
    BY <1>1, <1>2, <1>4 DEF CallerStep
  <1> QED  BY <1>1, <1>8, <1>10, <1>13, <1>14 DEF WorkflowsInv, ApiStep

\* A response is taken from a process that serves no workflow any more.
LEMMA TakenKeepsAttended ==
    ASSUME RowsGood, WorkflowsInv, NEW p \in Procs, Takes(p),
           \A v \in Workflows : wf'[v].proc \subseteq wf[v].proc \ {p}
    PROVE  Attended'
  <1>1. ASSUME NEW v \in Workflows, NEW q \in wf'[v].proc
        PROVE  req'[q] # IdleWith("none")
    <2>1. q \in wf[v].proc /\ q # p /\ q \in Procs
      BY HeldByWorkflow, RequestsAssumption
    <2>2. req'[q] = req[q]
      BY <2>1 DEF Takes, RowsGood
    <2> QED  BY <2>1, <2>2 DEF WorkflowsInv, Attended
  <1> QED  BY <1>1 DEF Attended, IdleWith, NoRow, NoCommand

LEMMA ReturnKeepsInv ==
    ASSUME ApiInv, WorkflowsInv, NEW w \in Workflows, Return(w)
    PROVE  WorkflowsInv' /\ ApiStep
  <1>1. PICK p \in wf[w].proc :
          /\ req' = [req EXCEPT ![p] = IdleWith("none")]
          /\ Continue(w, TRUE) \/ RetryOrContinue(w)
    BY DEF Return
  <1>2. p \in Procs /\ Takes(p) /\ UNCHANGED <<failures, calls>> /\ RowsGood
    BY <1>1, HeldByWorkflow, RequestsAssumption DEF Return, Takes, ApiInv
  <1>3. Released(w)
    BY <1>1, ContinueReleases, RetryReleases
  <1>4. \A v \in Workflows : wf'[v].proc \subseteq wf[v].proc \ {p}
    BY <1>1, <1>3, ReleasedKeeps DEF WorkflowsInv, Apart
  <1>5. Attended'
    BY <1>2, <1>4, TakenKeepsAttended
  <1> QED  BY <1>2, <1>3, <1>5, ReleasedKeeps DEF WorkflowsInv, ApiStep, CallerStep

LEMMA ForgetKeepsInv ==
    ASSUME ApiInv, WorkflowsInv, NEW p \in Workers, Forget(p)
    PROVE  WorkflowsInv' /\ ApiStep
  <1>1. p \in Procs /\ Takes(p) /\ UNCHANGED <<wf, failures, calls>> /\ RowsGood
    BY RequestsAssumption DEF Forget, Takes, ApiInv
  <1>2. \A v \in Workflows : wf'[v].proc \subseteq wf[v].proc \ {p}
    BY <1>1 DEF Forget
  <1>3. Attended'
    BY <1>1, <1>2, TakenKeepsAttended
  <1> QED  BY <1>1, <1>3 DEF WorkflowsInv, Apart, ApiStep, CallerStep

\* Every step of the workflows, the clients and the API.
LEMMA WorkflowsStep ==
    ASSUME ApiInv, WorkflowsInv, [WorkflowsNext]_allVars
    PROVE  WorkflowsInv' /\ ApiStep
  <1>1. RowsGood
    BY DEF ApiInv
  <1>2. CASE UNCHANGED allVars
    <2>1. WorkflowsInv'
      BY <1>2 DEF allVars, vars, WorkflowsInv, Apart, Attended, IdleWith, NoRow, NoCommand
    <2> QED  BY <1>2, <2>1 DEF allVars, ApiStep
  <1>3. CASE TimePasses
    <2>1. Tick /\ UNCHANGED <<req, wf, failures, calls>>
      BY <1>3 DEF TimePasses, Tick
    <2>2. WorkflowsInv'
      BY <2>1 DEF WorkflowsInv, Apart, Attended, IdleWith, NoRow, NoCommand
    <2> QED  BY <2>1, <2>2 DEF ApiStep, Next
  <1>4. ASSUME NEW w \in Workflows, Work(w) \/ Lose(w)
        PROVE  WorkflowsInv' /\ ApiStep
    <2>1. CASE Attempt(w)
      BY <2>1, AttemptKeepsInv
    <2>2. CASE Return(w)
      BY <2>2, ReturnKeepsInv
    <2>3. CASE \/ Start(w) \/ NextDomain(w) \/ Finish(w) \/ CheckDomainCanAutoRenew(w)
               \/ SetDomainStatusFails(w) \/ Lose(w)
      BY <2>3, QuietWork DEF ApiStep
    <2> QED  BY <1>4, <2>1, <2>2, <2>3 DEF Work
  <1>5. ASSUME NEW p \in Workers, Forget(p)
        PROVE  WorkflowsInv' /\ ApiStep
    BY <1>5, ForgetKeepsInv
  <1>6. ASSUME NEW p \in Clients, ClientCall(p)
        PROVE  WorkflowsInv' /\ ApiStep
    <2>1. p \in Procs /\ p \notin Workers /\ Accept(p) /\ UNCHANGED <<wf, failures>>
      BY <1>6 DEF Clients, ClientCall
    <2>2. ServedAlone(p)
      BY <2>1, AcceptServes DEF ServedAlone
    <2>3. calls' \in 0 .. MaxCalls
      BY <1>6, WorkflowsAssumption DEF ClientCall, WorkflowsInv
    <2>4. failures' \in 0 .. MaxFailures
      BY <2>1 DEF WorkflowsInv
    <2>5. WorkflowsInv'
      BY <1>1, <2>1, <2>2, <2>3, <2>4, ServingKeepsInv
    <2> QED  BY <2>1, <2>5 DEF ApiStep, Next
  <1>7. ASSUME NEW p \in Procs, ServeRequest(p) \/ RequestFails(p)
        PROVE  WorkflowsInv' /\ ApiStep
    <2>1. (Serve(p) \/ Abort(p)) /\ UNCHANGED <<wf, calls>>
      BY <1>7 DEF ServeRequest, RequestFails
    <2>2. ServedAlone(p)
      BY <1>1, <2>1, ServeServes
    <2>3. failures' \in 0 .. MaxFailures
      BY <1>7, WorkflowsAssumption DEF ServeRequest, RequestFails, WorkflowsInv
    <2>4. calls' \in 0 .. MaxCalls
      BY <2>1 DEF WorkflowsInv
    <2>5. WorkflowsInv'
      BY <1>1, <2>1, <2>2, <2>3, <2>4, ServingKeepsInv
    <2> QED  BY <2>1, <2>5 DEF ApiStep, Next
  <1> QED  BY <1>2, <1>3, <1>4, <1>5, <1>6, <1>7 DEF WorkflowsNext

LEMMA WorkflowsStart ==
    ASSUME WorkflowsInit
    PROVE  ApiInv /\ WorkflowsInv
  <1>1. Init
    BY DEF WorkflowsInit
  <1>2. ApiInv
    <2>1. NoOrphanLinks /\ SponsorInv
      BY <1>1 DEF Init, NoOrphanLinks, SponsorInv, SponsorsAgree, HoldsSponsored,
                  Sponsored, IdleWith
    <2> QED  BY <1>1, <2>1, InitGood, InitLineage DEF ApiInv
  <1>3. AtStep("asleep", {}, NoItem) \in Workflow
        /\ AtStep("asleep", {}, NoItem).proc = {}
    BY AtStepType, NoItemType DEF Steps
  <1>4. wf = [w \in Workflows |-> AtStep("asleep", {}, NoItem)]
        /\ failures = 0 /\ calls = 0
    BY DEF WorkflowsInit
  <1>5. \A w \in Workflows : wf[w].proc = {}
    BY <1>3, <1>4
  <1>6. wf \in [Workflows -> Workflow]
    BY <1>3, <1>4
  <1> QED  BY <1>2, <1>4, <1>5, <1>6, WorkflowsAssumption
           DEF WorkflowsInv, Apart, Attended

-----------------------------------------------------------------------------
\* The inductive invariant of the API under the workflows: its rows, links and
\* dates are in order, and no request of an activity is at rest unnoticed.
THEOREM WorkflowsInvariant == WorkflowsSpec => [](ApiInv /\ WorkflowsInv)
  <1>1. WorkflowsInit => ApiInv /\ WorkflowsInv
    BY WorkflowsStart
  <1>2. ApiInv /\ WorkflowsInv /\ [WorkflowsNext]_allVars => (ApiInv /\ WorkflowsInv)'
    BY WorkflowsStep, ApiKept
  <1> QED  BY <1>1, <1>2, PTL DEF WorkflowsSpec

\* Whatever is lost and repeated, every workflow is at one of its steps with at
\* most MaximumAttempts attempts, and no two of them wait for one request.
THEOREM WorkflowsTypeCorrect == WorkflowsSpec => []WorkflowsTypeOK
  <1>1. ApiInv /\ WorkflowsInv => WorkflowsTypeOK
    <2> SUFFICES ASSUME ApiInv, WorkflowsInv PROVE WorkflowsTypeOK
      OBVIOUS
    <2>1. TypeOK
      BY RowsGoodTyped DEF ApiInv
    <2> QED  BY <2>1 DEF WorkflowsInv, WorkflowsTypeOK, Apart
  <1> QED  BY <1>1, WorkflowsInvariant, PTL

\* What DomainTableProofs shows of the requests of clients holds when
\* ExpiryLoop, PurgeLoop and RestoreWorkflow send theirs in between, repeat
\* requests that are still served, and take responses late or never.
THEOREM WorkflowsKeepDomains ==
    WorkflowsSpec => /\ []StatusConsistent /\ []NoOrphanLinks /\ []RenewalAccounting
                     /\ []RedemptionBeforePurge /\ []SponsorsAgree
                     /\ IncarnationStable
  <1>1. ApiInv => /\ StatusConsistent /\ NoOrphanLinks /\ RenewalAccounting
                  /\ RedemptionBeforePurge /\ SponsorsAgree
    <2> SUFFICES ASSUME ApiInv
                 PROVE  /\ StatusConsistent /\ NoOrphanLinks /\ RenewalAccounting
                        /\ RedemptionBeforePurge /\ SponsorsAgree
      OBVIOUS
    <2>1. RowsGood /\ NoOrphanLinks /\ Accounted /\ SponsorsAgree
      BY DEF ApiInv, Lineage, SponsorInv
    <2>2. StatusConsistent
      BY <2>1 DEF RowsGood, StatusConsistent, GoodRow
    <2>3. RenewalAccounting /\ RedemptionBeforePurge
      BY <2>1, HeldMembers DEF Accounted, DatesGood, RenewalAccounting,
                               RedemptionBeforePurge
    <2> QED  BY <2>1, <2>2, <2>3
  <1>2. ApiInv /\ WorkflowsInv /\ [WorkflowsNext]_allVars =>
          [\A n \in Names :
             Exists(n) /\ Exists(n)' => db'[n].roid = db[n].roid]_vars
    <2> SUFFICES ASSUME ApiInv, WorkflowsInv, [WorkflowsNext]_allVars, NEW n \in Names,
                        Exists(n), Exists(n)'
                 PROVE  db'[n].roid = db[n].roid
      OBVIOUS
    <2>1. TableStep
      BY WorkflowsStep, ApiTableStep DEF ApiInv
    <2> QED  BY <2>1 DEF TableStep, Keeps, Creates, Deletes, Exists
  <1> QED  BY <1>1, <1>2, WorkflowsInvariant, PTL DEF WorkflowsSpec, IncarnationStable
=============================================================================
