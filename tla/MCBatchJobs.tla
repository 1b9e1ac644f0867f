---------------------------- MODULE MCBatchJobs ----------------------------
(***************************************************************************)
(* The jobs that work through many rows, in one instance: a purge that     *)
(* detaches the hosts of a domain, a client that reads a list to its end,  *)
(* the daily registrar sync with the refreshes of its table, the escrow    *)
(* tool, and what an object of a deposit goes through.  They share no      *)
(* state: one of them runs in each behaviour, the others have not begun,   *)
(* except that the purge is over.                                          *)
(***************************************************************************)
EXTENDS HostDetach, Listing, RegistrarSync, EscrowImport, DepositStatus, TLC

VARIABLE part  \* the job that runs

batchVars == <<part, vars, listVars, syncVars, escrowVars, depositVars>>

PurgeOver ==
    /\ links = {} /\ attempt = 1 /\ phase = "done"
    /\ loaded = {} /\ array = << >> /\ length = 0 /\ i = 1

NoObject == [kind |-> "domain", said |-> << >>, future |-> FALSE]

BatchInit ==
    /\ part \in {"purge", "listing", "sync", "escrow", "deposit"}
    /\ IF part = "purge" THEN Init ELSE PurgeOver
    /\ ListingInit /\ (part # "listing" => rows = {})
    /\ SyncInit
    /\ EscrowInit
    /\ DepositInit /\ (part # "deposit" => deposit = NoObject)

BatchNext ==
    /\ UNCHANGED part
    /\ \/ /\ part = "purge" /\ Next
          /\ UNCHANGED <<listVars, syncVars, escrowVars, depositVars>>
       \/ /\ part = "listing" /\ ListingNext
          /\ UNCHANGED <<vars, syncVars, escrowVars, depositVars>>
       \/ /\ part = "sync" /\ SyncNext
          /\ UNCHANGED <<vars, listVars, escrowVars, depositVars>>
       \/ /\ part = "escrow" /\ EscrowNext
          /\ UNCHANGED <<vars, listVars, syncVars, depositVars>>
       \/ /\ part = "deposit" /\ DepositNext
          /\ UNCHANGED <<vars, listVars, syncVars, escrowVars>>

\* The fairness of HostDetach and of RegistrarSync, each while it runs.
Others == <<part, listVars, escrowVars, depositVars>>

BatchFairness ==
    /\ WF_batchVars(part = "purge" /\ Next /\ UNCHANGED <<Others, syncVars>>)
    /\ WF_batchVars(part = "sync" /\ SyncStep /\ UNCHANGED <<Others, vars>>)
    /\ \A r \in Refreshes :
         /\ WF_batchVars(part = "sync" /\ RequestStep(r) /\ UNCHANGED <<Others, vars>>)
         /\ WF_batchVars(part = "sync" /\ RequestOver(r) /\ UNCHANGED <<Others, vars>>)

BatchSpec == BatchInit /\ [][BatchNext]_batchVars /\ BatchFairness

-----------------------------------------------------------------------------
(* Listing: all keys, or every second one.                                 *)
MCFilters == {Keys, {k \in Keys : k % 2 = 1}}

(* Registrar sync: one registrar stays on the list, another one comes.     *)
MCPublished == <<{1}, {1, 2}>>

(* Escrow: two contacts, one of them used; hosts used on domains of their  *)
(* sponsor, of another registrar and of both; a host created by a          *)
(* registrar that occurs nowhere else; a domain with more hosts than it    *)
(* may have, another one with a host below it; an NNDN that is not valid;  *)
(* a registrar without a ClID.                                             *)
CONSTANTS c1, c2, h1, h2, d1, d2, n1, n2, r1, r2, r3, r4, a, b

MCSponsor == c1 :> r1 @@ c2 :> r2 @@ h1 :> r1 @@ h2 :> r2 @@ d1 :> r1 @@ d2 :> r2
MCAgents == [o \in DOMAIN MCSponsor |-> IF o = h1 THEN {r4} ELSE {MCSponsor[o]}]
MCContactsOf == d1 :> {c1} @@ d2 :> {c1}
MCNameservers == {<<d1, h2>>, <<d2, h1>>, <<d2, h2>>}
MCInBailiwick == {<<d1, h2>>}
MCClIDOf == r1 :> a @@ r2 :> b @@ r3 :> NoClID @@ r4 :> NoClID

(* Deposit: a name from each rule of a status, and one that is unknown.    *)
MCSaidFlags ==
    "domain" :> {"ok", "inactive", "pendingDelete", "pendingTransfer", "serverHold",
                 "clientDeleteProhibited", "serverUpdateProhibited", "x"} @@
    "host" :> {"ok", "linked", "pendingDelete", "pendingUpdate",
               "clientUpdateProhibited", "serverDeleteProhibited", "x"} @@
    "contact" :> {"ok", "linked", "pendingDelete", "pendingTransfer",
                  "clientDeleteProhibited", "serverTransferProhibited", "x"}

-----------------------------------------------------------------------------
\* The types of the jobs' variables.
BatchTypeOK == ListingTypeOK /\ SyncTypeOK /\ EscrowTypeOK /\ DepositTypeOK
=============================================================================
