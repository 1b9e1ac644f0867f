----------------------------- MODULE HostDetach -----------------------------
(***************************************************************************)
(* DomainService.RemoveAllDomainHosts, one iteration of its loop at a time,*)
(* called by the attempts of the PurgeDomain activity.                     *)
(*                                                                         *)
(*    for _, h := range dom.Hosts { dom.RemoveHost(h) ... delete the row } *)
(*                                                                         *)
(* Go evaluates dom.Hosts once, so the loop walks the slice it started     *)
(* with, while RemoveHost shifts the elements behind the removed one to    *)
(* the left in the same backing array and shortens dom.Hosts.  The loop    *)
(* therefore skips the host that moved into the place it just left, and    *)
(* reads stale copies at the end of the array.  Hosts are numbered; the    *)
(* database returns them in ascending or in descending order.              *)
(***************************************************************************)
EXTENDS HostRemoval, FiniteSets, SequencesExt

CONSTANTS MaxHosts,        \* hosts are 1 .. MaxHosts; 10 in the code
          MaximumAttempts  \* of the activity's retry policy; 3 in the code

ASSUME DetachAssumption == MaxHosts \in Nat /\ MaximumAttempts \in Nat \ {0}

VARIABLES
    links,    \* the domain_hosts rows of the domain
    attempt,  \* the attempt of the activity, from 1
    phase,    \* "call", "loop", "done", "failed"
    loaded,   \* the hosts that this attempt loaded
    array,    \* the backing array of dom.Hosts
    length,   \* len(dom.Hosts)
    i         \* the iteration of the loop, from 1

vars == <<links, attempt, phase, loaded, array, length, i>>

Init ==
    /\ links \in SUBSET (1 .. MaxHosts)
    /\ attempt = 1
    /\ phase = "call"
    /\ loaded = {}
    /\ array = << >>
    /\ length = 0
    /\ i = 1

Ascending(S) ==
    [j \in 1 .. Cardinality(S) |->
        CHOOSE h \in S : Cardinality({g \in S : g <= h}) = j]

Call ==
    /\ phase = "call"
    /\ phase' = "loop"
    /\ loaded' = links
    /\ array' \in {Ascending(links), Reverse(Ascending(links))}
    /\ length' = Cardinality(links)
    /\ i' = 1
    /\ UNCHANGED <<links, attempt>>

\* Mutant: the whole backing array is searched.
FoundAnywhere(h) == {j \in DOMAIN array : array[j] = h}

\* containsHost searches the first length elements only.
Found(h) == {j \in 1 .. length : array[j] = h}

\* Mutant: the element at index stays, the last one is cut off.
CompactedShort(index) == array

\* append(d.Hosts[:index], d.Hosts[index+1:]...), in place.
Compacted(index) ==
    [j \in DOMAIN array |-> IF j \in index .. length - 1 THEN array[j + 1]
                            ELSE array[j]]

RemoveHost ==
    /\ phase = "loop"
    /\ i <= Len(array)
    /\ \E index \in Found(array[i]) :
         /\ array' = Compacted(index)
         /\ links' = links \ {array[i]}
    /\ length' = length - 1
    /\ i' = i + 1
    /\ UNCHANGED <<attempt, phase, loaded>>

\* ErrHostNotFound: the call returns before it saves the domain.
HostNotFound ==
    /\ phase = "loop"
    /\ i <= Len(array)
    /\ Found(array[i]) = {}
    /\ phase' = "failed"
    /\ UNCHANGED <<links, attempt, loaded, array, length, i>>

SaveDomain ==
    /\ phase = "loop"
    /\ i > Len(array)
    /\ phase' = "done"
    /\ UNCHANGED <<links, attempt, loaded, array, length, i>>

\* Mutant: one attempt less.
RetryLess ==
    /\ phase = "failed"
    /\ attempt < MaximumAttempts - 1
    /\ attempt' = attempt + 1
    /\ phase' = "call"
    /\ UNCHANGED <<links, loaded, array, length, i>>

Retry ==
    /\ phase = "failed"
    /\ attempt < MaximumAttempts
    /\ attempt' = attempt + 1
    /\ phase' = "call"
    /\ UNCHANGED <<links, loaded, array, length, i>>

Next == Call \/ RemoveHost \/ HostNotFound \/ SaveDomain \/ Retry

\* A Go loop runs to its end, and Temporal retries a failed activity.
Spec == Init /\ [][Next]_vars /\ WF_vars(Next)

-----------------------------------------------------------------------------
Returned == phase \in {"done", "failed"}

\* The loop does what HostRemoval says, for every number of hosts: it deletes
\* Detached(k) of the k associations it loaded, and fails exactly for k > 2.
\* The hosts that dom.Hosts still holds are those whose association is still
\* stored: an early return leaves the entity and the table in agreement.
LoopSummary ==
    /\ Returned => LET k == Cardinality(loaded)
                   IN  /\ Cardinality(loaded \ links) = Detached(k)
                       /\ phase = "failed" <=> DetachFails(k)
    /\ phase # "call" => {array[j] : j \in 1 .. length} = links

\* A purge succeeds within its attempts, though single attempts fail: with at
\* most MaxHostsPerDomain hosts the retry policy is just long enough.
PurgeCompletes == <>(phase = "done" /\ links = {})

\* "RemoveAllDomainHosts purges/dissasociates all hosts from a domain": when
\* the call returns, no association is left.
AllHostsRemoved == Returned => links = {}
=============================================================================
