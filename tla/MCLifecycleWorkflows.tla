------------------------ MODULE MCLifecycleWorkflows ------------------------
(***************************************************************************)
(* Small instances of LifecycleWorkflows for TLC: one name, a registrar    *)
(* that opted in for auto-renewal and one that did not, one client.        *)
(***************************************************************************)
EXTENDS LifecycleWorkflows, TLC

CONSTANTS r1, r2, n1

MCSponsor == [h \in Hosts |-> r1]

Base(op) ==
    [NoCommand EXCEPT !.op = op, !.name = n1, !.clid = r1, !.years = 1]

\* An administrator creates a domain whose registration ended, with either
\* registrar, or a deleted one; a client restores it or flags it for drop
\* catching, or registers the name.
LifecycleCommands ==
    {[Base("CreateDomain") EXCEPT
         !.clid = r, !.adm = [@ EXCEPT !.created = 1, !.expiry = 1]] :
        r \in Registrars}
    \cup {[Base("CreateDomain") EXCEPT !.adm =
              [@ EXCEPT !.status = {"pendingDelete", "inactive"}, !.created = 1,
                        !.expiry = 1, !.redEnd = 2, !.purge = 2]]}
    \cup {Base("RestoreDomain"), Base("RegisterDomain")}
    \cup {[Base("DropCatchDomain") EXCEPT !.toggle = TRUE]}

\* A client registers, deletes and restores.
RestoreCommands ==
    {Base(op) : op \in {"RegisterDomain", "MarkDomainForDeletion",
                        "RestoreDomain"}}
=============================================================================
