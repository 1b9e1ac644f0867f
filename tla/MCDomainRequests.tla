-------------------------- MODULE MCDomainRequests --------------------------
(***************************************************************************)
(* Small instances of DomainRequests for TLC.  A command set is written as *)
(* changes to a base command, one line for each input of interest.         *)
(***************************************************************************)
EXTENDS DomainRequests, TLC

CONSTANTS r1, r2, h1, h2, h3, h4, n1, n2

MCSponsor == [h \in Hosts |-> IF h = h3 THEN r2 ELSE r1]
MCSponsorAllR1 == [h \in Hosts |-> r1]

ZeroAdm == [status |-> {}, created |-> 0, expiry |-> 0, addEnd |-> 0,
            redEnd |-> 0, purge |-> 0]

Base(op, n) ==
    [op |-> op, name |-> n, clid |-> r1, years |-> 1, flag |-> "ok",
     hosts |-> {}, toggle |-> FALSE, adm |-> ZeroAdm]

Plain(ops, n) == {Base(op, n) : op \in ops}

Toggles(op, flags, n) == {[Base(op, n) EXCEPT !.flag = s] : s \in flags}

OnHosts(op, hs, n) == {[Base(op, n) EXCEPT !.hosts = {h}] : h \in hs}

\* One process: status changes, the life cycle, drop catching and the
\* administrator's edits, in every order.
SerialCommands ==
    Plain({"RegisterDomain", "RenewDomain", "AutoRenewDomain",
           "MarkDomainForDeletion", "ExpireDomain", "RestoreDomain",
           "PurgeDomain", "DeleteDomainByName"}, n1)
    \cup {[Base("DropCatchDomain", n1) EXCEPT !.toggle = b] : b \in BOOLEAN}
    \cup {[Base("RenewDomain", n1) EXCEPT !.toggle = TRUE],
          [Base("RenewDomain", n1) EXCEPT !.toggle = TRUE, !.years = -1],
          [Base("AutoRenewDomain", n1) EXCEPT !.years = -1],
          [Base("DeleteDomainByName", n1) EXCEPT !.toggle = TRUE]}
    \cup Toggles("SetStatus", {"clientUpdateProhibited", "pendingDelete"}, n1)
    \cup Toggles("UnSetStatus", {"clientUpdateProhibited", "pendingDelete"}, n1)
    \cup OnHosts("AddHostToDomain", {h1}, n1)
    \cup OnHosts("RemoveHostFromDomain", {h1}, n1)

\* One process and two registrars: everything that touches the hosts of a
\* domain, with and without the update prohibitions, and the administrator's
\* ways to create and edit domains.
HostCommands ==
    {[Base("RegisterDomain", n1) EXCEPT !.hosts = hs] :
        hs \in {{}, {h1, h2}, {h3}}}
    \cup {[Base("RegisterDomain", n1) EXCEPT !.clid = r2, !.hosts = {h3}]}
    \cup {[Base("CreateDomain", n2) EXCEPT !.adm.status = st, !.clid = r2] :
            st \in {{}, {"ok", "pendingDelete"}}}
    \cup {Base("BulkCreate", n1), [Base("BulkCreate", n2) EXCEPT !.clid = r2]}
    \cup {[Base("AddHostToDomain", n1) EXCEPT !.hosts = {h}, !.toggle = b] :
            h \in Hosts, b \in BOOLEAN}
    \cup OnHosts("AddHostToDomain", {h3}, n2)
    \cup OnHosts("RemoveHostFromDomain", {h1, h3}, n1)
    \cup OnHosts("RemoveHostFromDomain", {h3}, n2)
    \cup {[Base("DeleteDomainByName", n1) EXCEPT !.toggle = b] : b \in BOOLEAN}
    \cup Plain({"PurgeDomain"}, n1)
    \cup {[Base("UpdateDomain", n1) EXCEPT !.adm.status =
              {"clientUpdateProhibited", "inactive"}]}

\* Two processes: the life cycle of one name that may be registered twice.
RaceCommands ==
    Plain({"RegisterDomain", "RenewDomain", "MarkDomainForDeletion",
           "ExpireDomain", "RestoreDomain", "PurgeDomain"}, n1)
    \cup Toggles("SetStatus", {"clientDeleteProhibited"}, n1)

\* One process: a domain with or without hosts whose status is changed.
StatusCommands ==
    Plain({"RegisterDomain", "PurgeDomain"}, n1)
    \cup OnHosts("AddHostToDomain", {h1}, n1)
    \cup Toggles("SetStatus", {"serverDeleteProhibited", "clientHold"}, n1)

ProcSymmetry == Permutations(Procs)
=============================================================================
