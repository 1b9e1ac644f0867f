--------------------------- MODULE DomainRequests ---------------------------
(***************************************************************************)
(* The write endpoints of the domain API: each request is served by a      *)
(* process (a goroutine of the HTTP server) that runs the handler of       *)
(* DomainController and the method of DomainService it calls.  The service *)
(* takes no lock and opens no transaction around a method: it loads a row, *)
(* calls a method of the entity, and saves the whole row it ends up with,  *)
(* so that the requests of different processes interleave between their    *)
(* statements.  One action is one statement on the database, with the      *)
(* computation that follows or precedes it.                                *)
(***************************************************************************)
EXTENDS DomainEntity, HostRemoval, Functions

CONSTANTS
    Names,          \* the domain names
    Procs,          \* the processes that serve requests
    Workers,        \* those whose caller, a workflow, acts on the response
    Commands,       \* the commands the callers may send
    AllowAutoRenew, \* the auto-renew setting of the GA phase policy
    AutoRenewRars,  \* the registrars that opted in for auto-renewal
    MaxTime,        \* bound: the last tick of the clock
    MaxExpiry,      \* bound: the last expiry date a renewal may reach (from 1)
    MaxRoid         \* bound: the number of rows ever created

RowOps == {"RenewDomain", "AutoRenewDomain", "MarkDomainForDeletion",
           "ExpireDomain", "RestoreDomain", "DropCatchDomain", "SetStatus",
           "UnSetStatus", "UpdateDomain"}
HostOps == {"AddHostToDomain", "RemoveHostFromDomain", "PurgeDomain"}
Ops == RowOps \cup HostOps \cup
       {"RegisterDomain", "CreateDomain", "BulkCreate", "DeleteDomainByName"}

(***************************************************************************)
(* A command has the fields of every kind of command; an operation reads   *)
(* the ones it needs.  adm holds the fields an administrator writes with   *)
(* Create and UpdateDomain.  toggle is the force flag of a renewal and of  *)
(* AddHostToDomain, the drophosts flag of a deletion, and the value of the *)
(* drop-catch flag.                                                        *)
(***************************************************************************)
AdminFields ==
    [status : SUBSET Flags, created : Int, expiry : Int, addEnd : Int,
     redEnd : Int, purge : Int]

Command ==
    [op : Ops, name : Names, clid : Registrars, years : Int, flag : Flags,
     hosts : SUBSET Hosts, toggle : BOOLEAN, adm : AdminFields]

ASSUME CommandsAssumption == Commands \subseteq Command
ASSUME RequestsAssumption ==
    /\ Workers \subseteq Procs
    /\ AllowAutoRenew \in BOOLEAN
    /\ AutoRenewRars \subseteq Registrars
    /\ Names # {}
ASSUME BoundsAssumption ==
    MaxTime \in Nat \ {0} /\ MaxExpiry \in Nat /\ MaxRoid \in Nat

VARIABLES
    clock,    \* the current time
    db,       \* the domains table: the row of each name, or NoRow
    links,    \* the domain_hosts table: the hosts of the row of each name
    linked,   \* the hosts whose Linked flag is set in the hosts table
    nndn,     \* the names that have an NNDN record, and are blocked
    nextRoid, \* the next identifier the RoID generator hands out
    req,      \* what each process is doing
    edited    \* history: the rows an administrator created or edited

vars == <<clock, db, links, linked, nndn, nextRoid, req, edited>>

NoRow == NewDomain(0, CHOOSE r \in Registrars : TRUE, 0)

NoCommand ==
    [op |-> "RenewDomain", name |-> CHOOSE n \in Names : TRUE,
     clid |-> CHOOSE r \in Registrars : TRUE, years |-> 0, flag |-> "ok",
     hosts |-> {}, toggle |-> FALSE,
     adm |-> [status |-> {}, created |-> 0, expiry |-> 0, addEnd |-> 0,
              redEnd |-> 0, purge |-> 0]]

(***************************************************************************)
(* row and hosts are the domain as the process loaded it, at the time at.  *)
(* dom, drop and short belong to RemoveAllDomainHosts, which loads the     *)
(* domain a second time: drop is what its loop still has to delete, and    *)
(* short says that the loop will end with ErrHostNotFound.                 *)
(***************************************************************************)
PCs == {"idle", "loaded", "available", "setLinked", "saveRemoved", "count",
        "unsetLinked", "detach", "unlink", "nndn", "delete"}

Request ==
    [pc : PCs, res : {"none", "ok", "err"}, cmd : Command, row : Row,
     hosts : SUBSET Hosts, at : Int, dom : Row, drop : SUBSET Hosts,
     short : BOOLEAN]

IdleWith(r) ==
    [pc |-> "idle", res |-> r, cmd |-> NoCommand, row |-> NoRow, hosts |-> {},
     at |-> 0, dom |-> NoRow, drop |-> {}, short |-> FALSE]

Init ==
    /\ clock = 1
    /\ db = [n \in Names |-> NoRow]
    /\ links = [n \in Names |-> {}]
    /\ linked = {}
    /\ nndn = {}
    /\ nextRoid = 1
    /\ req = [p \in Procs |-> IdleWith("none")]
    /\ edited = {}

-----------------------------------------------------------------------------
Exists(n) == db[n].roid # 0

\* The response of process p; only a workflow acts on it.
Answer(p, r) == IF p \in Workers THEN r ELSE "none"

Respond(p, r) == req' = [req EXCEPT ![p] = IdleWith(Answer(p, r))]

\* A process on its way to statement pc, with nothing but its command left.
Heading(p, pc) ==
    [IdleWith("none") EXCEPT !.pc = pc, !.cmd = req[p].cmd]

Goto(p, pc) == req' = [req EXCEPT ![p] = Heading(p, pc)]

\* time.Now() is read some time between the load and the statement at hand.
Now(p) == req[p].at .. clock

At(p, pc, op) == req[p].pc = pc /\ req[p].cmd.op = op

\* Mutant: the row is updated by name.
SaveableByName(n, row, hs) == Exists(n) \/ hs = {}

\* GORM's Save: UPDATE by primary key; when that matches no row, an INSERT
\* that updates on a conflict of the primary key.  The join rows of the
\* loaded hosts are written first, and have no row to refer to when the
\* domain is gone; the name is unique.
Saveable(n, row, hs) == IF Exists(n) THEN db[n].roid = row.roid ELSE hs = {}

\* UpdateDomain of the repository with the row the entity method returned;
\* rows is empty when that method failed.
SaveOr(p, rows, hs, onSaved) ==
    LET n == req[p].cmd.name
    IN  \/ \E row \in rows :
             /\ Saveable(n, row, hs)
             /\ db' = [db EXCEPT ![n] = row]
             /\ links' = [links EXCEPT ![n] = @ \cup hs]
             /\ req' = [req EXCEPT ![p] = onSaved]
        \/ /\ \A row \in rows : ~Saveable(n, row, hs)
           /\ Respond(p, "err")
           /\ UNCHANGED <<db, links>>

UpdateRow(p, rows) ==
    /\ SaveOr(p, rows, {}, IdleWith(Answer(p, "ok")))
    /\ UNCHANGED <<clock, linked, nndn, nextRoid, edited>>

-----------------------------------------------------------------------------
(* Accepting a request.                                                    *)

\* GetDomainByName: the first statement of every handler of an existing
\* domain.  Only the operations on hosts preload the hosts.
LoadDomain(p, c) ==
    /\ req[p].pc = "idle"
    /\ c.op \in RowOps \cup HostOps
    /\ Exists(c.name)
    /\ req' = [req EXCEPT ![p] =
                 [IdleWith("none") EXCEPT
                    !.pc = "loaded", !.cmd = c, !.row = db[c.name],
                    !.hosts = IF c.op \in HostOps THEN links[c.name] ELSE {},
                    !.at = clock]]
    /\ UNCHANGED <<clock, db, links, linked, nndn, nextRoid, edited>>

DomainNotFound(p, c) ==
    /\ req[p].pc = "idle"
    /\ c.op \in RowOps \cup HostOps
    /\ ~Exists(c.name)
    /\ Respond(p, "err")
    /\ UNCHANGED <<clock, db, links, linked, nndn, nextRoid, edited>>

\* A step of the handler fails: the database or the network does, or the TLD,
\* its GA phase, a price, an exchange rate or a host address is missing.
Abort(p) ==
    /\ req[p].pc # "idle"
    /\ Respond(p, "err")
    /\ UNCHANGED <<clock, db, links, linked, nndn, nextRoid, edited>>

-----------------------------------------------------------------------------
(* Operations that load a row without its hosts, change it and save it.    *)

\* Mutant: no lower bound.
QuotableUpTo(years) == years <= 10

Quotable(years) == years \in 1 .. 10

RenewDomain(p) ==
    LET c == req[p].cmd
    IN  /\ At(p, "loaded", "RenewDomain")
        /\ req[p].row.expiry + c.years * YEAR \in 1 .. MaxExpiry
        /\ \E now \in Now(p) :
             UpdateRow(p, {x \in IF c.toggle THEN ForceRenew(req[p].row, c.years)
                                 ELSE Renew(req[p].row, c.years, now) :
                             req[p].row.clid = c.clid /\ Quotable(c.years)})

\* A quote for one year is all that is asked, whatever the years.
AutoRenewDomain(p) ==
    LET c == req[p].cmd
    IN  /\ At(p, "loaded", "AutoRenewDomain")
        /\ req[p].row.expiry + c.years * YEAR \in 1 .. MaxExpiry
        /\ \E now \in Now(p) :
             UpdateRow(p, {x \in Renew(req[p].row, c.years, now) :
                             AllowAutoRenew /\ req[p].row.clid \in AutoRenewRars})

MarkDomainForDeletion(p) ==
    /\ At(p, "loaded", "MarkDomainForDeletion")
    /\ \E now \in Now(p) :
         UpdateRow(p, MarkForDeletion(req[p].row, req[p].hosts, now))

ExpireDomain(p) ==
    /\ At(p, "loaded", "ExpireDomain")
    /\ \E now \in Now(p) : UpdateRow(p, Expire(req[p].row, req[p].hosts, now))

RestoreDomain(p) ==
    /\ At(p, "loaded", "RestoreDomain")
    /\ \E now \in Now(p) : UpdateRow(p, Restore(req[p].row, req[p].hosts, now))

DropCatchDomain(p) ==
    /\ At(p, "loaded", "DropCatchDomain")
    /\ UpdateRow(p, {[req[p].row EXCEPT !.dropCatch = req[p].cmd.toggle]})

SetDomainStatus(p) ==
    LET r == req[p]
    IN  /\ At(p, "loaded", "SetStatus")
        /\ UpdateRow(p, WithStatus(r.row,
                            SetStatus(r.row.status, r.cmd.flag, r.hosts # {})))

UnSetDomainStatus(p) ==
    LET r == req[p]
    IN  /\ At(p, "loaded", "UnSetStatus")
        /\ UpdateRow(p, WithStatus(r.row,
                            UnSetStatus(r.row.status, r.cmd.flag, r.hosts # {})))

\* The administrator's update replaces the status and the dates wholesale;
\* only the validity of the new status is checked.
UpdateDomain(p) ==
    LET a   == req[p].cmd.adm
        new == [req[p].row EXCEPT
                  !.status = a.status, !.created = a.created,
                  !.expiry = a.expiry, !.addEnd = a.addEnd,
                  !.redEnd = a.redEnd, !.purge = a.purge]
    IN  /\ At(p, "loaded", "UpdateDomain")
        /\ SaveOr(p, {x \in {new} : Validate(a.status)}, {},
                  IdleWith(Answer(p, "ok")))
        /\ edited' = IF db' = db THEN edited ELSE edited \cup {new.roid}
        /\ UNCHANGED <<clock, linked, nndn, nextRoid>>

-----------------------------------------------------------------------------
(* Creating domains.                                                       *)

\* CheckDomainAvailability: no domain and no NNDN of that name.  (Two reads;
\* no operation here removes an NNDN, so they see what the first one could.)
CheckDomainAvailability(p, c) ==
    /\ req[p].pc = "idle"
    /\ c.op = "RegisterDomain"
    /\ IF ~Exists(c.name) /\ c.name \notin nndn
       THEN req' = [req EXCEPT ![p] = [IdleWith("none") EXCEPT
                        !.pc = "available", !.cmd = c, !.at = clock]]
       ELSE Respond(p, "err")
    /\ UNCHANGED <<clock, db, links, linked, nndn, nextRoid, edited>>

\* The associations are saved with the row; the Linked flags the entity set on
\* the hosts are not, as GORM leaves rows that exist alone.  A name that was
\* taken in the meantime is a unique violation.
RegisterDomain(p) ==
    LET c == req[p].cmd
        rows(now) == {x \in UNION {AddHosts(d, c.hosts) :
                              d \in Registration(nextRoid, c.clid, c.years, now)} :
                        Quotable(c.years) /\ ~Exists(c.name)}
    IN  /\ At(p, "available", "RegisterDomain")
        /\ nextRoid <= MaxRoid
        /\ \E now \in Now(p) :
             \/ \E row \in rows(now) :
                  /\ db' = [db EXCEPT ![c.name] = row]
                  /\ links' = [links EXCEPT ![c.name] = c.hosts]
                  /\ nextRoid' = nextRoid + 1
                  /\ Respond(p, "ok")
             \/ /\ rows(now) = {}
                /\ Respond(p, "err")
                /\ UNCHANGED <<db, links, nextRoid>>
        /\ UNCHANGED <<clock, linked, nndn, edited>>

\* domainFromCreateDomainCommand: a field the command leaves zero keeps the
\* value NewDomain gave it, so the expiry date may stay the zero time.
AdminDomain(c, roid, now) ==
    [NewDomain(roid, c.clid, now) EXCEPT
        !.status  = IF IsNil(c.adm.status) THEN @ ELSE c.adm.status,
        !.created = IF c.adm.created = 0 THEN @ ELSE c.adm.created,
        !.expiry  = c.adm.expiry,
        !.years   = c.years,
        !.addEnd  = c.adm.addEnd,
        !.redEnd  = c.adm.redEnd,
        !.purge   = c.adm.purge]

AdminMayCreate(c) ==
    ~Exists(c.name) /\ Validate(AdminDomain(c, nextRoid, clock).status)

\* No availability check: the administrator may create a blocked name.
CreateDomain(p, c) ==
    /\ req[p].pc = "idle"
    /\ c.op = "CreateDomain"
    /\ nextRoid <= MaxRoid
    /\ \/ /\ AdminMayCreate(c)
          /\ db' = [db EXCEPT ![c.name] = AdminDomain(c, nextRoid, clock)]
          /\ nextRoid' = nextRoid + 1
          /\ edited' = edited \cup {nextRoid}
          /\ Respond(p, "ok")
       \/ /\ ~AdminMayCreate(c)
          /\ Respond(p, "err")
          /\ UNCHANGED <<db, nextRoid, edited>>
    /\ UNCHANGED <<clock, links, linked, nndn>>

\* One INSERT for all the commands: all the rows are created, or none.
BulkCreate(p, cs) ==
    LET valid == /\ \A c \in cs : AdminMayCreate(c)
                 /\ \A c, d \in cs : c.name = d.name => c = d
    IN  /\ req[p].pc = "idle"
        /\ \A c \in cs : c.op = "BulkCreate"
        /\ \/ /\ valid
              /\ \E last \in nextRoid .. MaxRoid :
                   \E roid \in Bijection(cs, nextRoid .. last) :
                     /\ db' = [n \in Names |->
                                 IF \E c \in cs : c.name = n
                                 THEN LET c == CHOOSE x \in cs : x.name = n
                                      IN  AdminDomain(c, roid[c], clock)
                                 ELSE db[n]]
                     /\ nextRoid' = last + 1
                     /\ edited' = edited \cup (nextRoid .. last)
              /\ Respond(p, "ok")
           \/ /\ ~valid
              /\ Respond(p, "err")
              /\ UNCHANGED <<db, nextRoid, edited>>
        /\ UNCHANGED <<clock, links, linked, nndn>>

-----------------------------------------------------------------------------
(* Hosts of a domain.                                                      *)

\* A host that is already associated is no error, and nothing is saved.
AddHostToDomain(p) ==
    LET r == req[p]
    IN  /\ At(p, "loaded", "AddHostToDomain")
        /\ \E h \in r.cmd.hosts :
             IF h \in r.hosts /\ (CanBeUpdated(r.row) \/ r.cmd.toggle)
             THEN Respond(p, "ok") /\ UNCHANGED <<db, links>>
             ELSE SaveOr(p, AddHost(r.row, r.hosts, h, r.cmd.toggle),
                         r.hosts \cup {h}, Heading(p, "setLinked"))
        /\ UNCHANGED <<clock, linked, nndn, nextRoid, edited>>

\* UpdateHost with the Linked flag the entity set.
SetHostLinked(p) ==
    /\ req[p].pc = "setLinked"
    /\ linked' = linked \cup req[p].cmd.hosts
    /\ Respond(p, "ok")
    /\ UNCHANGED <<clock, db, links, nndn, nextRoid, edited>>

\* The join rows are keyed by the RoID of the domain that was loaded.
LinksWithout(n, roid, h) ==
    [links EXCEPT ![n] = IF db[n].roid = roid THEN @ \ {h} ELSE @]

RemoveHostFromDomain(p) ==
    LET r == req[p]
    IN  /\ At(p, "loaded", "RemoveHostFromDomain")
        /\ \E h \in r.cmd.hosts :
             \/ \E d \in RemoveHost(r.row, r.hosts, h) :
                  /\ links' = LinksWithout(r.cmd.name, r.row.roid, h)
                  /\ req' = [req EXCEPT ![p] = [r EXCEPT
                               !.pc = "saveRemoved", !.row = d, !.hosts = @ \ {h},
                               !.at = 0]]
             \/ /\ RemoveHost(r.row, r.hosts, h) = {}
                /\ Respond(p, "err")
                /\ UNCHANGED links
        /\ UNCHANGED <<clock, db, linked, nndn, nextRoid, edited>>

\* Saving the domain writes the associations it was loaded with again.
SaveAfterRemoveHost(p) ==
    /\ req[p].pc = "saveRemoved"
    /\ SaveOr(p, {req[p].row}, req[p].hosts, Heading(p, "count"))
    /\ UNCHANGED <<clock, linked, nndn, nextRoid, edited>>

\* GetHostAssociationCount.  When the query fails the count stays 0.
CountHostAssociations(p) ==
    /\ req[p].pc = "count"
    /\ \/ /\ \E n \in Names : links[n] \cap req[p].cmd.hosts # {}
          /\ Respond(p, "ok")
       \/ Goto(p, "unsetLinked")
    /\ UNCHANGED <<clock, db, links, linked, nndn, nextRoid, edited>>

UnsetHostLinked(p) ==
    /\ req[p].pc = "unsetLinked"
    /\ linked' = linked \ req[p].cmd.hosts
    /\ Respond(p, "ok")
    /\ UNCHANGED <<clock, db, links, nndn, nextRoid, edited>>

-----------------------------------------------------------------------------
(* Removing all hosts, deleting and purging.                               *)

\* The second load of the domain decides what the loop will delete: Detached(k)
\* of k associations, and an ErrHostNotFound when DetachFails(k).
RemoveAllDomainHosts(p) ==
    LET n == req[p].cmd.name
        k == Cardinality(links[n])
    IN  /\ req[p].pc = "detach"
        /\ \/ /\ Exists(n)
              /\ \E drop \in SUBSET links[n] :
                   /\ Cardinality(drop) = Detached(k)
                   /\ req' = [req EXCEPT ![p] = [@ EXCEPT
                                !.pc = "unlink", !.drop = drop, !.short = DetachFails(k),
                                !.dom = IF k = 0 THEN db[n] ELSE
                                        [db[n] EXCEPT !.status =
                                           SetUnsetInactiveStatus(@, FALSE)]]]
           \/ ~Exists(n) /\ Respond(p, "err")
        /\ UNCHANGED <<clock, db, links, linked, nndn, nextRoid, edited>>

UnlinkHost(p) ==
    /\ req[p].pc = "unlink"
    /\ \E h \in req[p].drop :
         /\ links' = LinksWithout(req[p].cmd.name, req[p].dom.roid, h)
         /\ req' = [req EXCEPT ![p].drop = @ \ {h}]
    /\ UNCHANGED <<clock, db, linked, nndn, nextRoid, edited>>

SaveAfterDetach(p) ==
    LET r == req[p]
    IN  /\ r.pc = "unlink"
        /\ r.drop = {}
        /\ SaveOr(p, {d \in {r.dom} : ~r.short}, {},
                  [r EXCEPT !.short = FALSE, !.dom = NoRow,
                            !.pc = IF r.cmd.op = "PurgeDomain" THEN "nndn"
                                   ELSE "delete"])
        /\ UNCHANGED <<clock, linked, nndn, nextRoid, edited>>

\* The handler of DELETE /domains/{name}, with or without drophosts.
DeleteDomainByName(p, c) ==
    /\ req[p].pc = "idle"
    /\ c.op = "DeleteDomainByName"
    /\ req' = [req EXCEPT ![p] = [IdleWith("none") EXCEPT
                 !.pc = IF c.toggle THEN "detach" ELSE "delete", !.cmd = c]]
    /\ UNCHANGED <<clock, db, links, linked, nndn, nextRoid, edited>>

\* PurgeDomain: the purge date has passed.  A zero purge date always has.
PurgeDomain(p) ==
    /\ At(p, "loaded", "PurgeDomain")
    /\ \E now \in Now(p) :
         IF CanBePurged(req[p].row, now)
         THEN req' = [req EXCEPT ![p] =
                        [Heading(p, IF req[p].hosts # {} THEN "detach" ELSE "nndn")
                            EXCEPT !.row = req[p].row]]
         ELSE Respond(p, "err")
    /\ UNCHANGED <<clock, db, links, linked, nndn, nextRoid, edited>>

\* Mutant: the record is created under the registrar.
CreateNNDNOfRegistrar(p) ==
    /\ req[p].pc = "nndn"
    /\ nndn' = IF req[p].row.dropCatch THEN nndn \cup {req[p].row.clid} ELSE nndn
    /\ Goto(p, "delete")
    /\ UNCHANGED <<clock, db, links, linked, nextRoid, edited>>

\* An NNDN that is already there is an error, and the row is not deleted.
CreateNNDN(p) ==
    LET n == req[p].cmd.name
    IN  /\ req[p].pc = "nndn"
        /\ \/ /\ ~req[p].row.dropCatch
              /\ Goto(p, "delete")
              /\ UNCHANGED nndn
           \/ /\ req[p].row.dropCatch /\ n \notin nndn
              /\ nndn' = nndn \cup {n}
              /\ Goto(p, "delete")
           \/ /\ req[p].row.dropCatch /\ n \in nndn
              /\ Respond(p, "err")
              /\ UNCHANGED nndn
        /\ UNCHANGED <<clock, db, links, linked, nextRoid, edited>>

\* Mutant: the associations are not looked at.
DeleteRowAnyway(p) ==
    /\ req[p].pc = "delete"
    /\ db' = [db EXCEPT ![req[p].cmd.name] = NoRow]
    /\ Respond(p, "ok")
    /\ UNCHANGED <<clock, links, linked, nndn, nextRoid, edited>>

\* DELETE by name; the foreign key of domain_hosts refuses to orphan an
\* association, and a name that is not there is no error.
DeleteRow(p) ==
    LET n == req[p].cmd.name
    IN  /\ req[p].pc = "delete"
        /\ IF links[n] = {}
           THEN db' = [db EXCEPT ![n] = NoRow] /\ Respond(p, "ok")
           ELSE Respond(p, "err") /\ UNCHANGED db
        /\ UNCHANGED <<clock, links, linked, nndn, nextRoid, edited>>

-----------------------------------------------------------------------------
Tick ==
    /\ clock < MaxTime
    /\ clock' = clock + 1
    /\ UNCHANGED <<db, links, linked, nndn, nextRoid, req, edited>>

Accept(p) ==
    \/ \E c \in Commands :
         \/ LoadDomain(p, c)
         \/ DomainNotFound(p, c)
         \/ CheckDomainAvailability(p, c)
         \/ CreateDomain(p, c)
         \/ DeleteDomainByName(p, c)
    \/ \E cs \in (SUBSET {c \in Commands : c.op = "BulkCreate"}) \ {{}} :
         BulkCreate(p, cs)

Serve(p) ==
    \/ RenewDomain(p)
    \/ AutoRenewDomain(p)
    \/ MarkDomainForDeletion(p)
    \/ ExpireDomain(p)
    \/ RestoreDomain(p)
    \/ DropCatchDomain(p)
    \/ SetDomainStatus(p)
    \/ UnSetDomainStatus(p)
    \/ UpdateDomain(p)
    \/ RegisterDomain(p)
    \/ AddHostToDomain(p)
    \/ SetHostLinked(p)
    \/ RemoveHostFromDomain(p)
    \/ SaveAfterRemoveHost(p)
    \/ CountHostAssociations(p)
    \/ UnsetHostLinked(p)
    \/ RemoveAllDomainHosts(p)
    \/ UnlinkHost(p)
    \/ SaveAfterDetach(p)
    \/ PurgeDomain(p)
    \/ CreateNNDN(p)
    \/ DeleteRow(p)

Next == Tick \/ \E p \in Procs : Accept(p) \/ Serve(p) \/ Abort(p)

Spec == Init /\ [][Next]_vars

-----------------------------------------------------------------------------
(* What holds of the table whatever the interleaving of the requests.      *)

\* Every variable stays in the set of values its code counterpart can hold.
TypeOK ==
    /\ clock \in Nat
    /\ db \in [Names -> Row]
    /\ links \in [Names -> SUBSET Hosts]
    /\ linked \subseteq Hosts
    /\ nndn \subseteq Names
    /\ nextRoid \in Nat \ {0}
    /\ req \in [Procs -> Request]
    /\ edited \subseteq Nat

\* No stored domain has a status DomainStatus.Validate would reject for a
\* combination: ok next to a prohibition or a pending action, a pending action
\* that is prohibited, or two pending actions.  Requests that interleave save
\* whole rows, so that the flags of a row always come from one request.
StatusConsistent == \A n \in Names : Consistent(db[n].status)

\* UpdateDomain with a row that was loaded before its domain was deleted and
\* the name registered again never lands on the new registration: a name that
\* is registered before and after a step belongs to the same row.
IncarnationStable ==
    [][\A n \in Names :
         Exists(n) /\ Exists(n)' => db'[n].roid = db[n].roid]_vars

Unedited(d) == d.roid # 0 /\ d.roid \notin edited

\* RenewedYears accounts for the expiry date: whatever registrations, renewals,
\* forced renewals and lost updates a row went through, it expires its renewed
\* years and the one year of its registration after its creation, unless an
\* administrator wrote its dates.
RenewalAccounting ==
    \A n \in Names : Unedited(db[n]) =>
        db[n].expiry = db[n].created + (db[n].years + 1) * YEAR

\* The redemption period of a domain that was never edited by an administrator
\* ends no later than its purge date, through MarkForDeletion in or after the
\* add grace period, Expire and Restore in any order: while a domain can be
\* restored it cannot be purged.
RedemptionBeforePurge ==
    \A n \in Names : Unedited(db[n]) => db[n].redEnd <= db[n].purge

\* No association outlives its domain, though PurgeDomain and
\* DeleteDomainByName remove the associations and the row in separate
\* statements while AddHostToDomain and RemoveHostFromDomain write them.
NoOrphanLinks == \A n \in Names : ~Exists(n) => links[n] = {}

\* The hosts of a domain are sponsored by the registrar of the domain, also
\* after the name was purged and registered by another registrar, and when a
\* request writes the hosts back that it loaded before.
SponsorsAgree ==
    \A n \in Names : \A h \in links[n] : Sponsor[h] = db[n].clid

-----------------------------------------------------------------------------
(* What holds when requests are served one at a time.                      *)

ServedBy(ops) == \E p \in Procs : req[p].pc # "idle" /\ req[p].cmd.op \in ops

SameRow(n) == Exists(n) /\ db'[n].roid = db[n].roid

\* PurgeDomain deletes a domain only after its purge date, with all its hosts
\* dissociated, and with the name blocked when the domain was flagged for drop
\* catching, whatever attempts failed half-way before.
PurgeIsDue ==
    [][\A n \in Names :
         Exists(n) /\ ~Exists(n)' /\ ServedBy({"PurgeDomain"}) =>
            /\ db[n].purge < clock
            /\ links[n] = {}
            /\ db[n].dropCatch => n \in nndn]_vars

\* A domain in pendingDelete leaves it only when it is restored, when the
\* status is unset by name or edited by an administrator, or with its row: no
\* renewal, host change or expiry makes the deletion undone.
DeletionSticks ==
    [][\A n \in Names :
         /\ SameRow(n)
         /\ "pendingDelete" \in db[n].status
         /\ "pendingDelete" \notin db'[n].status
         => ServedBy({"RestoreDomain", "UnSetStatus", "UpdateDomain"})]_vars

\* The expiry date of a domain moves back only when an administrator edits it,
\* or when auto-renew is called with a negative number of years.
RenewalsAccumulate ==
    [][\A n \in Names :
         SameRow(n) /\ db'[n].expiry < db[n].expiry =>
            \/ ServedBy({"UpdateDomain"})
            \/ /\ ServedBy({"AutoRenewDomain"})
               /\ \E p \in Procs : req[p].cmd.years < 0]_vars

\* AddHost limits the hosts of a domain to MaxHostsPerDomain; no sequence of
\* adding, removing, registering and detaching hosts gets past the limit.
HostLimit ==
    \A n \in Names : Cardinality(links[n]) <= MaxHostsPerDomain

-----------------------------------------------------------------------------
(* What comments of the code say, and the code does not do.                *)

\* "Inactive is a special status that is set automatically depending on the
\* host associated with the Domain" (DomainStatus): when no request is being
\* served, a domain with hosts is not inactive.
InactiveMatchesHosts ==
    (\A p \in Procs : req[p].pc = "idle") =>
        \A n \in Names : Unedited(db[n]) /\ links[n] # {} =>
            "inactive" \notin db[n].status
=============================================================================
