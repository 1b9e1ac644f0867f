---------------------------- MODULE DomainEntity ----------------------------
(***************************************************************************)
(* The Domain entity: a row of the domains table, and the methods of       *)
(* entities.Domain that the domain service calls between loading a row and *)
(* saving it again.                                                        *)
(*                                                                         *)
(* A row keeps the fields some decision of the code depends on.  Time is   *)
(* counted in ticks from 1; the Go zero time, which every unset date has,  *)
(* is 0.  AddDate(y, 0, 0) adds y * YEAR ticks and AddDate(0, 0, d) adds d.*)
(* hs stands for d.Hosts, the hosts that were loaded with the row: {} when *)
(* the caller did not ask the repository to preload them, whatever the     *)
(* domain_hosts table holds.  A method that may fail is set-valued, as in  *)
(* module DomainStatus.                                                    *)
(***************************************************************************)
EXTENDS DomainStatus, Integers, FiniteSets

CONSTANTS
    Registrars,         \* the ClIDs of the registrars
    Hosts,              \* the host objects
    Sponsor,            \* the ClID each host object belongs to
    MaxHostsPerDomain,  \* 10 in the code
    YEAR,               \* ticks in a year
    RegistrationGP,     \* the add grace period of the GA phase policy
    RedemptionGP,       \* its redemption grace period
    PendingDeleteGP,    \* its pending-delete period
    MaxHorizon,         \* the years a domain may be renewed ahead
    RequiresValidation  \* whether a registration starts in pendingCreate

ASSUME RegistrarsAssumption == Registrars # {}
ASSUME HostsAssumption ==
    /\ IsFiniteSet(Hosts)
    /\ Sponsor \in [Hosts -> Registrars]
    /\ MaxHostsPerDomain \in Nat
ASSUME PolicyAssumption ==
    /\ YEAR \in Nat \ {0}
    /\ RegistrationGP \in Nat
    /\ RedemptionGP \in Nat
    /\ PendingDeleteGP \in Nat
    /\ MaxHorizon \in Nat
    /\ RequiresValidation \in BOOLEAN

Row ==
    [roid      : Nat,            \* primary key, unique for ever; 0: no row
     clid      : Registrars,     \* sponsoring registrar
     status    : SUBSET Flags,
     created   : Int,
     expiry    : Int,
     years     : Int,            \* RenewedYears
     addEnd    : Int,            \* RGPStatus.AddPeriodEnd
     redEnd    : Int,            \* RGPStatus.RedemptionPeriodEnd
     purge     : Int,            \* RGPStatus.PurgeDate
     dropCatch : BOOLEAN]

-----------------------------------------------------------------------------
\* Mutants: the end of the redemption period is taken for the purge date; the
\* redemption period is counted twice.
CanBePurgedAfterRedemption(d, now) == now > d.redEnd
CanBePurgedLater(d, now) == now > d.purge + RedemptionGP

CanBePurged(d, now) == now > d.purge

CanBeDeleted(d) == d.status \cap (DeleteProhibitions \cup {"pendingDelete"}) = {}

CanBeRenewed(d) == d.status \cap RenewProhibitions = {} /\ ~HasPendings(d.status)

CanBeUpdated(d) == d.status \cap (UpdateProhibitions \cup {"pendingUpdate"}) = {}

CanBeRestored(d, now) == now < d.redEnd /\ "pendingDelete" \in d.status

WithStatus(d, statuses) == {[d EXCEPT !.status = st] : st \in statuses}

-----------------------------------------------------------------------------
NewDomain(roid, clid, now) ==
    [roid |-> roid, clid |-> clid, status |-> NewDomainStatus,
     created |-> now, expiry |-> 0, years |-> 0,
     addEnd |-> 0, redEnd |-> 0, purge |-> 0, dropCatch |-> FALSE]

\* entities.RegisterDomain; the phase and the contact data policy are
\* resolved by the caller, which aborts when they are missing.
Registration(roid, clid, years, now) ==
    LET new == [NewDomain(roid, clid, now) EXCEPT
                  !.addEnd = now + RegistrationGP,
                  !.expiry = now + years * YEAR,
                  !.years  = years - 1]
    IN  {d \in IF RequiresValidation
               THEN WithStatus(new, SetStatus(new.status, "pendingCreate", FALSE))
               ELSE {new} : years # 0}

\* Mutant: the renewed years are not counted.
ForceRenewUncounted(d, years) ==
    {x \in {[d EXCEPT !.expiry = @ + years * YEAR]} : years # 0}

ForceRenew(d, years) ==
    {x \in {[d EXCEPT !.expiry = @ + years * YEAR, !.years = @ + years]} :
        years # 0}

Renew(d, years, now) ==
    {x \in ForceRenew(d, years) :
        /\ CanBeRenewed(d)
        /\ x.expiry <= now + MaxHorizon * YEAR}

\* Mutant: the redemption period starts in the add grace period as well.
MarkForDeletionRedeemable(d, hs, now) ==
    LET redEnd == now + RedemptionGP
        purge  == IF now < d.addEnd THEN now ELSE redEnd + PendingDeleteGP
    IN  {[d EXCEPT !.status = st, !.redEnd = redEnd, !.purge = purge] :
            st \in {x \in SetStatus(d.status, "pendingDelete", hs # {}) :
                        CanBeDeleted(d)}}

\* A delete command: inside the add grace period the domain can be purged at
\* once, later it goes through the redemption and pending-delete periods.
MarkForDeletion(d, hs, now) ==
    LET redEnd == IF now < d.addEnd THEN now ELSE now + RedemptionGP
        purge  == IF now < d.addEnd THEN now ELSE redEnd + PendingDeleteGP
    IN  {[d EXCEPT !.status = st, !.redEnd = redEnd, !.purge = purge] :
            st \in {x \in SetStatus(d.status, "pendingDelete", hs # {}) :
                        CanBeDeleted(d)}}

\* The end of life of an expired domain: the update prohibitions and
\* clientDeleteProhibited are unset, one call at a time, then pendingDelete
\* is set; serverDeleteProhibited is respected.
ExpiredStatus(st, hs) ==
    LET unset(sts, s) == UNION {UnSetStatus(x, s, hs # {}) : x \in sts}
        cleared == unset(unset(unset({st}, "clientUpdateProhibited"),
                               "serverUpdateProhibited"),
                         "clientDeleteProhibited")
    IN  UNION {SetStatus(x, "pendingDelete", hs # {}) : x \in cleared}

Expire(d, hs, now) ==
    {[d EXCEPT !.status = st,
               !.redEnd = d.expiry + RedemptionGP,
               !.purge  = d.expiry + RedemptionGP + PendingDeleteGP] :
        st \in {x \in ExpiredStatus(d.status, hs) :
                    now >= d.expiry /\ "serverDeleteProhibited" \notin d.status}}

Restore(d, hs, now) ==
    LET lifted   == UnSetStatus(d.status, "pendingDelete", hs # {})
        restored == UNION {SetStatus(x, "pendingRestore", hs # {}) : x \in lifted}
    IN  WithStatus(d, {x \in restored : CanBeRestored(d, now)})

-----------------------------------------------------------------------------
\* Mutants: one host too many; the host of any registrar.
MayAddOneMore(d, hs, h, ignoreUpdateProhibitions) ==
    /\ CanBeUpdated(d) \/ ignoreUpdateProhibitions
    /\ h \notin hs
    /\ Cardinality(hs) <= MaxHostsPerDomain
    /\ d.clid = Sponsor[h]
MayAddForeignHost(d, hs, h, ignoreUpdateProhibitions) ==
    /\ CanBeUpdated(d) \/ ignoreUpdateProhibitions
    /\ h \notin hs
    /\ Cardinality(hs) < MaxHostsPerDomain

MayAddHost(d, hs, h, ignoreUpdateProhibitions) ==
    /\ CanBeUpdated(d) \/ ignoreUpdateProhibitions
    /\ h \notin hs
    /\ Cardinality(hs) < MaxHostsPerDomain
    /\ d.clid = Sponsor[h]

\* Mutant: a delegated domain starts with a fresh status.
DelegatedAfresh(st) == {"ok"}

\* The status of a domain after a host was appended to d.Hosts.
DelegatedStatus(st) == SetOKStatusIfNeeded(SetUnsetInactiveStatus(st, TRUE))

AddHost(d, hs, h, ignoreUpdateProhibitions) ==
    {x \in WithStatus(d, {DelegatedStatus(d.status)}) :
        MayAddHost(d, hs, h, ignoreUpdateProhibitions)}

\* AddHost for each host of a registration, in turn.
AddHosts(d, hs) ==
    {x \in WithStatus(d, {IF hs = {} THEN d.status ELSE DelegatedStatus(d.status)}) :
        /\ hs # {} => CanBeUpdated(d)
        /\ Cardinality(hs) <= MaxHostsPerDomain
        /\ \A h \in hs : Sponsor[h] = d.clid}

\* RemoveHost fixes the inactive flag but does not validate the status.
RemoveHost(d, hs, h) ==
    {x \in WithStatus(d, {SetUnsetInactiveStatus(d.status, hs \ {h} # {})}) :
        h \in hs}
=============================================================================
