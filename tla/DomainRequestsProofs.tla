------------------------ MODULE DomainRequestsProofs ------------------------
(***************************************************************************)
(* Type correctness and the consistency of every stored status, for any    *)
(* number of names, hosts, processes and commands and any grace periods.   *)
(* The first part is about the methods of the entity: what they return,    *)
(* for every domain, is a row again, whose status Validate would not       *)
(* reject for a combination.  The second part is about the requests.       *)
(***************************************************************************)
EXTENDS DomainRequests, TLAPS

(* THE ENTITY                                                              *)

GoodStatus == {st \in SUBSET Flags : Consistent(st)}

GoodRow == {d \in Row : Consistent(d.status)}

\* SetStatus and UnSetStatus validate what they return (Domain.SetStatus).
LEMMA SetStatusGood ==
    ASSUME NEW st \in SUBSET Flags, NEW s, NEW hasHosts
    PROVE  SetStatus(st, s, hasHosts) \subseteq GoodStatus
  <1>1. "inactive" \in Flags
    BY DEF Flags
  <1>2. s \in Flags =>
          UnSetOKStatusIfNeeded(SetUnsetInactiveStatus(st \cup {s}, hasHosts))
            \in SUBSET Flags
    BY <1>1 DEF UnSetOKStatusIfNeeded, SetUnsetInactiveStatus
  <1> QED
    BY <1>2 DEF SetStatus, GoodStatus, MayToggle, Validate

\* Domain.UnSetStatus validates its result as Domain.SetStatus does.
LEMMA UnSetStatusGood ==
    ASSUME NEW st \in SUBSET Flags, NEW s, NEW hasHosts
    PROVE  UnSetStatus(st, s, hasHosts) \subseteq GoodStatus
  <1>1. "inactive" \in Flags /\ "ok" \in Flags
    BY DEF Flags
  <1>2. SetOKStatusIfNeeded(SetUnsetInactiveStatus(st \ {s}, hasHosts))
          \in SUBSET Flags
    BY <1>1 DEF SetOKStatusIfNeeded, SetUnsetInactiveStatus
  <1> QED
    BY <1>2 DEF UnSetStatus, GoodStatus, Validate

\* ok and inactive may come and go without making a status inconsistent, if ok
\* comes only when nothing is prohibited or pending.
LEMMA ConsistentUpToOK ==
    ASSUME NEW st \in SUBSET Flags, Consistent(st), NEW x \in SUBSET Flags,
           x \ {"ok", "inactive"} = st \ {"ok", "inactive"},
           "ok" \in x => "ok" \in st \/ (~HasProhibitions(st) /\ ~HasPendings(st))
    PROVE  Consistent(x)
  <1>1. \A f \in Prohibitions \cup Pendings : f \in x <=> f \in st
    <2>1. "ok" \notin Prohibitions \cup Pendings /\ "inactive" \notin Prohibitions \cup Pendings
      BY DEF Prohibitions, Pendings
    <2> QED  BY <2>1
  <1>2. x \cap Prohibitions = st \cap Prohibitions /\ x \cap Pendings = st \cap Pendings
    BY <1>1
  <1>3. OKStandsAlone(x)
    BY <1>2 DEF OKStandsAlone, HasProhibitions, HasPendings, Consistent
  <1>4. PendingNotProhibited(x)
    BY <1>1 DEF PendingNotProhibited, Consistent, Prohibitions, Pendings,
                DeleteProhibitions, RenewProhibitions, TransferProhibitions,
                UpdateProhibitions
  <1>5. AtMostOnePending(x)
    BY <1>2 DEF AtMostOnePending, Consistent
  <1> QED  BY <1>3, <1>4, <1>5 DEF Consistent

\* entities.NewDomainStatus.
LEMMA NewStatusGood == NewDomainStatus \in GoodStatus
  BY DEF NewDomainStatus, GoodStatus, Consistent, OKStandsAlone,
         PendingNotProhibited, AtMostOnePending, Flags, Pendings

\* Domain.SetUnsetInactiveStatus and the automatic ok of Domain.AddHost.
LEMMA InactiveGood ==
    ASSUME NEW st \in GoodStatus, NEW hasHosts
    PROVE  SetUnsetInactiveStatus(st, hasHosts) \in GoodStatus
  <1>1. SetUnsetInactiveStatus(st, hasHosts) \in SUBSET Flags
    BY DEF SetUnsetInactiveStatus, GoodStatus, Flags
  <1> QED
    BY <1>1, ConsistentUpToOK DEF SetUnsetInactiveStatus, GoodStatus

\* The status Domain.AddHost leaves, inactive gone and ok set if nothing forbids it.
LEMMA DelegatedGood ==
    ASSUME NEW st \in GoodStatus
    PROVE  DelegatedStatus(st) \in GoodStatus
  <1> DEFINE new == SetUnsetInactiveStatus(st, TRUE)
  <1>1. new \in GoodStatus
    BY InactiveGood
  <1> HIDE DEF new
  <1>2. SetOKStatusIfNeeded(new) \in SUBSET Flags
    BY <1>1 DEF SetOKStatusIfNeeded, GoodStatus, Flags
  <1>3. SetOKStatusIfNeeded(new) \in GoodStatus
    BY <1>1, <1>2, ConsistentUpToOK DEF SetOKStatusIfNeeded, GoodStatus
  <1> QED  BY <1>3 DEF DelegatedStatus, new

-----------------------------------------------------------------------------
\* Assigning a status to a row keeps its RoID.
LEMMA RowWithStatus ==
    ASSUME NEW d \in Row, NEW st \in GoodStatus
    PROVE  /\ [d EXCEPT !.status = st] \in GoodRow
           /\ [d EXCEPT !.status = st].roid = d.roid
  BY DEF Row, GoodRow, GoodStatus

\* entities.NewDomain.
LEMMA NewDomainGood ==
    ASSUME NEW roid \in Nat, NEW clid \in Registrars, NEW now \in Int
    PROVE  /\ NewDomain(roid, clid, now) \in GoodRow
           /\ NewDomain(roid, clid, now).roid = roid
           /\ NewDomain(roid, clid, now).clid = clid
  BY NewStatusGood DEF NewDomain, Row, GoodRow, GoodStatus

\* entities.RegisterDomain.
LEMMA RegistrationGood ==
    ASSUME NEW roid \in Nat, NEW clid \in Registrars, NEW years \in Int,
           NEW now \in Int, NEW d \in Registration(roid, clid, years, now)
    PROVE  d \in GoodRow /\ d.roid = roid /\ d.clid = clid
  <1> DEFINE base == NewDomain(roid, clid, now)
             new  == [base EXCEPT
                       !.addEnd = now + RegistrationGP,
                       !.expiry = now + years * YEAR,
                       !.years  = years - 1]
  <1>1. /\ now + RegistrationGP \in Int
        /\ now + years * YEAR \in Int
        /\ years - 1 \in Int
    BY PolicyAssumption
  <1>2. new \in GoodRow /\ new.roid = roid /\ new.clid = clid
    <2>1. base \in GoodRow /\ base.roid = roid /\ base.clid = clid
      BY NewDomainGood
    <2> HIDE DEF base
    <2> QED  BY <1>1, <2>1 DEF Row, GoodRow
  <1> HIDE DEF new
  <1>3. CASE d = new
    BY <1>2, <1>3
  <1>4. CASE d \in WithStatus(new, SetStatus(new.status, "pendingCreate", FALSE))
    <2>1. new.status \in SUBSET Flags
      BY <1>2 DEF GoodRow, Row
    <2>2. PICK st \in SetStatus(new.status, "pendingCreate", FALSE) :
            d = [new EXCEPT !.status = st]
      BY <1>4 DEF WithStatus
    <2>3. st \in GoodStatus
      BY <2>1, <2>2, SetStatusGood
    <2> QED  BY <1>2, <2>2, <2>3 DEF GoodRow, Row, GoodStatus
  <1> QED  BY <1>3, <1>4 DEF Registration, new

\* Domain.ForceRenew and Domain.Renew.
LEMMA ForceRenewGood ==
    ASSUME NEW d \in GoodRow, NEW years \in Int, NEW x \in ForceRenew(d, years)
    PROVE  x \in GoodRow
  <1>1. d.expiry + years * YEAR \in Int /\ d.years + years \in Int
    BY PolicyAssumption DEF GoodRow, Row
  <1> QED  BY <1>1 DEF ForceRenew, GoodRow, Row

\* Domain.Renew, which is Domain.ForceRenew behind two guards.
LEMMA RenewGood ==
    ASSUME NEW d \in GoodRow, NEW years \in Int, NEW now,
           NEW x \in Renew(d, years, now)
    PROVE  x \in GoodRow
  BY ForceRenewGood DEF Renew

\* Domain.MarkForDeletion.
LEMMA MarkForDeletionGood ==
    ASSUME NEW d \in GoodRow, NEW hs, NEW now \in Int,
           NEW x \in MarkForDeletion(d, hs, now)
    PROVE  x \in GoodRow
  <1> DEFINE redEnd == IF now < d.addEnd THEN now ELSE now + RedemptionGP
             purge  == IF now < d.addEnd THEN now ELSE redEnd + PendingDeleteGP
  <1>1. redEnd \in Int /\ purge \in Int
    BY PolicyAssumption DEF GoodRow, Row
  <1> HIDE DEF redEnd, purge
  <1>2. PICK st \in SetStatus(d.status, "pendingDelete", hs # {}) :
          x = [d EXCEPT !.status = st, !.redEnd = redEnd, !.purge = purge]
    BY DEF MarkForDeletion, redEnd, purge
  <1>3. st \in GoodStatus
    BY <1>2, SetStatusGood DEF GoodRow, Row
  <1> QED  BY <1>1, <1>2, <1>3 DEF GoodRow, Row, GoodStatus

\* Domain.Expire.
LEMMA ExpireGood ==
    ASSUME NEW d \in GoodRow, NEW hs, NEW now \in Int,
           NEW x \in Expire(d, hs, now)
    PROVE  x \in GoodRow
  <1>1. PICK st \in ExpiredStatus(d.status, hs) :
          x = [d EXCEPT !.status = st, !.redEnd = d.expiry + RedemptionGP,
                        !.purge = d.expiry + RedemptionGP + PendingDeleteGP]
    BY DEF Expire
  <1>2. st \in GoodStatus
    <2> DEFINE unset(sts, s) == UNION {UnSetStatus(z, s, hs # {}) : z \in sts}
    <2>1. ASSUME NEW sts \in SUBSET SUBSET Flags, NEW s
          PROVE  unset(sts, s) \in SUBSET SUBSET Flags
      <3>1. \A z \in sts : UnSetStatus(z, s, hs # {}) \subseteq SUBSET Flags
        BY UnSetStatusGood DEF GoodStatus
      <3> QED  BY <3>1
    <2>2. {d.status} \in SUBSET SUBSET Flags
      BY DEF GoodRow, Row
    <2> DEFINE cleared == unset(unset(unset({d.status}, "clientUpdateProhibited"),
                                      "serverUpdateProhibited"),
                                "clientDeleteProhibited")
    <2> HIDE DEF unset
    <2>3. cleared \in SUBSET SUBSET Flags
      BY <2>1, <2>2
    <2>4. st \in UNION {SetStatus(z, "pendingDelete", hs # {}) : z \in cleared}
      BY <1>1 DEF ExpiredStatus, unset
    <2> HIDE DEF cleared
    <2>5. PICK z \in cleared : st \in SetStatus(z, "pendingDelete", hs # {})
      BY <2>4
    <2> QED  BY <2>3, <2>5, SetStatusGood
  <1>3. /\ d.expiry + RedemptionGP \in Int
        /\ d.expiry + RedemptionGP + PendingDeleteGP \in Int
    BY PolicyAssumption DEF GoodRow, Row
  <1> QED  BY <1>1, <1>2, <1>3 DEF GoodRow, Row, GoodStatus

\* Domain.Restore.
LEMMA RestoreGood ==
    ASSUME NEW d \in GoodRow, NEW hs, NEW now, NEW x \in Restore(d, hs, now)
    PROVE  x \in GoodRow
  <1>1. PICK st \in UNION {SetStatus(z, "pendingRestore", hs # {}) :
                             z \in UnSetStatus(d.status, "pendingDelete", hs # {})} :
          x = [d EXCEPT !.status = st]
    BY DEF Restore, WithStatus
  <1>2. UnSetStatus(d.status, "pendingDelete", hs # {}) \subseteq SUBSET Flags
    BY UnSetStatusGood DEF GoodRow, Row, GoodStatus
  <1>3. PICK z \in UnSetStatus(d.status, "pendingDelete", hs # {}) :
          st \in SetStatus(z, "pendingRestore", hs # {})
    BY <1>1
  <1>4. st \in GoodStatus
    BY <1>2, <1>3, SetStatusGood
  <1> QED  BY <1>1, <1>4, RowWithStatus DEF GoodRow

\* Domain.SetStatus and Domain.UnSetStatus on a row.
LEMMA ToggleGood ==
    ASSUME NEW d \in GoodRow, NEW s, NEW hasHosts
    PROVE  /\ WithStatus(d, SetStatus(d.status, s, hasHosts)) \subseteq GoodRow
           /\ WithStatus(d, UnSetStatus(d.status, s, hasHosts)) \subseteq GoodRow
  <1>1. d.status \in SUBSET Flags /\ d \in Row
    BY DEF GoodRow, Row
  <1> QED
    BY <1>1, SetStatusGood, UnSetStatusGood, RowWithStatus DEF WithStatus

\* Domain.AddHost, once or for every host of a registration.
LEMMA AddHostGood ==
    ASSUME NEW d \in GoodRow, NEW hs, NEW h, NEW ignore,
           NEW x \in AddHost(d, hs, h, ignore)
    PROVE  x \in GoodRow
  <1>1. d \in Row /\ d.status \in GoodStatus
    BY DEF GoodRow, Row, GoodStatus
  <1>2. x = [d EXCEPT !.status = DelegatedStatus(d.status)]
    BY DEF AddHost, WithStatus
  <1> QED  BY <1>1, <1>2, DelegatedGood, RowWithStatus

\* The AddHost loop of RegisterDomain keeps the RoID of the registration.
LEMMA AddHostsGood ==
    ASSUME NEW d \in GoodRow, NEW hs, NEW x \in AddHosts(d, hs)
    PROVE  x \in GoodRow /\ x.roid = d.roid
  <1> DEFINE st == IF hs = {} THEN d.status ELSE DelegatedStatus(d.status)
  <1>1. d \in Row /\ d.status \in GoodStatus
    BY DEF GoodRow, Row, GoodStatus
  <1>2. st \in GoodStatus
    BY <1>1, DelegatedGood
  <1>3. x = [d EXCEPT !.status = st]
    BY DEF AddHosts, WithStatus
  <1> HIDE DEF st
  <1> QED  BY <1>1, <1>2, <1>3, RowWithStatus

\* Domain.RemoveHost, which does not validate.
LEMMA RemoveHostGood ==
    ASSUME NEW d \in GoodRow, NEW hs, NEW h, NEW x \in RemoveHost(d, hs, h)
    PROVE  x \in GoodRow /\ x.roid = d.roid
  <1> DEFINE st == SetUnsetInactiveStatus(d.status, hs \ {h} # {})
  <1>1. d \in Row /\ d.status \in GoodStatus
    BY DEF GoodRow, Row, GoodStatus
  <1>2. st \in GoodStatus
    BY <1>1, InactiveGood
  <1>3. x = [d EXCEPT !.status = st]
    BY DEF RemoveHost, WithStatus
  <1> HIDE DEF st
  <1> QED  BY <1>1, <1>2, <1>3, RowWithStatus

-----------------------------------------------------------------------------
(***************************************************************************)
(* What the methods keep of the registration: its RoID, its registrar, and *)
(* the account of its dates.                                               *)
(***************************************************************************)
DatesGood(d) ==
    /\ d.expiry = d.created + (d.years + 1) * YEAR
    /\ d.redEnd <= d.purge

Continues(d, x) ==
    x.roid = d.roid /\ x.clid = d.clid /\ (DatesGood(d) => DatesGood(x))

\* Domain.SetStatus, UnSetStatus, Restore, AddHost and RemoveHost only write
\* the status.
LEMMA StatusContinues ==
    ASSUME NEW d \in Row, NEW sts, NEW x \in WithStatus(d, sts)
    PROVE  Continues(d, x)
  BY DEF WithStatus, Row, Continues, DatesGood

\* The products of the date arithmetic.
LEMMA YearsAdd ==
    ASSUME NEW a \in Int, NEW b \in Int
    PROVE  (a + b) * YEAR = a * YEAR + b * YEAR /\ a * YEAR \in Int
  BY PolicyAssumption

\* entities.RegisterDomain counts the first year in the expiry date only.
LEMMA RegistrationDates ==
    ASSUME NEW roid \in Nat, NEW clid \in Registrars, NEW years \in Int,
           NEW now \in Int, NEW d \in Registration(roid, clid, years, now)
    PROVE  DatesGood(d)
  <1> DEFINE base == NewDomain(roid, clid, now)
             new  == [base EXCEPT
                       !.addEnd = now + RegistrationGP,
                       !.expiry = now + years * YEAR,
                       !.years  = years - 1]
  <1>1. new.expiry = now + years * YEAR /\ new.years = years - 1
        /\ new.created = now /\ new.redEnd = 0 /\ new.purge = 0
    BY DEF NewDomain
  <1>2. new \in Row
    <2>1. base \in Row
      BY NewDomainGood DEF GoodRow
    <2>2. now + RegistrationGP \in Int /\ now + years * YEAR \in Int
          /\ years - 1 \in Int
      BY PolicyAssumption
    <2> HIDE DEF base
    <2> QED  BY <2>1, <2>2 DEF Row
  <1>3. DatesGood(new)
    <2>1. years * YEAR \in Int
      BY YearsAdd
    <2>2. new.years + 1 = years
      BY <1>1
    <2> HIDE DEF new
    <2> QED  BY <1>1, <2>1, <2>2 DEF DatesGood
  <1> HIDE DEF new
  <1>4. d = new \/ \E sts : d \in WithStatus(new, sts)
    BY DEF Registration, new
  <1> QED  BY <1>2, <1>3, <1>4, StatusContinues DEF Continues

\* Domain.ForceRenew and Domain.Renew move the expiry date and RenewedYears
\* by the same number of years.
LEMMA RenewContinues ==
    ASSUME NEW d \in Row, NEW years \in Int, NEW now,
           NEW x \in ForceRenew(d, years) \cup Renew(d, years, now)
    PROVE  Continues(d, x)
  <1>1. x = [d EXCEPT !.expiry = @ + years * YEAR, !.years = @ + years]
    BY DEF ForceRenew, Renew
  <1>2. d.years + 1 \in Int /\ d.years \in Int /\ d.created \in Int
        /\ d.expiry \in Int
    BY DEF Row
  <1>3. /\ x.expiry = d.expiry + years * YEAR
        /\ x.years = d.years + years
        /\ x.created = d.created /\ x.redEnd = d.redEnd /\ x.purge = d.purge
        /\ x.roid = d.roid /\ x.clid = d.clid
    BY <1>1, <1>2 DEF Row
  <1>4. (x.years + 1) * YEAR = (d.years + 1) * YEAR + years * YEAR
        /\ (d.years + 1) * YEAR \in Int /\ years * YEAR \in Int
    <2>1. x.years + 1 = (d.years + 1) + years
      BY <1>2, <1>3
    <2> QED  BY <1>2, <2>1, YearsAdd
  <1> QED  BY <1>2, <1>3, <1>4 DEF Continues, DatesGood

\* The dates MarkForDeletion and Expire write, with any status.
LEMMA RedemptionWritten ==
    ASSUME NEW d \in Row, NEW st, NEW redEnd \in Int, NEW purge \in Int,
           redEnd <= purge
    PROVE  Continues(d, [d EXCEPT !.status = st, !.redEnd = redEnd, !.purge = purge])
  BY DEF Row, Continues, DatesGood

\* Domain.MarkForDeletion and Domain.Expire end the redemption period no later
\* than the purge date, in every branch of the code.
LEMMA EndOfLifeContinues ==
    ASSUME NEW d \in Row, NEW hs, NEW now \in Int,
           NEW x \in MarkForDeletion(d, hs, now) \cup Expire(d, hs, now)
    PROVE  Continues(d, x)
  <1>1. CASE x \in MarkForDeletion(d, hs, now)
    <2> DEFINE redEnd == IF now < d.addEnd THEN now ELSE now + RedemptionGP
               purge  == IF now < d.addEnd THEN now ELSE redEnd + PendingDeleteGP
    <2>1. redEnd \in Int /\ purge \in Int /\ redEnd <= purge
      BY PolicyAssumption DEF Row
    <2>2. PICK st : x = [d EXCEPT !.status = st, !.redEnd = redEnd, !.purge = purge]
      BY <1>1 DEF MarkForDeletion
    <2> HIDE DEF redEnd, purge
    <2> QED  BY <2>1, <2>2, RedemptionWritten
  <1>2. CASE x \in Expire(d, hs, now)
    <2> DEFINE redEnd == d.expiry + RedemptionGP
               purge  == d.expiry + RedemptionGP + PendingDeleteGP
    <2>1. redEnd \in Int /\ purge \in Int /\ redEnd <= purge
      BY PolicyAssumption DEF Row
    <2>2. PICK st : x = [d EXCEPT !.status = st, !.redEnd = redEnd, !.purge = purge]
      BY <1>2 DEF Expire
    <2> HIDE DEF redEnd, purge
    <2> QED  BY <2>1, <2>2, RedemptionWritten
  <1> QED  BY <1>1, <1>2

-----------------------------------------------------------------------------
(* THE REQUESTS                                                            *)

(***************************************************************************)
(* StatusConsistent is not inductive: a process saves a row it holds, so   *)
(* the rows the processes hold have to be consistent as well.              *)
(***************************************************************************)
GoodRequest ==
    [pc : PCs, res : {"none", "ok", "err"}, cmd : Command, row : GoodRow,
     hosts : SUBSET Hosts, at : Int, dom : GoodRow, drop : SUBSET Hosts,
     short : BOOLEAN]

RowsGood ==
    /\ clock \in Nat
    /\ db \in [Names -> GoodRow]
    /\ links \in [Names -> SUBSET Hosts]
    /\ linked \subseteq Hosts
    /\ nndn \subseteq Names
    /\ nextRoid \in Nat \ {0}
    /\ req \in [Procs -> GoodRequest]
    /\ edited \subseteq Nat

-----------------------------------------------------------------------------
\* The value that stands for an absent row is a row without an identifier.
LEMMA NoRowGood == NoRow \in GoodRow /\ NoRow.roid = 0
  BY RegistrarsAssumption, NewDomainGood DEF NoRow

\* The command of an idle process is well-typed.
LEMMA NoCommandType == NoCommand \in Command
  <1>1. (CHOOSE n \in Names : TRUE) \in Names
    BY RequestsAssumption
  <1>2. (CHOOSE r \in Registrars : TRUE) \in Registrars
    BY RegistrarsAssumption
  <1>3. "ok" \in Flags /\ "RenewDomain" \in Ops
    BY DEF Flags, Ops, RowOps
  <1> QED  BY <1>1, <1>2, <1>3 DEF NoCommand, Command, AdminFields

\* A process that has answered holds no row but NoRow.
LEMMA IdleWithGood ==
    ASSUME NEW r \in {"none", "ok", "err"}
    PROVE  IdleWith(r) \in GoodRequest
  BY NoRowGood, NoCommandType DEF IdleWith, GoodRequest, PCs

\* The response codes.
LEMMA AnswerType ==
    ASSUME NEW p, NEW r \in {"ok", "err"}
    PROVE  Answer(p, r) \in {"none", "ok", "err"}
  BY DEF Answer

\* Sending the response drops whatever the process held.
LEMMA RespondGood ==
    ASSUME RowsGood, NEW p \in Procs, NEW r \in {"ok", "err"}, Respond(p, r)
    PROVE  req' \in [Procs -> GoodRequest]
  <1>1. IdleWith(Answer(p, r)) \in GoodRequest
    BY AnswerType, IdleWithGood
  <1> QED  BY <1>1 DEF Respond, RowsGood

\* A handler that is about to run its next statement keeps its command only.
LEMMA HeadingGood ==
    ASSUME RowsGood, NEW p \in Procs, NEW pc \in PCs
    PROVE  Heading(p, pc) \in GoodRequest
  <1>1. IdleWith("none") \in GoodRequest
    BY IdleWithGood
  <1>2. req[p].cmd \in Command
    BY DEF RowsGood, GoodRequest
  <1> QED  BY <1>1, <1>2 DEF Heading, GoodRequest

\* The same, as a step.
LEMMA GotoGood ==
    ASSUME RowsGood, NEW p \in Procs, NEW pc \in PCs, Goto(p, pc)
    PROVE  req' \in [Procs -> GoodRequest]
  BY HeadingGood DEF Goto, RowsGood

\* What a process holds while it serves a request.
LEMMA HeldGood ==
    ASSUME RowsGood, NEW p \in Procs
    PROVE  /\ req[p] \in GoodRequest
           /\ req[p].row \in GoodRow /\ req[p].dom \in GoodRow
           /\ req[p].hosts \in SUBSET Hosts /\ req[p].drop \in SUBSET Hosts
           /\ req[p].cmd \in Command
           /\ req[p].cmd.name \in Names /\ req[p].cmd.years \in Int
           /\ req[p].cmd.clid \in Registrars /\ req[p].cmd.hosts \in SUBSET Hosts
           /\ req[p].cmd.toggle \in BOOLEAN
           /\ req[p].cmd.adm \in AdminFields
           /\ Now(p) \subseteq Int
  BY DEF RowsGood, GoodRequest, Command, Now

-----------------------------------------------------------------------------
\* DomainRepository.UpdateDomain, given rows an entity method may return.
LEMMA SaveOrGood ==
    ASSUME RowsGood, NEW p \in Procs, NEW rows \in SUBSET GoodRow,
           NEW hs \in SUBSET Hosts, NEW onSaved \in GoodRequest,
           SaveOr(p, rows, hs, onSaved)
    PROVE  /\ db' \in [Names -> GoodRow]
           /\ links' \in [Names -> SUBSET Hosts]
           /\ req' \in [Procs -> GoodRequest]
  <1> DEFINE n == req[p].cmd.name
  <1>1. n \in Names
    BY HeldGood
  <1>2. CASE \E row \in rows :
               /\ Saveable(n, row, hs)
               /\ db' = [db EXCEPT ![n] = row]
               /\ links' = [links EXCEPT ![n] = @ \cup hs]
               /\ req' = [req EXCEPT ![p] = onSaved]
    <2> HIDE DEF n
    <2> QED  BY <1>1, <1>2 DEF RowsGood
  <1>3. CASE Respond(p, "err") /\ UNCHANGED <<db, links>>
    BY <1>3, RespondGood DEF RowsGood
  <1> QED  BY <1>2, <1>3 DEF SaveOr

\* The save that ends most methods of DomainService.
LEMMA UpdateRowGood ==
    ASSUME RowsGood, NEW p \in Procs, NEW rows \in SUBSET GoodRow,
           UpdateRow(p, rows)
    PROVE  RowsGood'
  <1>1. IdleWith(Answer(p, "ok")) \in GoodRequest
    BY AnswerType, IdleWithGood
  <1>2. SaveOr(p, rows, {}, IdleWith(Answer(p, "ok")))
    BY DEF UpdateRow
  <1>3. /\ db' \in [Names -> GoodRow]
        /\ links' \in [Names -> SUBSET Hosts]
        /\ req' \in [Procs -> GoodRequest]
    BY <1>1, <1>2, SaveOrGood
  <1> QED  BY <1>3 DEF UpdateRow, RowsGood

-----------------------------------------------------------------------------
(* Each step preserves RowsGood.                                           *)

\* The empty tables of a fresh installation.
LEMMA InitGood == Init => RowsGood
  BY NoRowGood, IdleWithGood DEF Init, RowsGood

\* The statements that accept a request: loads, availability, plain deletion.
LEMMA LoadGood ==
    ASSUME RowsGood, NEW p \in Procs, NEW c \in Command,
           LoadDomain(p, c) \/ DomainNotFound(p, c) \/ DeleteDomainByName(p, c)
           \/ CheckDomainAvailability(p, c)
    PROVE  RowsGood'
  <1> DEFINE idle == IdleWith("none")
  <1>1. idle \in GoodRequest
    BY IdleWithGood
  <1>2. c.name \in Names /\ db[c.name] \in GoodRow /\ links[c.name] \in SUBSET Hosts
    BY DEF RowsGood, Command
  <1>3. clock \in Int
    BY DEF RowsGood
  <1> HIDE DEF idle
  <1>4. CASE LoadDomain(p, c)
    <2>1. [idle EXCEPT !.pc = "loaded", !.cmd = c, !.row = db[c.name],
                       !.hosts = IF c.op \in HostOps THEN links[c.name] ELSE {},
                       !.at = clock] \in GoodRequest
      BY <1>1, <1>2, <1>3 DEF GoodRequest, PCs
    <2>2. req' \in [Procs -> GoodRequest]
      BY <1>4, <2>1 DEF LoadDomain, RowsGood, idle
    <2> QED  BY <1>4, <2>2 DEF LoadDomain, RowsGood
  <1>5. CASE DomainNotFound(p, c)
    BY <1>5, RespondGood DEF DomainNotFound, RowsGood
  <1>6. CASE DeleteDomainByName(p, c)
    <2>1. [idle EXCEPT !.pc = IF c.toggle THEN "detach" ELSE "delete", !.cmd = c]
            \in GoodRequest
      BY <1>1 DEF GoodRequest, PCs
    <2>2. req' \in [Procs -> GoodRequest]
      BY <1>6, <2>1 DEF DeleteDomainByName, RowsGood, idle
    <2> QED  BY <1>6, <2>2 DEF DeleteDomainByName, RowsGood
  <1>7. CASE CheckDomainAvailability(p, c)
    <2>1. [idle EXCEPT !.pc = "available", !.cmd = c, !.at = clock] \in GoodRequest
      BY <1>1, <1>3 DEF GoodRequest, PCs
    <2>2. req' \in [Procs -> GoodRequest]
      BY <1>7, <2>1, RespondGood DEF CheckDomainAvailability, RowsGood, idle
    <2> QED  BY <1>7, <2>2 DEF CheckDomainAvailability, RowsGood
  <1> QED  BY <1>4, <1>5, <1>6, <1>7

\* The operations that load a row without its hosts, change it and save it.
LEMMA RowOpsGood ==
    ASSUME RowsGood, NEW p \in Procs,
           \/ RenewDomain(p) \/ AutoRenewDomain(p) \/ MarkDomainForDeletion(p)
           \/ ExpireDomain(p) \/ RestoreDomain(p) \/ DropCatchDomain(p)
           \/ SetDomainStatus(p) \/ UnSetDomainStatus(p)
    PROVE  RowsGood'
  <1>1. CASE RenewDomain(p)
    <2>1. PICK now \in Now(p) :
            UpdateRow(p, {x \in IF req[p].cmd.toggle
                                THEN ForceRenew(req[p].row, req[p].cmd.years)
                                ELSE Renew(req[p].row, req[p].cmd.years, now) :
                            /\ req[p].row.clid = req[p].cmd.clid
                            /\ Quotable(req[p].cmd.years)})
      BY <1>1 DEF RenewDomain
    <2>2. /\ ForceRenew(req[p].row, req[p].cmd.years) \subseteq GoodRow
          /\ Renew(req[p].row, req[p].cmd.years, now) \subseteq GoodRow
      BY HeldGood, ForceRenewGood, RenewGood
    <2> QED  BY <2>1, <2>2, UpdateRowGood
  <1>2. CASE AutoRenewDomain(p)
    <2>1. PICK now \in Now(p) :
            UpdateRow(p, {x \in Renew(req[p].row, req[p].cmd.years, now) :
                            AllowAutoRenew /\ req[p].row.clid \in AutoRenewRars})
      BY <1>2 DEF AutoRenewDomain
    <2>2. Renew(req[p].row, req[p].cmd.years, now) \subseteq GoodRow
      BY HeldGood, RenewGood
    <2> QED  BY <2>1, <2>2, UpdateRowGood
  <1>3. CASE MarkDomainForDeletion(p)
    <2>1. PICK now \in Now(p) :
            UpdateRow(p, MarkForDeletion(req[p].row, req[p].hosts, now))
      BY <1>3 DEF MarkDomainForDeletion
    <2>2. MarkForDeletion(req[p].row, req[p].hosts, now) \subseteq GoodRow
      BY HeldGood, MarkForDeletionGood
    <2> QED  BY <2>1, <2>2, UpdateRowGood
  <1>4. CASE ExpireDomain(p)
    <2>1. PICK now \in Now(p) :
            UpdateRow(p, Expire(req[p].row, req[p].hosts, now))
      BY <1>4 DEF ExpireDomain
    <2>2. Expire(req[p].row, req[p].hosts, now) \subseteq GoodRow
      BY HeldGood, ExpireGood
    <2> QED  BY <2>1, <2>2, UpdateRowGood
  <1>5. CASE RestoreDomain(p)
    <2>1. PICK now \in Now(p) :
            UpdateRow(p, Restore(req[p].row, req[p].hosts, now))
      BY <1>5 DEF RestoreDomain
    <2>2. Restore(req[p].row, req[p].hosts, now) \subseteq GoodRow
      BY HeldGood, RestoreGood
    <2> QED  BY <2>1, <2>2, UpdateRowGood
  <1>6. CASE DropCatchDomain(p)
    <2>1. [req[p].row EXCEPT !.dropCatch = req[p].cmd.toggle] \in GoodRow
      BY HeldGood DEF GoodRow, Row
    <2> QED  BY <1>6, <2>1, UpdateRowGood DEF DropCatchDomain
  <1>7. CASE SetDomainStatus(p)
    <2>1. WithStatus(req[p].row, SetStatus(req[p].row.status, req[p].cmd.flag,
                                           req[p].hosts # {})) \subseteq GoodRow
      BY HeldGood, ToggleGood
    <2> QED  BY <1>7, <2>1, UpdateRowGood DEF SetDomainStatus
  <1>8. CASE UnSetDomainStatus(p)
    <2>1. WithStatus(req[p].row, UnSetStatus(req[p].row.status, req[p].cmd.flag,
                                             req[p].hosts # {})) \subseteq GoodRow
      BY HeldGood, ToggleGood
    <2> QED  BY <1>8, <2>1, UpdateRowGood DEF UnSetDomainStatus
  <1> QED  BY <1>1, <1>2, <1>3, <1>4, <1>5, <1>6, <1>7, <1>8

\* The administrator's update.
LEMMA UpdateDomainGood ==
    ASSUME RowsGood, NEW p \in Procs, UpdateDomain(p)
    PROVE  RowsGood'
  <1> DEFINE a   == req[p].cmd.adm
             new == [req[p].row EXCEPT
                       !.status = a.status, !.created = a.created,
                       !.expiry = a.expiry, !.addEnd = a.addEnd,
                       !.redEnd = a.redEnd, !.purge = a.purge]
             rows == {x \in {new} : Validate(a.status)}
  <1>1. a \in AdminFields /\ req[p].row \in Row
    BY HeldGood DEF GoodRow
  <1>2. new \in Row /\ new.status = a.status /\ new.roid \in Nat
    <2> HIDE DEF a
    <2> QED  BY <1>1 DEF AdminFields, Row
  <1> HIDE DEF new
  <1>3. rows \subseteq GoodRow
    BY <1>2 DEF GoodRow, Validate
  <1>4. SaveOr(p, rows, {}, IdleWith(Answer(p, "ok")))
    BY DEF UpdateDomain, new
  <1>5. /\ db' \in [Names -> GoodRow]
        /\ links' \in [Names -> SUBSET Hosts]
        /\ req' \in [Procs -> GoodRequest]
    BY <1>3, <1>4, SaveOrGood, AnswerType, IdleWithGood
  <1>6. edited' = edited \/ edited' = edited \cup {new.roid}
    BY DEF UpdateDomain, new
  <1>7. UNCHANGED <<clock, linked, nndn, nextRoid>>
    BY DEF UpdateDomain
  <1> QED  BY <1>2, <1>5, <1>6, <1>7 DEF RowsGood

-----------------------------------------------------------------------------
\* RegisterDomain, and the identifier of the row it creates.
LEMMA RegisterRows ==
    ASSUME RowsGood, NEW p \in Procs, NEW now \in Int,
           NEW d \in Registration(nextRoid, req[p].cmd.clid, req[p].cmd.years, now),
           NEW row \in AddHosts(d, req[p].cmd.hosts)
    PROVE  row \in GoodRow /\ row.roid = nextRoid
  <1>1. d \in GoodRow /\ d.roid = nextRoid
    BY HeldGood, RegistrationGood DEF RowsGood
  <1> QED  BY <1>1, AddHostsGood

\* DomainService.RegisterDomain saves a row RegisterRows speaks of, or nothing.
LEMMA RegisterDomainGood ==
    ASSUME RowsGood, NEW p \in Procs, RegisterDomain(p)
    PROVE  RowsGood'
  <1> DEFINE c == req[p].cmd
             rows(now) ==
               {x \in UNION {AddHosts(d, c.hosts) :
                        d \in Registration(nextRoid, c.clid, c.years, now)} :
                  Quotable(c.years) /\ ~Exists(c.name)}
  <1>1. c.name \in Names /\ c.hosts \in SUBSET Hosts
    BY HeldGood
  <1>2. UNCHANGED <<clock, linked, nndn, edited>>
    BY DEF RegisterDomain
  <1>3. PICK now \in Now(p) :
          \/ \E row \in rows(now) :
               /\ db' = [db EXCEPT ![c.name] = row]
               /\ links' = [links EXCEPT ![c.name] = c.hosts]
               /\ nextRoid' = nextRoid + 1
               /\ Respond(p, "ok")
          \/ /\ rows(now) = {}
             /\ Respond(p, "err")
             /\ UNCHANGED <<db, links, nextRoid>>
    BY DEF RegisterDomain
  <1>4. rows(now) \subseteq GoodRow
    BY HeldGood, RegisterRows
  <1> HIDE DEF rows, c
  <1>5. CASE \E row \in rows(now) :
               /\ db' = [db EXCEPT ![c.name] = row]
               /\ links' = [links EXCEPT ![c.name] = c.hosts]
               /\ nextRoid' = nextRoid + 1
               /\ Respond(p, "ok")
    BY <1>1, <1>2, <1>4, <1>5, RespondGood DEF RowsGood
  <1>6. CASE Respond(p, "err") /\ UNCHANGED <<db, links, nextRoid>>
    BY <1>2, <1>6, RespondGood DEF RowsGood
  <1> QED  BY <1>3, <1>5, <1>6

\* The administrator's rows: their status is validated before they are stored.
LEMMA AdminDomainType ==
    ASSUME NEW c \in Command, NEW roid \in Nat, NEW now \in Int
    PROVE  AdminDomain(c, roid, now) \in Row /\ AdminDomain(c, roid, now).roid = roid
  <1> DEFINE base == NewDomain(roid, c.clid, now)
  <1>1. c.clid \in Registrars /\ c.adm \in AdminFields /\ c.years \in Int
    BY DEF Command
  <1>2. base \in Row /\ base.roid = roid
    BY <1>1, NewDomainGood DEF GoodRow
  <1> HIDE DEF base
  <1> QED  BY <1>1, <1>2 DEF AdminDomain, AdminFields, Row, base

\* The status an administrator writes does not depend on the generated RoID.
LEMMA AdminStatusRoid ==
    ASSUME NEW c \in Command, NEW roid \in Nat, NEW other \in Nat, NEW now \in Int
    PROVE  AdminDomain(c, roid, now).status = AdminDomain(c, other, now).status
  BY DEF AdminDomain, NewDomain

\* DomainService.Create.
LEMMA CreateDomainGood ==
    ASSUME RowsGood, NEW p \in Procs, NEW c \in Command, CreateDomain(p, c)
    PROVE  RowsGood'
  <1>1. UNCHANGED <<clock, links, linked, nndn>>
    BY DEF CreateDomain
  <1>2. CASE /\ AdminMayCreate(c)
             /\ db' = [db EXCEPT ![c.name] = AdminDomain(c, nextRoid, clock)]
             /\ nextRoid' = nextRoid + 1
             /\ edited' = edited \cup {nextRoid}
             /\ Respond(p, "ok")
    <2>1. AdminDomain(c, nextRoid, clock) \in GoodRow
      BY <1>2, AdminDomainType DEF AdminMayCreate, Validate, GoodRow, RowsGood
    <2>2. db' \in [Names -> GoodRow]
      BY <1>2, <2>1 DEF RowsGood
    <2>3. req' \in [Procs -> GoodRequest]
      BY <1>2, RespondGood
    <2> QED  BY <1>1, <1>2, <2>2, <2>3 DEF RowsGood
  <1>3. CASE Respond(p, "err") /\ UNCHANGED <<db, nextRoid, edited>>
    BY <1>1, <1>3, RespondGood DEF RowsGood
  <1> QED  BY <1>2, <1>3 DEF CreateDomain

\* DomainService.BulkCreate: every row of the batch has been validated.
LEMMA BulkCreateGood ==
    ASSUME RowsGood, NEW p \in Procs, NEW cs \in SUBSET Command, BulkCreate(p, cs)
    PROVE  RowsGood'
  <1>1. UNCHANGED <<clock, links, linked, nndn>>
    BY DEF BulkCreate
  <1>2. CASE /\ \A c \in cs : AdminMayCreate(c)
             /\ Respond(p, "ok")
             /\ \E last \in nextRoid .. MaxRoid :
                  \E roid \in Bijection(cs, nextRoid .. last) :
                    /\ db' = [n \in Names |->
                                IF \E c \in cs : c.name = n
                                THEN LET c == CHOOSE x \in cs : x.name = n
                                     IN  AdminDomain(c, roid[c], clock)
                                ELSE db[n]]
                    /\ nextRoid' = last + 1
                    /\ edited' = edited \cup (nextRoid .. last)
    <2>0. PICK last \in nextRoid .. MaxRoid :
            \E roid \in Bijection(cs, nextRoid .. last) :
              /\ db' = [n \in Names |->
                          IF \E c \in cs : c.name = n
                          THEN LET c == CHOOSE x \in cs : x.name = n
                               IN  AdminDomain(c, roid[c], clock)
                          ELSE db[n]]
              /\ nextRoid' = last + 1
              /\ edited' = edited \cup (nextRoid .. last)
      BY <1>2
    <2>1. PICK roid \in Bijection(cs, nextRoid .. last) :
            /\ db' = [n \in Names |->
                        IF \E c \in cs : c.name = n
                        THEN LET c == CHOOSE x \in cs : x.name = n
                             IN  AdminDomain(c, roid[c], clock)
                        ELSE db[n]]
            /\ nextRoid' = last + 1
            /\ edited' = edited \cup (nextRoid .. last)
      BY <2>0
    <2>2. nextRoid .. last \subseteq Nat /\ last + 1 \in Nat \ {0}
      BY BoundsAssumption DEF RowsGood
    <2>3. ASSUME NEW c \in cs
          PROVE  AdminDomain(c, roid[c], clock) \in GoodRow
      <3>1. roid[c] \in Nat
        BY <2>1, <2>2 DEF Bijection, Injection
      <3>2. clock \in Int /\ nextRoid \in Nat
        BY DEF RowsGood
      <3>3. Consistent(AdminDomain(c, roid[c], clock).status)
        BY <1>2, <3>1, <3>2, AdminStatusRoid DEF AdminMayCreate, Validate
      <3> QED  BY <3>1, <3>2, <3>3, AdminDomainType DEF GoodRow
    <2>4. ASSUME NEW n \in Names
          PROVE  db'[n] \in GoodRow
      <3>1. CASE \E c \in cs : c.name = n
        <4>1. PICK c \in cs : db'[n] = AdminDomain(c, roid[c], clock)
          BY <2>1, <3>1
        <4> QED  BY <4>1, <2>3
      <3>2. CASE ~\E c \in cs : c.name = n
        BY <2>1, <3>2 DEF RowsGood
      <3> QED  BY <3>1, <3>2
    <2>5. db' \in [Names -> GoodRow]
      BY <2>1, <2>4
    <2> QED  BY <1>1, <1>2, <2>1, <2>2, <2>5, RespondGood DEF RowsGood
  <1>3. CASE Respond(p, "err") /\ UNCHANGED <<db, nextRoid, edited>>
    BY <1>1, <1>3, RespondGood DEF RowsGood
  <1> QED  BY <1>2, <1>3 DEF BulkCreate

-----------------------------------------------------------------------------
(* The operations on hosts.                                                *)

\* AddHostToDomain saves the loaded row with its new status, or nothing.
LEMMA AddHostToDomainGood ==
    ASSUME RowsGood, NEW p \in Procs, AddHostToDomain(p)
    PROVE  RowsGood'
  <1> DEFINE r == req[p]
  <1>1. UNCHANGED <<clock, linked, nndn, nextRoid, edited>>
    BY DEF AddHostToDomain
  <1>2. PICK h \in r.cmd.hosts :
          \/ Respond(p, "ok") /\ UNCHANGED <<db, links>>
          \/ SaveOr(p, AddHost(r.row, r.hosts, h, r.cmd.toggle),
                    r.hosts \cup {h}, Heading(p, "setLinked"))
    BY DEF AddHostToDomain
  <1>3. CASE Respond(p, "ok") /\ UNCHANGED <<db, links>>
    BY <1>1, <1>3, RespondGood DEF RowsGood
  <1>4. CASE SaveOr(p, AddHost(r.row, r.hosts, h, r.cmd.toggle),
                    r.hosts \cup {h}, Heading(p, "setLinked"))
    <2>1. AddHost(r.row, r.hosts, h, r.cmd.toggle) \subseteq GoodRow
      BY HeldGood, AddHostGood
    <2>2. r.hosts \cup {h} \in SUBSET Hosts
      BY HeldGood
    <2>3. Heading(p, "setLinked") \in GoodRequest
      BY HeadingGood DEF PCs
    <2>4. /\ db' \in [Names -> GoodRow]
          /\ links' \in [Names -> SUBSET Hosts]
          /\ req' \in [Procs -> GoodRequest]
      <3> HIDE DEF r
      <3> QED  BY <1>4, <2>1, <2>2, <2>3, SaveOrGood
    <2> QED  BY <1>1, <2>4 DEF RowsGood
  <1> QED  BY <1>2, <1>3, <1>4

\* The steps of host operations that touch the Linked flags, or only count.
LEMMA LinkedGood ==
    ASSUME RowsGood, NEW p \in Procs,
           \/ SetHostLinked(p) \/ UnsetHostLinked(p) \/ CountHostAssociations(p)
    PROVE  RowsGood'
  <1>1. req[p].cmd.hosts \in SUBSET Hosts
    BY HeldGood
  <1>2. CASE SetHostLinked(p)
    BY <1>1, <1>2, RespondGood DEF SetHostLinked, RowsGood
  <1>3. CASE UnsetHostLinked(p)
    BY <1>1, <1>3, RespondGood DEF UnsetHostLinked, RowsGood
  <1>4. CASE CountHostAssociations(p)
    <2>1. req' \in [Procs -> GoodRequest]
      BY <1>4, RespondGood, GotoGood DEF CountHostAssociations, PCs
    <2> QED  BY <1>4, <2>1 DEF CountHostAssociations, RowsGood
  <1> QED  BY <1>2, <1>3, <1>4

\* What RemoveHostFromDomain still holds once the association is deleted.
LEMMA RemovedRequest ==
    ASSUME NEW r \in GoodRequest, NEW d \in GoodRow, NEW h
    PROVE  [r EXCEPT !.pc = "saveRemoved", !.row = d, !.hosts = @ \ {h}, !.at = 0]
             \in GoodRequest
  <1>1. r.hosts \ {h} \in SUBSET Hosts
    BY DEF GoodRequest
  <1>2. "saveRemoved" \in PCs
    BY DEF PCs
  <1>3. 0 \in Int
    OBVIOUS
  <1> QED  BY <1>1, <1>2, <1>3 DEF GoodRequest

\* RemoveHostFromDomain keeps the row that RemoveHost returned, and then saves it.
LEMMA RemoveHostFromDomainGood ==
    ASSUME RowsGood, NEW p \in Procs,
           RemoveHostFromDomain(p) \/ SaveAfterRemoveHost(p)
    PROVE  RowsGood'
  <1> DEFINE r == req[p]
  <1>1. r \in GoodRequest /\ r.row \in GoodRow /\ r.cmd.name \in Names
        /\ r.hosts \in SUBSET Hosts
    BY HeldGood
  <1> HIDE DEF r
  <1>2. CASE RemoveHostFromDomain(p)
    <2>1. UNCHANGED <<clock, db, linked, nndn, nextRoid, edited>>
      BY <1>2 DEF RemoveHostFromDomain
    <2>2. PICK h \in r.cmd.hosts :
            \/ \E d \in RemoveHost(r.row, r.hosts, h) :
                 /\ links' = LinksWithout(r.cmd.name, r.row.roid, h)
                 /\ req' = [req EXCEPT ![p] = [r EXCEPT
                              !.pc = "saveRemoved", !.row = d, !.hosts = @ \ {h},
                              !.at = 0]]
            \/ Respond(p, "err") /\ UNCHANGED links
      BY <1>2 DEF RemoveHostFromDomain, r
    <2>3. CASE Respond(p, "err") /\ UNCHANGED links
      BY <2>1, <2>3, RespondGood DEF RowsGood
    <2>4. CASE \E d \in RemoveHost(r.row, r.hosts, h) :
                 /\ links' = LinksWithout(r.cmd.name, r.row.roid, h)
                 /\ req' = [req EXCEPT ![p] = [r EXCEPT
                              !.pc = "saveRemoved", !.row = d, !.hosts = @ \ {h},
                              !.at = 0]]
      <3>1. PICK d \in RemoveHost(r.row, r.hosts, h) :
              /\ links' = LinksWithout(r.cmd.name, r.row.roid, h)
              /\ req' = [req EXCEPT ![p] = [r EXCEPT
                           !.pc = "saveRemoved", !.row = d, !.hosts = @ \ {h},
                           !.at = 0]]
        BY <2>4
      <3>2. d \in GoodRow
        BY <1>1, RemoveHostGood
      <3>3. [r EXCEPT !.pc = "saveRemoved", !.row = d, !.hosts = @ \ {h}, !.at = 0]
              \in GoodRequest
        BY <1>1, <3>2, RemovedRequest
      <3>4. req' \in [Procs -> GoodRequest]
        BY <3>1, <3>3 DEF RowsGood
      <3>5. links' \in [Names -> SUBSET Hosts]
        BY <1>1, <3>1 DEF LinksWithout, RowsGood
      <3> QED  BY <2>1, <3>4, <3>5 DEF RowsGood
    <2> QED  BY <2>2, <2>3, <2>4
  <1>3. CASE SaveAfterRemoveHost(p)
    <2>1. SaveOr(p, {r.row}, r.hosts, Heading(p, "count"))
      BY <1>3 DEF SaveAfterRemoveHost, r
    <2>2. Heading(p, "count") \in GoodRequest
      BY HeadingGood DEF PCs
    <2>3. /\ db' \in [Names -> GoodRow]
          /\ links' \in [Names -> SUBSET Hosts]
          /\ req' \in [Procs -> GoodRequest]
      BY <1>1, <2>1, <2>2, SaveOrGood
    <2> QED  BY <1>3, <2>3 DEF SaveAfterRemoveHost, RowsGood
  <1> QED  BY <1>2, <1>3

\* RemoveAllDomainHosts keeps the row it loaded, with the inactive flag set.
LEMMA RemoveAllDomainHostsGood ==
    ASSUME RowsGood, NEW p \in Procs, RemoveAllDomainHosts(p)
    PROVE  RowsGood'
  <1> DEFINE n == req[p].cmd.name
             k == Cardinality(links[n])
             st == SetUnsetInactiveStatus(db[n].status, FALSE)
             dom == IF k = 0 THEN db[n] ELSE [db[n] EXCEPT !.status = st]
  <1>1. req[p] \in GoodRequest /\ n \in Names /\ db[n] \in GoodRow
        /\ links[n] \in SUBSET Hosts
    BY HeldGood DEF RowsGood
  <1>2. UNCHANGED <<clock, db, links, linked, nndn, nextRoid, edited>>
    BY DEF RemoveAllDomainHosts
  <1>3. dom \in GoodRow
    <2>1. db[n] \in Row /\ db[n].status \in GoodStatus
      BY <1>1 DEF GoodRow, Row, GoodStatus
    <2>2. st \in GoodStatus
      BY <2>1, InactiveGood
    <2> HIDE DEF n, st, k
    <2> QED  BY <1>1, <2>1, <2>2, RowWithStatus
  <1>4. CASE \E drop \in SUBSET links[n] :
               req' = [req EXCEPT ![p] = [@ EXCEPT
                         !.pc = "unlink", !.drop = drop, !.short = DetachFails(k),
                         !.dom = dom]]
    <2>1. PICK drop \in SUBSET links[n] :
               req' = [req EXCEPT ![p] = [@ EXCEPT
                         !.pc = "unlink", !.drop = drop, !.short = DetachFails(k),
                         !.dom = dom]]
      BY <1>4
    <2>2. DetachFails(k) \in BOOLEAN
      BY DEF DetachFails
    <2> HIDE DEF dom, n, k
    <2>3. [req[p] EXCEPT !.pc = "unlink", !.drop = drop, !.short = DetachFails(k),
                         !.dom = dom] \in GoodRequest
      BY <1>1, <1>3, <2>2 DEF GoodRequest, PCs
    <2>4. req' \in [Procs -> GoodRequest]
      BY <2>1, <2>3 DEF RowsGood
    <2> QED  BY <1>2, <2>4 DEF RowsGood
  <1>5. CASE Respond(p, "err")
    BY <1>2, <1>5, RespondGood DEF RowsGood
  <1> QED  BY <1>4, <1>5 DEF RemoveAllDomainHosts

\* The loop of RemoveAllDomainHosts, and the save after it.
LEMMA DetachGood ==
    ASSUME RowsGood, NEW p \in Procs, UnlinkHost(p) \/ SaveAfterDetach(p)
    PROVE  RowsGood'
  <1> DEFINE r == req[p]
  <1>1. r \in GoodRequest /\ r.dom \in GoodRow /\ r.cmd.name \in Names
        /\ r.drop \in SUBSET Hosts
    BY HeldGood
  <1> HIDE DEF r
  <1>2. CASE UnlinkHost(p)
    <2>1. PICK h \in r.drop :
            /\ links' = LinksWithout(r.cmd.name, r.dom.roid, h)
            /\ req' = [req EXCEPT ![p].drop = @ \ {h}]
      BY <1>2 DEF UnlinkHost, r
    <2>2. [r EXCEPT !.drop = @ \ {h}] \in GoodRequest
      BY <1>1 DEF GoodRequest
    <2>3. req' \in [Procs -> GoodRequest]
      BY <2>1, <2>2 DEF RowsGood, r
    <2>4. links' \in [Names -> SUBSET Hosts]
      BY <1>1, <2>1 DEF LinksWithout, RowsGood
    <2> QED  BY <1>2, <2>3, <2>4 DEF UnlinkHost, RowsGood
  <1>3. CASE SaveAfterDetach(p)
    <2> DEFINE next == [r EXCEPT !.short = FALSE, !.dom = NoRow,
                          !.pc = IF r.cmd.op = "PurgeDomain" THEN "nndn"
                                 ELSE "delete"]
    <2>1. next \in GoodRequest
      BY <1>1, NoRowGood DEF GoodRequest, PCs
    <2> HIDE DEF next
    <2>2. SaveOr(p, {d \in {r.dom} : ~r.short}, {}, next)
      BY <1>3 DEF SaveAfterDetach, r, next
    <2>3. /\ db' \in [Names -> GoodRow]
          /\ links' \in [Names -> SUBSET Hosts]
          /\ req' \in [Procs -> GoodRequest]
      BY <1>1, <2>1, <2>2, SaveOrGood
    <2> QED  BY <1>3, <2>3 DEF SaveAfterDetach, RowsGood
  <1> QED  BY <1>2, <1>3

\* PurgeDomain checks the loaded row, blocks the name, and deletes the row.
LEMMA PurgeGood ==
    ASSUME RowsGood, NEW p \in Procs,
           PurgeDomain(p) \/ CreateNNDN(p) \/ DeleteRow(p)
    PROVE  RowsGood'
  <1>1. req[p].row \in GoodRow /\ req[p].cmd.name \in Names
    BY HeldGood
  <1>2. CASE PurgeDomain(p)
    <2> DEFINE pc == IF req[p].hosts # {} THEN "detach" ELSE "nndn"
    <2>1. Heading(p, pc) \in GoodRequest
      BY HeadingGood DEF PCs
    <2>2. \/ req' = [req EXCEPT ![p] = [Heading(p, pc) EXCEPT !.row = req[p].row]]
          \/ Respond(p, "err")
      BY <1>2 DEF PurgeDomain
    <2> HIDE DEF pc
    <2>3. [Heading(p, pc) EXCEPT !.row = req[p].row] \in GoodRequest
      BY <1>1, <2>1 DEF GoodRequest
    <2>4. req' \in [Procs -> GoodRequest]
      BY <2>2, <2>3, RespondGood DEF RowsGood
    <2> QED  BY <1>2, <2>4 DEF PurgeDomain, RowsGood
  <1>3. CASE CreateNNDN(p)
    <2>1. req' \in [Procs -> GoodRequest]
      BY <1>3, RespondGood, GotoGood DEF CreateNNDN, PCs
    <2>2. nndn' \subseteq Names
      BY <1>1, <1>3 DEF CreateNNDN, RowsGood
    <2> QED  BY <1>3, <2>1, <2>2 DEF CreateNNDN, RowsGood
  <1>4. CASE DeleteRow(p)
    <2>1. req' \in [Procs -> GoodRequest]
      BY <1>4, RespondGood DEF DeleteRow
    <2>2. db' \in [Names -> GoodRow]
      BY <1>4, NoRowGood DEF DeleteRow, RowsGood
    <2> QED  BY <1>4, <2>1, <2>2 DEF DeleteRow, RowsGood
  <1> QED  BY <1>2, <1>3, <1>4

\* The clock ticks, or a handler gives up.
LEMMA TickGood ==
    ASSUME RowsGood, Tick \/ \E p \in Procs : Abort(p)
    PROVE  RowsGood'
  <1>1. CASE Tick
    BY <1>1 DEF Tick, RowsGood
  <1>2. CASE \E p \in Procs : Abort(p)
    <2>1. PICK p \in Procs : Abort(p)
      BY <1>2
    <2> QED  BY <2>1, RespondGood DEF Abort, RowsGood
  <1> QED  BY <1>1, <1>2

\* Every request, at every statement of its handler, keeps the rows of the
\* table and the rows the processes hold consistent.
LEMMA NextGood ==
    ASSUME RowsGood, [Next]_vars
    PROVE  RowsGood'
  <1>1. CASE UNCHANGED vars
    BY <1>1 DEF vars, RowsGood
  <1>2. CASE Tick \/ \E p \in Procs : Abort(p)
    BY <1>2, TickGood
  <1>3. ASSUME NEW p \in Procs, Accept(p)
        PROVE  RowsGood'
    <2>1. CASE \E c \in Commands :
                 \/ LoadDomain(p, c)
                 \/ DomainNotFound(p, c)
                 \/ CheckDomainAvailability(p, c)
                 \/ CreateDomain(p, c)
                 \/ DeleteDomainByName(p, c)
      BY <2>1, CommandsAssumption, LoadGood, CreateDomainGood
    <2>2. CASE \E cs \in (SUBSET {c \in Commands : c.op = "BulkCreate"}) \ {{}} :
                 BulkCreate(p, cs)
      BY <2>2, CommandsAssumption, BulkCreateGood
    <2> QED  BY <1>3, <2>1, <2>2 DEF Accept
  <1>4. ASSUME NEW p \in Procs, Serve(p)
        PROVE  RowsGood'
    BY <1>4, RowOpsGood, UpdateDomainGood, RegisterDomainGood,
       AddHostToDomainGood, LinkedGood, RemoveHostFromDomainGood,
       RemoveAllDomainHostsGood, DetachGood, PurgeGood
    DEF Serve
  <1> QED  BY <1>1, <1>2, <1>3, <1>4 DEF Next

-----------------------------------------------------------------------------
\* The rows of the domains table and the rows every request has loaded are
\* well-typed and have a status DomainStatus.Validate would not reject, for
\* any names, processes, commands and interleaving of the service's methods.
THEOREM RowsGoodInvariant == Spec => []RowsGood
  <1>1. Init => RowsGood
    BY InitGood
  <1>2. RowsGood /\ [Next]_vars => RowsGood'
    BY NextGood
  <1> QED  BY <1>1, <1>2, PTL DEF Spec

\* Good rows are well-typed, and so is a request that holds good rows.
LEMMA RowsGoodTyped == ASSUME RowsGood PROVE TypeOK
  <1>1. GoodRow \subseteq Row
    BY DEF GoodRow
  <1>2. GoodRequest \subseteq Request
    BY <1>1 DEF GoodRequest, Request
  <1> QED  BY <1>1, <1>2 DEF RowsGood, TypeOK

\* TypeOK: the tables and the state of the requests keep their types.
THEOREM TypeCorrect == Spec => []TypeOK
  <1>1. RowsGood => TypeOK
    BY RowsGoodTyped
  <1> QED  BY <1>1, RowsGoodInvariant, PTL

\* StatusConsistent: no interleaving of requests that save whole rows stores a
\* status that mixes ok, prohibitions and pending actions against the rules of
\* DomainStatus.Validate.
THEOREM StatusesConsistent == Spec => []StatusConsistent
  <1>1. RowsGood => StatusConsistent
    BY DEF RowsGood, StatusConsistent, GoodRow
  <1> QED  BY <1>1, RowsGoodInvariant, PTL
=============================================================================
