--------------------------- MODULE DepositStatus ---------------------------
(***************************************************************************)
(* The status of an object of an escrow deposit on its way into the        *)
(* registry: the <status> elements, in any order, become the entity that   *)
(* validates the command (RDEDomain.ToEntity, RDEHost.ToEntity,            *)
(* RDEContact.ToEntity), the admin API makes the stored object of the      *)
(* command, and the links between domains and hosts are made last.         *)
(* EscrowImport is about the calls; here is what one object goes through.  *)
(***************************************************************************)
EXTENDS DomainStatus, HostStatus, ContactStatus, SequencesExt

CONSTANTS
    SaidFlags,  \* names in <status> elements, for each kind of object
    MaxSaid     \* bound: how many elements an object has

ASSUME DepositStatusAssumption ==
    DOMAIN SaidFlags = {"domain", "host", "contact"} /\ MaxSaid \in Nat

VARIABLES
    deposit,  \* the object: its kind, its statuses, does it expire in future?
    status,   \* its status on the way
    stage     \* "deposit", "command", "stored", "linked", "refused"

depositVars == <<deposit, status, stage>>

DepositInit ==
    /\ \E kind \in DOMAIN SaidFlags, future \in BOOLEAN :
          \E said \in BoundedSeq(SaidFlags[kind], MaxSaid) :
             deposit = [kind |-> kind, said |-> said, future |-> future]
    /\ status = {}
    /\ stage = "deposit"

\* Each stage has a status, or refuses the object.
Reach(next, statuses) ==
    /\ IF statuses = {} THEN stage' = "refused" /\ status' = {}
       ELSE stage' = next /\ status' \in statuses
    /\ UNCHANGED deposit

-----------------------------------------------------------------------------
\* Mutant: the flags are set one after the other.
DomainStatusInOrder(said) ==
    LET Set(sts, flag) == UNION {SetStatus(s, flag, FALSE) : s \in sts}
    IN  IF said = <<"ok">> THEN {{"ok"}} ELSE FoldLeft(Set, {{}}, said)

\* GetDomainStatusFromRDEDomainStatus and its twins set a flag for each name
\* they know, in any order; pendingRestore is not known to the first.
GetDomainStatusFromRDEDomainStatus(said) ==
    {s \in {ToSet(said)} : s \subseteq Flags \ {"pendingRestore"}}

\* Mutant: a name that is not known is taken over.
HostStatusUnknown(said) == {ToSet(said)}

GetHostStatusFromRDEHostStatus(said) == {s \in {ToSet(said)} : s \subseteq HostFlags}

GetContactStatusFromRDEContactStatus(said) ==
    {s \in {ToSet(said)} : s \subseteq ContactFlags}

\* "CNIC-FIX": a pending delete that is prohibited is dropped, unless the
\* domain has expired.
FixCNIC01(s) ==
    IF "pendingDelete" \in s /\ s \cap DeleteProhibitions # {} /\ deposit.future
       THEN s \ {"pendingDelete"} ELSE s

\* A domain has no hosts yet.
RDEDomainToEntity(said) ==
    LET given == {SetUnsetInactiveStatus(s, FALSE) :
                     s \in GetDomainStatusFromRDEDomainStatus(said)}
    IN  {s \in {IF Validate(g) THEN g ELSE FixCNIC01(g) : g \in given} : Validate(s)}

\* The command of a host is not linked, whatever the deposit says.
RDEHostToEntity(said) ==
    {s \ {"linked"} : s \in {t \in {HostSetOKIfNeeded(u) :
                                       u \in GetHostStatusFromRDEHostStatus(said)} :
                               HostStatusValid(t)}}

RDEContactToEntity(said) ==
    {s \in {IF t \cap ContactRestrictions = {} THEN t \cup {"ok"} ELSE t :
               t \in GetContactStatusFromRDEContactStatus(said)} :
        IsValidContactStatus(s)}

FromRde ==
    /\ stage = "deposit"
    /\ Reach("command",
             CASE deposit.kind = "domain"  -> RDEDomainToEntity(deposit.said)
               [] deposit.kind = "host"    -> RDEHostToEntity(deposit.said)
               [] deposit.kind = "contact" -> RDEContactToEntity(deposit.said))

\* The API: a status that is nil is replaced by that of a new object.
Create ==
    /\ stage = "command"
    /\ Reach("stored",
             CASE deposit.kind = "domain"  -> {s \in {status} : Validate(s)}
               [] deposit.kind = "host"    ->
                    {s \in {IF status = {} THEN {"ok"} ELSE status} : HostStatusValid(s)}
               [] deposit.kind = "contact" -> SetFullContactStatus(status))

\* Domain.AddHost with force=true, on either side of the link.
Link ==
    /\ stage = "stored"
    /\ deposit.kind \in {"domain", "host"}
    /\ Reach("linked",
             IF deposit.kind = "host" THEN HostSetStatus(status, "linked")
             ELSE {SetOKStatusIfNeeded(SetUnsetInactiveStatus(status, TRUE))})

DepositNext == FromRde \/ Create \/ Link

DepositSpec == DepositInit /\ [][DepositNext]_depositVars

-----------------------------------------------------------------------------
\* Every variable has its type.
DepositTypeOK ==
    /\ deposit.said \in Seq(SaidFlags[deposit.kind])
    /\ status \subseteq Flags \cup HostFlags \cup ContactFlags
    /\ stage \in {"deposit", "command", "stored", "linked", "refused"}

\* The flags that an operator, registrar or registry set; ok, inactive and
\* linked follow from them and from the links.
Own(s) == s \ {"ok", "inactive", "linked"}

\* What may not be imported as it is said: an unknown name, ok beside another
\* flag of Own, two pending operations of a domain or a host, or one that is
\* prohibited.
Prohibiting(pending) ==
    CASE pending = "pendingUpdate"   -> UpdateProhibitions
      [] pending = "pendingDelete"   -> DeleteProhibitions
      [] pending = "pendingRenew"    -> RenewProhibitions
      [] pending = "pendingTransfer" -> TransferProhibitions
      [] OTHER                       -> {}

Contradictory(said) ==
    \/ "ok" \in said /\ Own(said) # {}
    \/ /\ deposit.kind # "contact"
       /\ \/ Cardinality(said \cap Pendings) > 1
          \/ \E p \in said \cap Pendings : said \cap Prohibiting(p) # {}

Known ==
    [domain |-> Flags \ {"pendingRestore"}, host |-> HostFlags, contact |-> ContactFlags]

\* "We can't guarantee the order of the statuses": an object of the deposit is
\* refused only for what it says, in whatever order it says it, and arrives
\* with its own flags, all of them and no others.  The exception is the fix of
\* a pending delete that is prohibited.  When its links are made, a domain is
\* no longer inactive and a host is linked, and ok is set exactly without
\* flags of one's own, update prohibitions notwithstanding.
ImportKeepsStatus ==
    LET said  == ToSet(deposit.said)
        fixed == IF deposit.kind = "domain" /\ deposit.future
                       /\ said \cap DeleteProhibitions # {}
                    THEN said \ {"pendingDelete"} ELSE said
    IN  /\ stage = "refused" =>
              Contradictory(fixed) \/ ~ said \subseteq Known[deposit.kind]
        /\ stage \in {"stored", "linked"} => Own(status) = Own(fixed)
        /\ stage = "linked" =>
              /\ "ok" \in status <=> Own(status) = {}
              /\ "inactive" \notin status
              /\ deposit.kind = "host" => "linked" \in status
=============================================================================
