---------------------------- MODULE DomainStatus ----------------------------
(***************************************************************************)
(* The DomainStatus value object of internal/domain/entities and the       *)
(* methods that keep it consistent.                                        *)
(*                                                                         *)
(* The Go struct has eighteen Boolean fields; here a status is the set of  *)
(* the EPP names of the fields that are true.  The methods that may return *)
(* an error are set-valued: {} when the method returns an error, and       *)
(* {result} when it succeeds.  (In the code an error leaves a half-changed *)
(* object behind, which every caller throws away.)                         *)
(***************************************************************************)

Prohibitions ==
    {"clientTransferProhibited", "clientUpdateProhibited",
     "clientDeleteProhibited", "clientRenewProhibited", "clientHold",
     "serverTransferProhibited", "serverUpdateProhibited",
     "serverDeleteProhibited", "serverRenewProhibited", "serverHold"}

Pendings ==
    {"pendingCreate", "pendingRenew", "pendingTransfer", "pendingUpdate",
     "pendingRestore", "pendingDelete"}

Flags == Prohibitions \cup Pendings \cup {"ok", "inactive"}

UpdateProhibitions == {"clientUpdateProhibited", "serverUpdateProhibited"}
DeleteProhibitions == {"clientDeleteProhibited", "serverDeleteProhibited"}
RenewProhibitions  == {"clientRenewProhibited", "serverRenewProhibited"}
TransferProhibitions ==
    {"clientTransferProhibited", "serverTransferProhibited"}

NewDomainStatus == {"inactive"}

IsNil(st)            == st = {}
HasProhibitions(st)  == st \cap Prohibitions # {}
HasPendings(st)      == st \cap Pendings # {}
UpdateProhibited(st) == st \cap UpdateProhibitions # {}

(***************************************************************************)
(* What Validate demands of a status that is not nil: ok excludes every    *)
(* prohibition and pending action, a pending action excludes the           *)
(* prohibitions of the same kind, and at most one action is pending.       *)
(***************************************************************************)
OKStandsAlone(st) ==
    "ok" \in st => ~HasPendings(st) /\ ~HasProhibitions(st)

PendingNotProhibited(st) ==
    /\ "pendingDelete"   \in st => st \cap DeleteProhibitions = {}
    /\ "pendingRenew"    \in st => st \cap RenewProhibitions = {}
    /\ "pendingTransfer" \in st => st \cap TransferProhibitions = {}
    /\ "pendingUpdate"   \in st => st \cap UpdateProhibitions = {}

AtMostOnePending(st) == \A a, b \in st \cap Pendings : a = b

Consistent(st) ==
    OKStandsAlone(st) /\ PendingNotProhibited(st) /\ AtMostOnePending(st)

\* Mutant: only the nil status is rejected.
ValidateNotNil(st) == ~IsNil(st)

Validate(st) == ~IsNil(st) /\ Consistent(st)

-----------------------------------------------------------------------------
SetOKStatusIfNeeded(st) ==
    IF ~HasProhibitions(st) /\ ~HasPendings(st) THEN st \cup {"ok"} ELSE st

UnSetOKStatusIfNeeded(st) ==
    IF HasPendings(st) \/ HasProhibitions(st) THEN st \ {"ok"} ELSE st

\* hasHosts is len(d.Hosts) > 0 for the hosts that were LOADED with the domain.
SetUnsetInactiveStatus(st, hasHosts) ==
    IF hasHosts THEN st \ {"inactive"} ELSE st \cup {"inactive"}

\* While updates are prohibited only the update prohibitions themselves can
\* be set or unset; ok and inactive can never be set or unset by name.
MayToggle(st, s) ==
    /\ s \in Flags \ {"ok", "inactive"}
    /\ UpdateProhibited(st) => s \in UpdateProhibitions

SetStatus(st, s, hasHosts) ==
    LET new == UnSetOKStatusIfNeeded(
                   SetUnsetInactiveStatus(st \cup {s}, hasHosts))
    IN  {x \in {new} : MayToggle(st, s) /\ Validate(x)}

UnSetStatus(st, s, hasHosts) ==
    LET new == SetOKStatusIfNeeded(
                   SetUnsetInactiveStatus(st \ {s}, hasHosts))
    IN  {x \in {new} : MayToggle(st, s) /\ Validate(x)}
=============================================================================
