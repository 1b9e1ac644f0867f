---------------------------- MODULE HostStatus -----------------------------
(***************************************************************************)
(* The status of a host (internal/domain/entities/host.go): the set of its *)
(* flags that are true, and the methods that change it.  A method that may *)
(* fail returns the set of its outcomes, {} being an error.                *)
(***************************************************************************)
EXTENDS Naturals, FiniteSets

HostPendings ==
    {"pendingCreate", "pendingDelete", "pendingUpdate", "pendingTransfer"}
HostUpdateProhibitions == {"clientUpdateProhibited", "serverUpdateProhibited"}
HostDeleteProhibitions == {"clientDeleteProhibited", "serverDeleteProhibited"}

\* The flags that exclude ok; linked does not.
HostRestrictions ==
    HostPendings \cup HostUpdateProhibitions \cup HostDeleteProhibitions

HostFlags == {"ok", "linked"} \cup HostRestrictions

HostCanBeUpdated(status) == status \cap HostUpdateProhibitions = {}

HostSetOKIfNeeded(status) ==
    IF status \cap HostRestrictions = {} THEN status \cup {"ok"} ELSE status

HostUnsetOKIfNeeded(status) ==
    IF status \cap HostRestrictions = {} THEN status ELSE status \ {"ok"}

\* ValidateStatus: at most one pending, no pending that is prohibited, and ok
\* exactly when nothing but linked is set.
HostStatusValid(status) ==
    /\ Cardinality(status \cap HostPendings) <= 1
    /\ "pendingUpdate" \in status => status \cap HostUpdateProhibitions = {}
    /\ "pendingDelete" \in status => status \cap HostDeleteProhibitions = {}
    /\ "ok" \in status <=> status \cap HostRestrictions = {}

HostSetStatus(status, flag) ==
    IF HostCanBeUpdated(status) \/ flag \in HostUpdateProhibitions \cup {"linked"}
       THEN {s \in {HostUnsetOKIfNeeded(status \cup {flag})} : HostStatusValid(s)}
       ELSE {}

\* While updates are prohibited not even linked can be unset.
HostUnsetStatus(status, flag) ==
    IF HostCanBeUpdated(status) \/ flag \in HostUpdateProhibitions
       THEN {s \in {HostSetOKIfNeeded(status \ {flag})} : HostStatusValid(s)}
       ELSE {}
=============================================================================
