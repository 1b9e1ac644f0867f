--------------------------- MODULE ContactStatus ---------------------------
(***************************************************************************)
(* The status of a contact (internal/domain/entities/contact.go): the set  *)
(* of its flags that are true, and the methods that change it.  A method   *)
(* that may fail returns the set of its outcomes, {} being an error.       *)
(***************************************************************************)
EXTENDS Naturals, FiniteSets

ContactPendings ==
    {"pendingCreate", "pendingDelete", "pendingUpdate", "pendingTransfer"}
ContactUpdateProhibitions == {"clientUpdateProhibited", "serverUpdateProhibited"}
ContactProhibitions ==
    ContactUpdateProhibitions \cup
    {"clientDeleteProhibited", "serverDeleteProhibited",
     "clientTransferProhibited", "serverTransferProhibited"}

\* The flags that exclude ok; linked does not.
ContactRestrictions == ContactPendings \cup ContactProhibitions

ContactFlags == {"ok", "linked"} \cup ContactRestrictions

\* The pending operation a prohibition is about.
ContactOpposite(prohibition) ==
    CASE prohibition \in ContactUpdateProhibitions -> "pendingUpdate"
      [] prohibition \in {"clientDeleteProhibited", "serverDeleteProhibited"}
            -> "pendingDelete"
      [] OTHER -> "pendingTransfer"

ContactCanBeUpdated(status) == status \cap ContactUpdateProhibitions = {}

\* SetOKStatusIfNeeded, then UnSetOKStatusIfNeeded.
ContactWithOK(status) ==
    IF status \cap ContactRestrictions = {} THEN status \cup {"ok"}
    ELSE status \ {"ok"}

\* ContactStatus.IsNil does not look at linked.
ContactStatusIsNil(status) == status \subseteq {"linked"}

\* All that IsValidContactStatus asks: neither the pending operations nor
\* what they contradict are looked at.
IsValidContactStatus(status) ==
    "ok" \in status <=> status \cap ContactRestrictions = {}

SetFullContactStatus(status) ==
    {s \in {ContactWithOK(status)} :
        ContactStatusIsNil(status) \/ IsValidContactStatus(status)}

\* Mutant: a transfer prohibition does not exclude a pending transfer.
ContactExcludesNoTransfer(flag) ==
    IF flag \in ContactPendings
       THEN (ContactPendings \ {flag})
            \cup {x \in ContactProhibitions : ContactOpposite(x) = flag}
    ELSE IF flag \in ContactProhibitions
       THEN {ContactOpposite(flag)} \ {"pendingTransfer"} ELSE {}

\* The flags that refuse a flag in the switch of SetStatus.
ContactExcludes(flag) ==
    CASE flag \in ContactPendings ->
            (ContactPendings \ {flag})
            \cup {x \in ContactProhibitions : ContactOpposite(x) = flag}
      [] flag \in ContactProhibitions -> {ContactOpposite(flag)}
      [] flag = "ok" -> ContactRestrictions
      [] OTHER -> {}

\* Setting an update prohibition that is set is no error; with one set, only
\* linked can be.
ContactSetStatus(status, flag) ==
    IF flag \in status \cap ContactUpdateProhibitions THEN {status}
    ELSE {s \in {IF flag \in ContactRestrictions
                    THEN ContactWithOK(status \cup {flag}) ELSE status \cup {flag}} :
            /\ ContactCanBeUpdated(status) \/ flag = "linked"
            /\ status \cap ContactExcludes(flag) = {}
            /\ IsValidContactStatus(s)}

\* With an update prohibition only such a prohibition can be unset.
ContactUnSetStatus(status, flag) ==
    {s \in {IF flag \in ContactRestrictions
               THEN ContactWithOK(status \ {flag}) ELSE status \ {flag}} :
        /\ ContactCanBeUpdated(status) \/ flag \in ContactUpdateProhibitions
        /\ flag = "ok" => status \cap ContactRestrictions # {}}
=============================================================================
