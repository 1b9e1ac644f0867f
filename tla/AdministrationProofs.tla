------------------------ MODULE AdministrationProofs ------------------------
(***************************************************************************)
(* Proofs about contacts, about registrars and accreditations and about    *)
(* quotes, for every set of processes, ids, names, domains and TLDs, any   *)
(* number of RoIDs, and whatever requests, tariffs and rates carry; and    *)
(* about the whole of MCAdministration, of which they and hosts are parts. *)
(***************************************************************************)
EXTENDS MCAdministration, HostProofs, WellFoundedInduction

-----------------------------------------------------------------------------
(* CONTACTS                                                                *)

(* The statuses.                                                           *)

LEMMA WithOKIsValid ==
    ASSUME NEW status \in SUBSET ContactFlags
    PROVE  /\ ContactWithOK(status) \in SUBSET ContactFlags
           /\ IsValidContactStatus(ContactWithOK(status))
  BY DEF ContactWithOK, IsValidContactStatus, ContactFlags, ContactRestrictions,
         ContactPendings, ContactProhibitions, ContactUpdateProhibitions

LEMMA FullIsValid ==
    ASSUME NEW status \in SUBSET ContactFlags, NEW s \in SetFullContactStatus(status)
    PROVE  s \in SUBSET ContactFlags /\ IsValidContactStatus(s)
  BY WithOKIsValid DEF SetFullContactStatus

-----------------------------------------------------------------------------
(* The invariant of the table and of the requests.                         *)

RowsTyped ==
    /\ lastRoid \in Nat
    /\ \A i \in DOMAIN contacts :
          /\ contacts[i].roid \in 1 .. lastRoid
          /\ IsValidContactStatus(contacts[i].status)

\* A row that is about to be saved was one of the table.
SavesTyped ==
    /\ contactReq = [p \in ContactProcs |-> contactReq[p]]
    /\ \A p \in ContactProcs :
          contactReq[p].op = "Save" =>
             /\ contactReq[p].row.roid \in 1 .. lastRoid
             /\ IsValidContactStatus(contactReq[p].row.status)

RoidsUnique ==
    \A i, j \in DOMAIN contacts : contacts[i].roid = contacts[j].roid => i = j

NamesThere == \A d \in ContactDomains : contactOf[d] \in DOMAIN contacts \cup {NoContact}

\* As long as no deletion overtook a save, the contact of a pending save is
\* there, with the RoID it was loaded with.
SavesMatch ==
    \A p \in ContactProcs :
       contactReq[p].op = "Save" =>
          /\ contactReq[p].id \in DOMAIN contacts
          /\ contacts[contactReq[p].id].roid = contactReq[p].row.roid

ContactInv ==
    /\ RowsTyped
    /\ SavesTyped
    /\ RoidsUnique
    /\ NamesThere
    /\ ~overtaken => SavesMatch

LEMMA ContactInitially == ContactInit => ContactInv
  BY DEF ContactInit, ContactInv, RowsTyped, SavesTyped, RoidsUnique, NamesThere,
         SavesMatch, NoContactReq

\* A step that adds contacts with RoIDs of their own and valid statuses.
LEMMA AddingKeeps ==
    ASSUME ContactInv, NEW ids, NEW rows,
           DOMAIN rows = ids, ids \cap DOMAIN contacts = {},
           lastRoid' \in Nat, lastRoid <= lastRoid',
           DOMAIN contacts' = ids \cup DOMAIN contacts,
           \A i \in ids : /\ contacts'[i] = rows[i]
                          /\ rows[i].roid \in 1 .. lastRoid'
                          /\ IsValidContactStatus(rows[i].status)
                          /\ \A j \in DOMAIN contacts : rows[i].roid # contacts[j].roid
                          /\ \A j \in ids : rows[i].roid = rows[j].roid => i = j,
           \A i \in DOMAIN contacts : contacts'[i] = contacts[i],
           UNCHANGED <<contactOf, contactReq, overtaken>>
    PROVE  ContactInv'
<1>1. RowsTyped'
  <2>1. ASSUME NEW i \in DOMAIN contacts'
        PROVE  contacts'[i].roid \in 1 .. lastRoid' /\ IsValidContactStatus(contacts'[i].status)
    <3>1. CASE i \in ids
      BY <3>1
    <3>2. CASE i \in DOMAIN contacts
      BY <3>2 DEF ContactInv, RowsTyped
    <3> QED
      BY <3>1, <3>2
  <2> QED
    BY <2>1 DEF RowsTyped, IsValidContactStatus
<1>2. SavesTyped'
  BY DEF ContactInv, SavesTyped, RowsTyped, IsValidContactStatus
<1>3. RoidsUnique'
  BY DEF ContactInv, RoidsUnique
<1>4. NamesThere'
  BY DEF ContactInv, NamesThere
<1>5. ~overtaken' => SavesMatch'
  BY DEF ContactInv, SavesMatch
<1> QED
  BY <1>1, <1>2, <1>3, <1>4, <1>5 DEF ContactInv

\* A step of the requests that leaves the table alone.
LEMMA RequestingKeeps ==
    ASSUME ContactInv, NEW p \in ContactProcs, NEW next,
           contactReq' = [contactReq EXCEPT ![p] = next],
           next.op = "Save" => /\ next.id \in DOMAIN contacts
                               /\ next.row.roid = contacts[next.id].roid
                               /\ IsValidContactStatus(next.row.status),
           UNCHANGED <<contacts, contactOf, lastRoid, overtaken>>
    PROVE  ContactInv'
<1>1. RowsTyped' /\ RoidsUnique' /\ NamesThere'
  BY DEF ContactInv, RowsTyped, RoidsUnique, NamesThere, IsValidContactStatus
<1>2. SavesTyped'
  BY DEF ContactInv, SavesTyped, RowsTyped, IsValidContactStatus
<1>3. ~overtaken' => SavesMatch'
  BY DEF ContactInv, SavesMatch, SavesTyped
<1> QED
  BY <1>1, <1>2, <1>3 DEF ContactInv

-----------------------------------------------------------------------------
(* One lemma per action that changes the table.                            *)

LEMMA ContactCreationKeeps ==
    ASSUME ContactInv, NEW p \in ContactProcs, NEW i \in ContactIds,
           NEW status \in SUBSET ContactFlags, NEW imported \in 0 .. MaxContactRoid,
           CreateContact(p, i, status, imported)
    PROVE  ContactInv'
<1> DEFINE n == IF imported = 0 THEN lastRoid' ELSE imported
<1>1. lastRoid \in Nat /\ \A j \in DOMAIN contacts : contacts[j].roid \in 1 .. lastRoid
  BY DEF ContactInv, RowsTyped
<1>2. i \notin DOMAIN contacts
  BY DEF CreateContact
<1>3. /\ lastRoid' \in Nat /\ lastRoid <= lastRoid' /\ n \in 1 .. lastRoid'
      /\ \A j \in DOMAIN contacts : n # contacts[j].roid
  <2>1. CASE imported = 0
    BY <1>1, <2>1 DEF CreateContact
  <2>2. CASE imported # 0
    BY <1>1, <1>2, <2>2 DEF CreateContact, RoidFree
  <2> QED
    BY <2>1, <2>2
<1>4. UNCHANGED <<contactOf, contactReq, overtaken>>
  BY DEF CreateContact
<1>5. PICK s \in SetFullContactStatus(status) :
         contacts' = ContactsWith([j \in {i} |-> [roid |-> n, status |-> s]])
  BY DEF CreateContact
<1>6. IsValidContactStatus(s)
  BY FullIsValid
<1> DEFINE rows == [j \in {i} |-> [roid |-> n, status |-> s]]
<1> HIDE DEF n
<1>7. /\ DOMAIN contacts' = {i} \cup DOMAIN contacts
      /\ contacts'[i] = rows[i]
      /\ rows[i].roid = n /\ rows[i].status = s
      /\ \A j \in DOMAIN contacts : contacts'[j] = contacts[j]
  BY <1>2, <1>5 DEF ContactsWith
<1>8. DOMAIN rows = {i}
  OBVIOUS
<1> HIDE DEF rows
<1> QED
  BY <1>2, <1>3, <1>4, <1>6, <1>7, <1>8, AddingKeeps

LEMMA BulkCreationKeeps ==
    ASSUME ContactInv, NEW p \in ContactProcs, NEW status \in SUBSET ContactFlags,
           BulkCreateContacts(p, status)
    PROVE  ContactInv'
<1>1. lastRoid \in Nat /\ \A j \in DOMAIN contacts : contacts[j].roid \in 1 .. lastRoid
  BY DEF ContactInv, RowsTyped
<1>2. PICK ids \in SUBSET (ContactIds \ DOMAIN contacts) :
         /\ Cardinality(ids) > 1
         /\ lastRoid + Cardinality(ids) <= MaxContactRoid
         /\ lastRoid' = lastRoid + Cardinality(ids)
         /\ \E s \in SetFullContactStatus(status),
               roid \in [ids -> lastRoid + 1 .. lastRoid'] :
               /\ IsInjective(roid)
               /\ contacts' = ContactsWith([i \in ids |-> [roid |-> roid[i], status |-> s]])
  BY DEF BulkCreateContacts
<1>3. PICK s \in SetFullContactStatus(status),
           roid \in [ids -> lastRoid + 1 .. lastRoid'] :
         /\ IsInjective(roid)
         /\ contacts' = ContactsWith([i \in ids |-> [roid |-> roid[i], status |-> s]])
  BY <1>2
<1>4. IsValidContactStatus(s)
  BY FullIsValid
<1>5. lastRoid' \in Nat /\ lastRoid <= lastRoid'
  <2>1. Cardinality(ids) \in Nat
    BY ContactLifecycleAssumption, FS_Subset, FS_CardinalityType
  <2> QED
    BY <1>1, <1>2, <2>1
<1>6. UNCHANGED <<contactOf, contactReq, overtaken>>
  BY DEF BulkCreateContacts
<1> DEFINE rows == [i \in ids |-> [roid |-> roid[i], status |-> s]]
<1>7. /\ DOMAIN contacts' = ids \cup DOMAIN contacts
      /\ \A i \in ids : contacts'[i] = rows[i]
      /\ \A i \in DOMAIN contacts : contacts'[i] = contacts[i]
  BY <1>2, <1>3 DEF ContactsWith
<1>8. /\ DOMAIN rows = ids
      /\ \A i \in ids : rows[i].roid = roid[i] /\ rows[i].status = s
  OBVIOUS
<1>9. \A i \in ids : /\ roid[i] \in 1 .. lastRoid'
                     /\ \A j \in DOMAIN contacts : roid[i] # contacts[j].roid
                     /\ \A j \in ids : roid[i] = roid[j] => i = j
  BY <1>1, <1>3, <1>5 DEF IsInjective
<1> HIDE DEF rows
<1>10. ids \cap DOMAIN contacts = {}
  OBVIOUS
<1>11. \A i \in ids : /\ rows[i].roid \in 1 .. lastRoid'
                      /\ IsValidContactStatus(rows[i].status)
                      /\ \A j \in DOMAIN contacts : rows[i].roid # contacts[j].roid
                      /\ \A j \in ids : rows[i].roid = rows[j].roid => i = j
  BY <1>4, <1>8, <1>9
<1> QED
  BY <1>5, <1>6, <1>7, <1>8, <1>10, <1>11, AddingKeeps

LEMMA ContactSavingKeeps ==
    ASSUME ContactInv, NEW p \in ContactProcs, UpdateContact(p)
    PROVE  /\ ContactInv'
           /\ ~overtaken => LET i == contactReq[p].id IN
                 i \in DOMAIN contacts /\ contacts'[i].roid = contacts[i].roid
<1> DEFINE i == contactReq[p].id
           row == contactReq[p].row
<1>1. /\ contactReq[p].op = "Save"
      /\ RoidFree(row.roid, i)
      /\ contacts' = ContactsWith([j \in {i} |-> row])
      /\ contactReq' = [contactReq EXCEPT ![p] = NoContactReq]
      /\ UNCHANGED <<contactOf, lastRoid, overtaken>>
  BY DEF UpdateContact
<1>2. /\ row.roid \in 1 .. lastRoid
      /\ IsValidContactStatus(row.status)
  BY <1>1 DEF ContactInv, SavesTyped
<1>3. ~overtaken => i \in DOMAIN contacts /\ contacts[i].roid = row.roid
  BY <1>1 DEF ContactInv, SavesMatch
<1> HIDE DEF i, row
<1>4. /\ DOMAIN contacts' = DOMAIN contacts \cup {i}
      /\ contacts'[i] = row
      /\ \A j \in DOMAIN contacts \ {i} : contacts'[j] = contacts[j]
  BY <1>1 DEF ContactsWith
<1>5. RowsTyped'
  <2>1. ASSUME NEW j \in DOMAIN contacts'
        PROVE  contacts'[j].roid \in 1 .. lastRoid /\ IsValidContactStatus(contacts'[j].status)
    BY <1>2, <1>4 DEF ContactInv, RowsTyped
  <2> QED
    BY <1>1, <2>1 DEF ContactInv, RowsTyped, IsValidContactStatus
<1>6. RoidsUnique'
  BY <1>1, <1>4 DEF ContactInv, RoidsUnique, RoidFree
<1>7. NamesThere'
  BY <1>1, <1>4 DEF ContactInv, NamesThere
<1>8. SavesTyped'
  BY <1>1 DEF ContactInv, SavesTyped, NoContactReq, IsValidContactStatus
<1>9. ~overtaken' => SavesMatch'
  BY <1>1, <1>3, <1>4 DEF ContactInv, SavesMatch, SavesTyped, NoContactReq
<1>10. ~overtaken => i \in DOMAIN contacts /\ contacts'[i].roid = contacts[i].roid
  BY <1>3, <1>4
<1> QED
  BY <1>5, <1>6, <1>7, <1>8, <1>9, <1>10 DEF ContactInv, i

LEMMA ContactDeletionKeeps ==
    ASSUME ContactInv, NEW p \in ContactProcs, NEW i \in ContactIds, DeleteContact(p, i)
    PROVE  ContactInv'
<1>1. /\ \A d \in ContactDomains : contactOf[d] # i
      /\ contacts' = [j \in DOMAIN contacts \ {i} |-> contacts[j]]
      /\ UNCHANGED <<contactOf, lastRoid, contactReq>>
  BY DEF DeleteContact, ContactDeletable
<1>2. RowsTyped' /\ RoidsUnique' /\ NamesThere'
  BY <1>1 DEF ContactInv, RowsTyped, RoidsUnique, NamesThere, IsValidContactStatus
<1>3. SavesTyped'
  BY <1>1 DEF ContactInv, SavesTyped, IsValidContactStatus
<1>4. ASSUME ~overtaken' PROVE SavesMatch'
  <2>1. ~(overtaken \/ \E q \in ContactProcs : contactReq[q] # NoContactReq /\ contactReq[q].id = i)
    BY <1>4, Zenon DEF DeleteContact
  <2>2. ~overtaken /\ \A q \in ContactProcs : contactReq[q] # NoContactReq => contactReq[q].id # i
    BY <2>1, Zenon
  <2>3. \A q \in ContactProcs : contactReq[q].op = "Save" => contactReq[q] # NoContactReq
    BY DEF NoContactReq
  <2> QED
    BY <1>1, <2>2, <2>3 DEF ContactInv, SavesMatch
<1> QED
  BY <1>2, <1>3, <1>4 DEF ContactInv

LEMMA OthersKeep ==
    ASSUME ContactInv,
           \/ \E p \in ContactProcs : ContactFail(p)
           \/ \E p \in ContactProcs, i \in ContactIds, status \in ContactStatuses :
                 LoadContact(p, i, status)
           \/ \E d \in ContactDomains, i \in ContactIds \cup {NoContact} : NameContact(d, i)
           \/ ContactEntityNext
           \/ UNCHANGED contactVars
    PROVE  ContactInv'
<1>1. ASSUME NEW p \in ContactProcs, ContactFail(p) PROVE ContactInv'
  BY <1>1, RequestingKeeps DEF ContactFail, NoContactReq
<1>2. ASSUME NEW p \in ContactProcs, NEW i \in ContactIds, NEW status \in ContactStatuses,
             LoadContact(p, i, status)
      PROVE  ContactInv'
  BY <1>2, RequestingKeeps DEF LoadContact, PutRow
<1>3. ASSUME NEW d \in ContactDomains, NEW i \in ContactIds \cup {NoContact}, NameContact(d, i)
      PROVE  ContactInv'
  BY <1>3 DEF NameContact, ContactInv, RowsTyped, SavesTyped, RoidsUnique, NamesThere,
              SavesMatch, IsValidContactStatus
<1>4. ASSUME ContactEntityNext \/ UNCHANGED contactVars PROVE ContactInv'
  <2>1. UNCHANGED <<contacts, contactOf, lastRoid, contactReq, overtaken>>
    BY <1>4 DEF ContactEntityNext, SetContactStatus, UnSetContactStatus, contactVars
  <2> QED
    BY <2>1 DEF ContactInv, RowsTyped, SavesTyped, RoidsUnique, NamesThere,
                SavesMatch, IsValidContactStatus
<1> QED
  BY <1>1, <1>2, <1>3, <1>4

LEMMA ContactStep ==
    ASSUME ContactInv, [ContactNext]_contactVars
    PROVE  ContactInv'
<1>1. \A status \in ContactStatuses : status \in SUBSET ContactFlags
  BY ContactLifecycleAssumption
<1>2. ASSUME NEW p \in ContactProcs, ContactServe(p) PROVE ContactInv'
  BY <1>1, <1>2, ContactCreationKeeps, BulkCreationKeeps, ContactSavingKeeps, ContactDeletionKeeps, OthersKeep
     DEF ContactServe
<1> QED
  BY <1>2, OthersKeep DEF ContactNext, ContactTableNext

-----------------------------------------------------------------------------
(* The contact in memory.                                                  *)

\* ContactStatusCoherent, with two pending operations spelt out.
Coherent(status) ==
    /\ status \in SUBSET ContactFlags
    /\ IsValidContactStatus(status)
    /\ \A x, y \in status \cap ContactPendings : x = y
    /\ \A x \in status \cap ContactProhibitions : ContactOpposite(x) \notin status

LEMMA OppositesPending ==
    ASSUME NEW x \in ContactProhibitions
    PROVE  ContactOpposite(x) \in ContactPendings
  BY DEF ContactOpposite, ContactPendings, ContactProhibitions, ContactUpdateProhibitions

LEMMA PendingExcludes ==
    ASSUME NEW flag \in ContactPendings
    PROVE  ContactExcludes(flag) =
             (ContactPendings \ {flag})
             \cup {x \in ContactProhibitions : ContactOpposite(x) = flag}
<1>1. flag \notin ContactProhibitions /\ flag # "ok"
  BY DEF ContactPendings, ContactProhibitions, ContactUpdateProhibitions
<1> QED
  BY <1>1 DEF ContactExcludes

\* What is added to a status by a set flag is the flag, and ok may go or come.
LEMMA SetIsCoherent ==
    ASSUME NEW status, Coherent(status), NEW flag \in ContactFlags,
           NEW s \in ContactSetStatus(status, flag)
    PROVE  Coherent(s)
<1>1. CASE flag \in status \cap ContactUpdateProhibitions
  BY <1>1 DEF ContactSetStatus
<1>2. CASE flag \notin status \cap ContactUpdateProhibitions
  <2>1. /\ s = IF flag \in ContactRestrictions
                  THEN ContactWithOK(status \cup {flag}) ELSE status \cup {flag}
        /\ status \cap ContactExcludes(flag) = {}
        /\ IsValidContactStatus(s)
    BY <1>2 DEF ContactSetStatus
  <2>2. s \subseteq status \cup {flag} \cup {"ok"}
    BY <2>1 DEF ContactWithOK
  <2>3. s \in SUBSET ContactFlags /\ "ok" \notin ContactPendings /\ "ok" \notin ContactProhibitions
    BY <2>2 DEF Coherent, ContactFlags, ContactPendings, ContactProhibitions,
                ContactUpdateProhibitions
  <2>4. flag \in ContactPendings => status \cap ContactPendings \subseteq {flag}
    BY <2>1, PendingExcludes
  <2>5. \A x, y \in s \cap ContactPendings : x = y
    BY <2>2, <2>3, <2>4 DEF Coherent
  <2>6. ASSUME NEW x \in s \cap ContactProhibitions PROVE ContactOpposite(x) \notin s
    <3>1. ContactOpposite(x) \in ContactPendings /\ ContactOpposite(x) # "ok"
      BY <2>3, OppositesPending
    <3>2. CASE flag \in ContactPendings
      <4>1. x \notin ContactPendings
        BY DEF ContactPendings, ContactProhibitions, ContactUpdateProhibitions
      <4>2. x \in status
        BY <2>2, <2>3, <3>2, <4>1
      <4>3. ContactOpposite(x) # flag
        BY <2>1, <3>2, <4>2, PendingExcludes
      <4> QED
        BY <2>2, <3>1, <4>2, <4>3 DEF Coherent
    <3>3. CASE flag \in ContactProhibitions
      <4>1. ContactOpposite(flag) \notin status /\ flag \notin ContactPendings
        BY <2>1, <3>3 DEF ContactExcludes, ContactPendings, ContactProhibitions,
                          ContactUpdateProhibitions
      <4> QED
        BY <2>2, <2>3, <3>1, <4>1 DEF Coherent
    <3>4. CASE flag \notin ContactPendings \cup ContactProhibitions
      BY <2>2, <2>3, <3>1, <3>4 DEF Coherent
    <3> QED
      BY <3>2, <3>3, <3>4
  <2> QED
    BY <2>1, <2>3, <2>5, <2>6 DEF Coherent
<1> QED
  BY <1>1, <1>2

LEMMA UnSetIsCoherent ==
    ASSUME NEW status, Coherent(status), NEW flag \in ContactFlags,
           NEW s \in ContactUnSetStatus(status, flag)
    PROVE  Coherent(s)
<1>1. /\ s = IF flag \in ContactRestrictions
                THEN ContactWithOK(status \ {flag}) ELSE status \ {flag}
      /\ flag = "ok" => status \cap ContactRestrictions # {}
  BY DEF ContactUnSetStatus
<1>2. s \subseteq status \cup {"ok"} /\ s \in SUBSET ContactFlags
  BY <1>1 DEF ContactWithOK, Coherent, ContactFlags
<1>3. "ok" \notin ContactRestrictions /\ "linked" \notin ContactRestrictions
  BY DEF ContactRestrictions, ContactPendings, ContactProhibitions, ContactUpdateProhibitions
<1>4. IsValidContactStatus(s)
  <2>1. CASE flag \in ContactRestrictions
    <3>1. status \ {flag} \in SUBSET ContactFlags
      BY DEF Coherent
    <3> QED
      BY <1>1, <2>1, <3>1, WithOKIsValid
  <2>2. CASE flag \notin ContactRestrictions
    BY <1>1, <1>3, <2>2 DEF Coherent, IsValidContactStatus, ContactFlags
  <2> QED
    BY <2>1, <2>2
<1>5. "ok" \notin ContactPendings /\ "ok" \notin ContactProhibitions
  BY <1>3 DEF ContactRestrictions
<1>6. \A x, y \in s \cap ContactPendings : x = y
  BY <1>2, <1>5 DEF Coherent
<1>7. \A x \in s \cap ContactProhibitions : ContactOpposite(x) \notin s
  BY <1>2, <1>5, OppositesPending DEF Coherent
<1> QED
  BY <1>2, <1>4, <1>6, <1>7 DEF Coherent

LEMMA EntityStep ==
    ASSUME Coherent(contact), [ContactNext]_contactVars
    PROVE  Coherent(contact')
<1>1. CASE ContactEntityNext
  BY <1>1, SetIsCoherent, UnSetIsCoherent
     DEF ContactEntityNext, SetContactStatus, UnSetContactStatus
<1>2. CASE UNCHANGED contactVars
  BY <1>2 DEF contactVars
<1>3. CASE ContactTableNext
  <2>1. contact' = contact
    BY <1>3 DEF ContactTableNext, ContactServe, UpdateContact, ContactFail,
                BulkCreateContacts, DeleteContact, LoadContact, CreateContact, NameContact
  <2> QED
    BY <2>1
<1> QED
  BY <1>1, <1>2, <1>3 DEF ContactNext

-----------------------------------------------------------------------------
(* The theorems.                                                           *)

\* ContactInv holds in every reachable state.
THEOREM ContactsKeepInv == ContactSpec => []ContactInv
  BY ContactInitially, ContactStep, PTL DEF ContactSpec

\* No domain names a contact that is gone, RoIDs are unique and the ok flag
\* of every row is right, whatever requests interleave.
THEOREM ContactTablesStayConsistent == ContactSpec => []ContactTablesConsistent
<1>1. ContactInv => ContactTablesConsistent
  BY DEF ContactInv, NamesThere, RoidsUnique, RowsTyped, ContactTablesConsistent
<1> QED
  BY <1>1, ContactsKeepInv, PTL

\* A PUT keeps the RoID of the contact, unless a deletion overtook it.
THEOREM RoidsStay == ContactSpec => RoidsKept
<1>1. ContactInv /\ [ContactNext]_contactVars =>
        [\A i \in ContactIds : \A p \in ContactProcs :
            UpdateContact(p) /\ contactReq[p].id = i /\ ~overtaken
            => i \in DOMAIN contacts /\ contacts'[i].roid = contacts[i].roid]_contactVars
  BY ContactSavingKeeps
<1> QED
  BY <1>1, ContactsKeepInv, PTL DEF ContactSpec, RoidsKept

\* SetStatus and UnSetStatus never lead to two pending operations, nor to one
\* besides a prohibition of it.
THEOREM ContactStatusesCoherent == ContactSpec => []ContactStatusCoherent
<1>1. ContactInit => Coherent(contact)
  BY DEF ContactInit, Coherent, IsValidContactStatus, ContactFlags, ContactRestrictions,
         ContactPendings, ContactProhibitions, ContactUpdateProhibitions
<1>2. Coherent(contact) => ContactStatusCoherent
  <2>1. ASSUME Coherent(contact) PROVE Cardinality(contact \cap ContactPendings) <= 1
    <3>1. CASE contact \cap ContactPendings = {}
      BY <3>1, FS_EmptySet
    <3>2. CASE \E x : contact \cap ContactPendings = {x}
      BY <3>2, FS_Singleton
    <3> QED
      BY <2>1, <3>1, <3>2 DEF Coherent
  <2> QED
    BY <2>1 DEF Coherent, ContactStatusCoherent
<1>3. Coherent(contact) /\ [ContactNext]_contactVars => Coherent(contact)'
  BY EntityStep DEF Coherent, IsValidContactStatus
<1> QED
  BY <1>1, <1>2, <1>3, PTL DEF ContactSpec

-----------------------------------------------------------------------------
(* The types of the table and of the requests.                             *)

LEMMA RowsKeepTypes ==
    ASSUME ContactTypeOK, NEW rows, DOMAIN rows \subseteq ContactIds,
           \A i \in DOMAIN rows : rows[i] \in ContactRow,
           contacts' = ContactsWith(rows)
    PROVE  DOMAIN contacts' \subseteq ContactIds /\ contacts' \in [DOMAIN contacts' -> ContactRow]
<1>1. DOMAIN contacts' = DOMAIN rows \cup DOMAIN contacts
  BY DEF ContactsWith
<1>2. \A i \in DOMAIN contacts' : contacts'[i] \in ContactRow
  BY <1>1 DEF ContactsWith, ContactTypeOK
<1>3. contacts' = [i \in DOMAIN contacts' |-> contacts'[i]]
  BY DEF ContactsWith
<1> QED
  BY <1>1, <1>2, <1>3 DEF ContactTypeOK

LEMMA EntityKeepsTypes ==
    ASSUME NEW status \in SUBSET ContactFlags, NEW flag \in ContactFlags,
           NEW s \in ContactSetStatus(status, flag) \cup ContactUnSetStatus(status, flag)
    PROVE  s \in SUBSET ContactFlags
BY WithOKIsValid DEF ContactSetStatus, ContactUnSetStatus

LEMMA NextRoidTyped ==
    ASSUME lastRoid \in 0 .. MaxContactRoid, NEW n \in Nat, lastRoid + n <= MaxContactRoid
    PROVE  lastRoid + n \in 0 .. MaxContactRoid
BY ContactLifecycleAssumption

LEMMA ContactServeKeepsTypes ==
    ASSUME ContactTypeOK, NEW p \in ContactProcs, ContactServe(p)
    PROVE  ContactTypeOK'
<1> USE ContactLifecycleAssumption
<1>1. ASSUME NEW status \in ContactStatuses, NEW i \in ContactIds,
             NEW imported \in 0 .. MaxContactRoid, CreateContact(p, i, status, imported)
      PROVE  ContactTypeOK'
  <2>1. lastRoid' \in 0 .. MaxContactRoid
    BY <1>1 DEF CreateContact, ContactTypeOK
  <2> DEFINE n == IF imported = 0 THEN lastRoid' ELSE imported
  <2>2. n \in ContactRoids
    BY <1>1, <2>1 DEF ContactRoids, CreateContact, ContactTypeOK
  <2>3. PICK s \in SetFullContactStatus(status) :
            contacts' = ContactsWith([j \in {i} |-> [roid |-> n, status |-> s]])
    BY <1>1 DEF CreateContact
  <2>4. [roid |-> n, status |-> s] \in ContactRow
    BY <2>2, FullIsValid DEF ContactRow
  <2> HIDE DEF n
  <2>5. DOMAIN contacts' \subseteq ContactIds /\ contacts' \in [DOMAIN contacts' -> ContactRow]
    BY <2>3, <2>4, RowsKeepTypes
  <2> QED
    BY <1>1, <2>1, <2>5 DEF CreateContact, ContactTypeOK, IsContactReq
<1>2. ASSUME NEW status \in ContactStatuses, BulkCreateContacts(p, status)
      PROVE  ContactTypeOK'
  <2>1. PICK ids \in SUBSET (ContactIds \ DOMAIN contacts) :
            /\ lastRoid + Cardinality(ids) <= MaxContactRoid
            /\ lastRoid' = lastRoid + Cardinality(ids)
            /\ \E s \in SetFullContactStatus(status),
                  roid \in [ids -> lastRoid + 1 .. lastRoid'] :
                  contacts' = ContactsWith([i \in ids |-> [roid |-> roid[i], status |-> s]])
    BY <1>2 DEF BulkCreateContacts
  <2>2. Cardinality(ids) \in Nat
    BY FS_Subset, FS_CardinalityType
  <2>3. lastRoid' \in 0 .. MaxContactRoid
    BY <2>1, <2>2 DEF ContactTypeOK
  <2>4. PICK s \in SetFullContactStatus(status), roid \in [ids -> lastRoid + 1 .. lastRoid'] :
            contacts' = ContactsWith([i \in ids |-> [roid |-> roid[i], status |-> s]])
    BY <2>1
  <2> DEFINE rows == [i \in ids |-> [roid |-> roid[i], status |-> s]]
  <2>5. \A i \in ids : roid[i] \in ContactRoids
    BY <2>3 DEF ContactRoids, ContactTypeOK
  <2>6. s \in SUBSET ContactFlags
    BY FullIsValid
  <2>7. DOMAIN rows \subseteq ContactIds /\ \A i \in DOMAIN rows : rows[i] \in ContactRow
    BY <2>5, <2>6 DEF ContactRow
  <2>8. contacts' = ContactsWith(rows)
    BY <2>4
  <2> HIDE DEF rows
  <2>9. DOMAIN contacts' \subseteq ContactIds /\ contacts' \in [DOMAIN contacts' -> ContactRow]
    BY <2>7, <2>8, RowsKeepTypes
  <2> QED
    BY <1>2, <2>3, <2>9 DEF BulkCreateContacts, ContactTypeOK, IsContactReq
<1>3. ASSUME NEW status \in ContactStatuses, NEW i \in ContactIds, LoadContact(p, i, status)
      PROVE  ContactTypeOK'
  <2>1. i \in DOMAIN contacts /\ contacts[i] \in ContactRow
    BY <1>3 DEF LoadContact, ContactTypeOK
  <2>2. PutRow(i, status) \in ContactRow
    BY <2>1, WithOKIsValid DEF PutRow, PutStatus, ContactRow
  <2>3. IsContactReq([op |-> "Save", id |-> i, row |-> PutRow(i, status)])
    BY <2>2 DEF IsContactReq
  <2> QED
    BY <1>3, <2>3 DEF LoadContact, ContactTypeOK
<1>4. CASE UpdateContact(p)
  <2> DEFINE r == contactReq[p]
  <2>1. r.id \in ContactIds /\ r.row \in ContactRow
    BY <1>4 DEF UpdateContact, ContactTypeOK, IsContactReq, NoContactReq
  <2>2. contacts' = ContactsWith([i \in {r.id} |-> r.row])
    BY <1>4 DEF UpdateContact
  <2>3. contactReq' = [contactReq EXCEPT ![p] = NoContactReq]
    BY <1>4 DEF UpdateContact
  <2> HIDE DEF r
  <2>4. DOMAIN contacts' \subseteq ContactIds /\ contacts' \in [DOMAIN contacts' -> ContactRow]
    BY <2>1, <2>2, RowsKeepTypes
  <2> QED
    BY <1>4, <2>3, <2>4 DEF UpdateContact, ContactTypeOK, IsContactReq
<1>5. CASE ContactFail(p)
  BY <1>5 DEF ContactFail, ContactTypeOK, IsContactReq
<1>6. ASSUME NEW i \in ContactIds, DeleteContact(p, i) PROVE ContactTypeOK'
  <2>1. overtaken' \in BOOLEAN
    BY <1>6, Zenon DEF DeleteContact, ContactTypeOK
  <2> QED
    BY <1>6, <2>1 DEF DeleteContact, ContactTypeOK, IsContactReq
<1> QED
  BY <1>1, <1>2, <1>3, <1>4, <1>5, <1>6 DEF ContactServe

LEMMA ContactTypesStep ==
    ASSUME ContactTypeOK, [ContactNext]_contactVars
    PROVE  ContactTypeOK'
<1>1. ASSUME NEW p \in ContactProcs, ContactServe(p) PROVE ContactTypeOK'
  BY <1>1, ContactServeKeepsTypes
<1>2. ASSUME NEW d \in ContactDomains, NEW i \in ContactIds \cup {NoContact}, NameContact(d, i)
      PROVE  ContactTypeOK'
  BY <1>2 DEF NameContact, ContactTypeOK, IsContactReq
<1>3. CASE ContactEntityNext
  <2>1. contact' \in SUBSET ContactFlags
    BY <1>3, EntityKeepsTypes
       DEF ContactEntityNext, SetContactStatus, UnSetContactStatus, ContactTypeOK
  <2> QED
    BY <1>3, <2>1 DEF ContactEntityNext, SetContactStatus, UnSetContactStatus,
                      ContactTypeOK, IsContactReq
<1>4. CASE UNCHANGED contactVars
  BY <1>4 DEF contactVars, ContactTypeOK, IsContactReq
<1> QED
  BY <1>1, <1>2, <1>3, <1>4 DEF ContactNext, ContactTableNext

LEMMA ContactTypesStart == ContactInit => ContactTypeOK
<1> SUFFICES ASSUME ContactInit PROVE ContactTypeOK
  OBVIOUS
<1>1. contact \subseteq ContactFlags
  BY DEF ContactInit, ContactFlags
<1>2. DOMAIN contacts \subseteq ContactIds /\ contacts \in [DOMAIN contacts -> ContactRow]
  BY DEF ContactInit
<1>3. lastRoid \in 0 .. MaxContactRoid
  BY ContactLifecycleAssumption DEF ContactInit
<1>4. overtaken \in BOOLEAN
  BY Zenon DEF ContactInit
<1>5. contactOf \in [ContactDomains -> ContactIds \cup {NoContact}]
  BY DEF ContactInit
<1>6. /\ contactReq = [p \in ContactProcs |-> contactReq[p]]
      /\ \A p \in ContactProcs : IsContactReq(contactReq[p])
  BY DEF ContactInit, IsContactReq
<1> QED
  BY <1>1, <1>2, <1>3, <1>4, <1>5, <1>6, Zenon DEF ContactTypeOK

\* Whatever the requests carry, every id, RoID and status stays one of its kind.
THEOREM ContactTypesCorrect == ContactSpec => []ContactTypeOK
  BY ContactTypesStart, ContactTypesStep, PTL DEF ContactSpec

-----------------------------------------------------------------------------
(* REGISTRARS AND ACCREDITATIONS                                           *)

(* The inductive invariant.                                                *)

\* What a process is about to do is about registrars and TLDs.
RequestsTyped ==
    /\ rarReq = [p \in RarProcs |-> rarReq[p]]
    /\ \A p \in RarProcs :
         /\ rarReq[p].op = "Save" => rarReq[p].clid \in ClIDs
         /\ rarReq[p].op = "Append" => <<rarReq[p].clid, rarReq[p].tld>> \in ClIDs \X RarTlds

\* An accreditation that is about to be appended was earned: the registrar
\* met the conditions when it was loaded, or was accredited, for which it had
\* met them before.
AppendsQualified ==
    \A p \in RarProcs :
       rarReq[p].op = "Append" => <<rarReq[p].clid, rarReq[p].tld>> \in qualified

\* What a row of the table qualifies for was recorded when it was written.
RowsRecorded ==
    \A c \in DOMAIN registrars, t \in RarTlds :
       Qualifies(registrars[c], t) => <<c, t>> \in qualified

References ==
    /\ accreditations \subseteq ClIDs \X RarTlds
    /\ \A x \in accreditations : x[1] \in DOMAIN registrars
    /\ sponsoring \subseteq DOMAIN registrars

UniqueNames ==
    \A c, d \in DOMAIN registrars : registrars[c].name = registrars[d].name => c = d

\* No row of the table was inserted by an association.
AllWhole == \A c \in DOMAIN registrars : registrars[c] \in Registrar

\* Before the first interleaving a request finds what it loaded.
LoadedIsThere ==
    \A p \in RarProcs :
       /\ rarReq[p].op = "Append" => rarReq[p].clid \in DOMAIN registrars
       /\ rarReq[p].op = "Save" => rarReq[p].row \in Registrar

RarInv ==
    /\ RequestsTyped
    /\ accreditations \subseteq qualified
    /\ AppendsQualified
    /\ RowsRecorded
    /\ References
    /\ UniqueNames
    /\ ~rarOvertaken => AllWhole /\ LoadedIsThere

LEMMA RarInitially == RarInit => RarInv
  BY DEF RarInit, RarInv, RequestsTyped, AppendsQualified, RowsRecorded,
         References, UniqueNames, AllWhole, LoadedIsThere, NoRarReq

-----------------------------------------------------------------------------
(* What the writing of rows keeps.                                         *)

LEMMA WrittenRecords ==
    ASSUME NEW rows, Written(rows), RowsRecorded
    PROVE  /\ RowsRecorded'
           /\ qualified \subseteq qualified'
           /\ DOMAIN registrars' = DOMAIN registrars \cup DOMAIN rows
<1>1. ASSUME NEW c \in DOMAIN registrars', NEW t \in RarTlds,
             Qualifies(registrars'[c], t)
      PROVE  <<c, t>> \in qualified'
  <2>1. CASE c \in DOMAIN rows
    BY <1>1, <2>1 DEF Written
  <2>2. CASE c \notin DOMAIN rows
    <3>1. c \in DOMAIN registrars /\ registrars'[c] = registrars[c]
      BY <2>2 DEF Written
    <3> QED
      BY <1>1, <3>1 DEF Written, RowsRecorded
  <2> QED
    BY <2>1, <2>2
<1> QED
  BY <1>1 DEF Written, RowsRecorded, Qualifies

\* Rows whose names are free and differ from each other keep names unique.
LEMMA WrittenUnique ==
    ASSUME NEW rows, Written(rows), UniqueNames,
           \A c \in DOMAIN rows : NameFree(rows[c].name, c),
           \A c, d \in DOMAIN rows : rows[c].name = rows[d].name => c = d
    PROVE  UniqueNames'
  BY DEF Written, UniqueNames, NameFree

LEMMA WrittenWhole ==
    ASSUME NEW rows, Written(rows), AllWhole,
           \A c \in DOMAIN rows : rows[c] \in Registrar
    PROVE  AllWhole'
  BY DEF Written, AllWhole

\* A step of p that the observer does not call an overtaking found every other
\* process idle, and leaves it so.
LEMMA ProceedAlone ==
    ASSUME RequestsTyped, NEW p \in RarProcs, NEW next, RarProceed(p, next), ~rarOvertaken'
    PROVE  /\ ~rarOvertaken
           /\ rarReq'[p] = next
           /\ \A q \in RarProcs \ {p} : rarReq'[q].op = "idle"
<1>1. ~(rarOvertaken \/ \E q \in RarProcs \ {p} : rarReq[q] # NoRarReq)
  BY Zenon DEF RarProceed
<1>2. ~rarOvertaken /\ \A q \in RarProcs \ {p} : rarReq[q] = NoRarReq
  BY <1>1, Zenon
<1>3. rarReq' = [rarReq EXCEPT ![p] = next]
  BY Zenon DEF RarProceed
<1> QED
  BY <1>2, <1>3, SMT DEF RequestsTyped, NoRarReq

\* What a step of p does to the parts about requests.
LEMMA ProceedTyped ==
    ASSUME RequestsTyped, AppendsQualified, NEW p \in RarProcs, NEW next,
           RarProceed(p, next), qualified \subseteq qualified',
           next.op = "Save" => next.clid \in ClIDs,
           next.op = "Append" => /\ <<next.clid, next.tld>> \in ClIDs \X RarTlds
                                 /\ <<next.clid, next.tld>> \in qualified'
    PROVE  RequestsTyped' /\ AppendsQualified'
  BY DEF RarProceed, RequestsTyped, AppendsQualified

-----------------------------------------------------------------------------
(* Every step keeps the invariant.                                         *)

LEMMA RowsOfUpdates ==
    ASSUME NEW row \in RarUpdates
    PROVE  row \in Registrar /\ row.name \in RarNames /\ row.gurid \in BOOLEAN
  BY RegistrarsAssumption DEF Registrar

LEMMA Named ==
    ASSUME NEW row \in Registrar
    PROVE  row.name # Unnamed
  BY RegistrarsAssumption DEF Registrar

LEMMA NewIsWhole ==
    ASSUME NEW name \in RarNames, NEW gurid \in BOOLEAN
    PROVE  /\ NewRegistrar(name, gurid) \in Registrar
           /\ NewRegistrar(name, gurid).name = name
  BY DEF NewRegistrar, Registrar, RarStatuses, IanaStatuses

\* A step that writes rows whose names are free, and leaves p idle.
LEMMA WritingKeeps ==
    ASSUME RarInv, NEW p \in RarProcs, NEW rows, Written(rows), RarProceed(p, NoRarReq),
           \A c \in DOMAIN rows : NameFree(rows[c].name, c),
           \A c, d \in DOMAIN rows : rows[c].name = rows[d].name => c = d,
           ~rarOvertaken => \A c \in DOMAIN rows : rows[c] \in Registrar,
           UNCHANGED <<accreditations, sponsoring>>
    PROVE  RarInv'
<1>1. RowsRecorded' /\ qualified \subseteq qualified'
      /\ DOMAIN registrars' = DOMAIN registrars \cup DOMAIN rows
  BY WrittenRecords DEF RarInv
<1>2. UniqueNames'
  BY WrittenUnique DEF RarInv
<1>3. RequestsTyped' /\ AppendsQualified'
  BY <1>1, ProceedTyped DEF RarInv, NoRarReq
<1>4. References' /\ accreditations' \subseteq qualified'
  BY <1>1 DEF RarInv, References
<1>5. ASSUME ~rarOvertaken' PROVE AllWhole' /\ LoadedIsThere'
  <2>1. /\ ~rarOvertaken
        /\ rarReq'[p] = NoRarReq
        /\ \A q \in RarProcs \ {p} : rarReq'[q].op = "idle"
    BY <1>5, ProceedAlone DEF RarInv
  <2>2. AllWhole'
    BY <2>1, WrittenWhole DEF RarInv
  <2> QED
    BY <2>1, <2>2 DEF LoadedIsThere, NoRarReq
<1> QED
  BY <1>1, <1>2, <1>3, <1>4, <1>5 DEF RarInv

\* A step that loads something, or ends a request without an effect.
LEMMA LoadingKeeps ==
    ASSUME RarInv, NEW p \in RarProcs, NEW next, RarProceed(p, next),
           next.op = "Save" => /\ next.clid \in ClIDs
                               /\ ~rarOvertaken => next.row \in Registrar,
           next.op = "Append" => /\ <<next.clid, next.tld>> \in ClIDs \X RarTlds
                                 /\ <<next.clid, next.tld>> \in qualified
                                 /\ next.clid \in DOMAIN registrars,
           UNCHANGED <<registrars, accreditations, sponsoring, qualified>>
    PROVE  RarInv'
<1>1. RequestsTyped' /\ AppendsQualified'
  BY ProceedTyped DEF RarInv
<1>2. RowsRecorded' /\ UniqueNames' /\ References' /\ accreditations' \subseteq qualified'
  BY DEF RarInv, RowsRecorded, UniqueNames, References, Qualifies
<1>3. ASSUME ~rarOvertaken' PROVE AllWhole' /\ LoadedIsThere'
  <2>1. /\ ~rarOvertaken
        /\ rarReq'[p] = next
        /\ \A q \in RarProcs \ {p} : rarReq'[q].op = "idle"
    BY <1>3, ProceedAlone DEF RarInv
  <2>2. AllWhole'
    BY <2>1 DEF RarInv, AllWhole
  <2> QED
    BY <2>1, <2>2 DEF LoadedIsThere
<1> QED
  BY <1>1, <1>2, <1>3 DEF RarInv

LEMMA RarCreationKeeps ==
    ASSUME RarInv, NEW p \in RarProcs,
           \/ \E c \in ClIDs, row \in RarUpdates : CreateRegistrar(p, c, row.name, row.gurid)
           \/ \E names \in [ClIDs -> RarNames] : BulkCreateRegistrars(p, names)
    PROVE  RarInv'
<1>1. ASSUME NEW c \in ClIDs, NEW row \in RarUpdates,
             CreateRegistrar(p, c, row.name, row.gurid)
      PROVE  RarInv'
  <2> DEFINE rows == [d \in {c} |-> NewRegistrar(row.name, row.gurid)]
  <2>1. /\ NewRegistrar(row.name, row.gurid) \in Registrar
        /\ NewRegistrar(row.name, row.gurid).name = row.name
    BY RowsOfUpdates, NewIsWhole
  <2>2. /\ Written(rows)
        /\ RarProceed(p, NoRarReq)
        /\ NameFree(row.name, c)
        /\ UNCHANGED <<accreditations, sponsoring>>
    BY <1>1 DEF CreateRegistrar, RarAccepting
  <2>3. DOMAIN rows = {c} /\ rows[c] = NewRegistrar(row.name, row.gurid)
    OBVIOUS
  <2> HIDE DEF rows
  <2> QED
    BY <2>1, <2>2, <2>3, WritingKeeps
<1>2. ASSUME NEW names \in [ClIDs -> RarNames], BulkCreateRegistrars(p, names)
      PROVE  RarInv'
  <2> DEFINE rows == [c \in DOMAIN names |-> NewRegistrar(names[c], TRUE)]
  <2>1. \A c \in DOMAIN names : rows[c] \in Registrar /\ rows[c].name = names[c]
    BY NewIsWhole
  <2>2. /\ Written(rows)
        /\ RarProceed(p, NoRarReq)
        /\ \A c \in DOMAIN names : NameFree(names[c], c)
        /\ \A c, d \in DOMAIN names : names[c] = names[d] => c = d
        /\ UNCHANGED <<accreditations, sponsoring>>
    BY <1>2 DEF BulkCreateRegistrars, RarAccepting
  <2>3. DOMAIN rows = DOMAIN names
    OBVIOUS
  <2> HIDE DEF rows
  <2> QED
    BY <2>1, <2>2, <2>3, WritingKeeps
<1> QED
  BY <1>1, <1>2

LEMMA LoadsKeep ==
    ASSUME RarInv, NEW p \in RarProcs, NEW c \in ClIDs,
           \/ \E row \in RarUpdates : LoadForUpdate(p, c, row)
           \/ \E status \in RarStatuses : LoadSetStatus(p, c, status)
           \/ \E t \in RarTlds : LoadAccredit(p, c, t) \/ LoadDeaccredit(p, c, t)
    PROVE  RarInv'
<1>1. ASSUME NEW row \in RarUpdates, LoadForUpdate(p, c, row) PROVE RarInv'
  BY <1>1, LoadingKeeps, RowsOfUpdates DEF LoadForUpdate, RarAccepting
<1>2. ASSUME NEW status \in RarStatuses, LoadSetStatus(p, c, status) PROVE RarInv'
  <2>1. ~rarOvertaken => [registrars[c] EXCEPT !.status = status] \in Registrar
    BY <1>2 DEF LoadSetStatus, RarInv, AllWhole, Registrar
  <2> QED
    BY <1>2, <2>1, LoadingKeeps DEF LoadSetStatus, RarAccepting
<1>3. ASSUME NEW t \in RarTlds, LoadAccredit(p, c, t) PROVE RarInv'
  <2>1. <<c, t>> \in qualified
    BY <1>3 DEF LoadAccredit, MayAccredit, Qualifies, RarInv, RowsRecorded
  <2> QED
    BY <1>3, <2>1, LoadingKeeps DEF LoadAccredit, RarAccepting
<1>4. ASSUME NEW t \in RarTlds, LoadDeaccredit(p, c, t) PROVE RarInv'
  BY <1>4, LoadingKeeps DEF LoadDeaccredit, RarAccepting
<1> QED
  BY <1>1, <1>2, <1>3, <1>4

LEMMA RarSavingKeeps ==
    ASSUME RarInv, NEW p \in RarProcs, UpdateRegistrar(p)
    PROVE  RarInv'
<1> DEFINE c == rarReq[p].clid
           rows == [d \in {c} |-> rarReq[p].row]
<1>1. /\ rarReq[p].op = "Save"
      /\ NameFree(rarReq[p].row.name, c)
      /\ RarProceed(p, NoRarReq)
      /\ Written(rows)
      /\ UNCHANGED <<accreditations, sponsoring>>
  BY DEF UpdateRegistrar
<1>2. DOMAIN rows = {c} /\ rows[c] = rarReq[p].row
  OBVIOUS
<1>3. ~rarOvertaken => rarReq[p].row \in Registrar
  BY <1>1 DEF RarInv, LoadedIsThere
<1> HIDE DEF rows, c
<1> QED
  BY <1>1, <1>2, <1>3, WritingKeeps DEF c

\* The Append stores what was earned, and inserts the registrar if it is gone.
LEMMA AppendingKeeps ==
    ASSUME RarInv, NEW p \in RarProcs, AppendAccreditation(p)
    PROVE  RarInv'
<1> DEFINE c == rarReq[p].clid
           rows == [d \in {c} \ DOMAIN registrars |-> Ghost]
<1>1. /\ <<c, rarReq[p].tld>> \in ClIDs \X RarTlds
      /\ <<c, rarReq[p].tld>> \in qualified
      /\ c \in DOMAIN registrars \/ NameFree(Unnamed, c)
      /\ RarProceed(p, NoRarReq)
      /\ accreditations' = accreditations \cup {<<c, rarReq[p].tld>>}
      /\ Written(rows)
      /\ sponsoring' = sponsoring
  BY DEF AppendAccreditation, RarInv, RequestsTyped, AppendsQualified
<1>2. DOMAIN rows = {c} \ DOMAIN registrars /\ \A d \in DOMAIN rows : d = c /\ rows[d].name = Unnamed
  BY DEF Ghost
<1>3. ~rarOvertaken => c \in DOMAIN registrars
  BY DEF AppendAccreditation, RarInv, LoadedIsThere
<1> HIDE DEF rows, c
<1>4. RowsRecorded' /\ qualified \subseteq qualified'
      /\ DOMAIN registrars' = DOMAIN registrars \cup DOMAIN rows
  BY <1>1, WrittenRecords DEF RarInv
<1>5. UniqueNames'
  BY <1>1, <1>2, WrittenUnique DEF RarInv
<1>6. RequestsTyped' /\ AppendsQualified'
  BY <1>1, <1>4, ProceedTyped DEF RarInv, NoRarReq
<1>7. accreditations' \subseteq qualified'
  BY <1>1, <1>4 DEF RarInv
<1>8. References'
  BY <1>1, <1>2, <1>4 DEF RarInv, References
<1>9. ASSUME ~rarOvertaken' PROVE AllWhole' /\ LoadedIsThere'
  <2>1. /\ ~rarOvertaken
        /\ rarReq'[p] = NoRarReq
        /\ \A q \in RarProcs \ {p} : rarReq'[q].op = "idle"
    BY <1>1, <1>9, ProceedAlone DEF RarInv
  <2>2. AllWhole'
    BY <1>1, <1>2, <1>3, <2>1, WrittenWhole DEF RarInv
  <2> QED
    BY <2>1, <2>2 DEF LoadedIsThere, NoRarReq
<1> QED
  BY <1>4, <1>5, <1>6, <1>7, <1>8, <1>9 DEF RarInv

\* Deletions: foreign keys keep the registrars that something refers to.
LEMMA RarDeletionKeeps ==
    ASSUME RarInv, NEW p \in RarProcs,
           (\E c \in ClIDs : DeleteRegistrar(p, c)) \/ DeleteAccreditation(p)
    PROVE  RarInv'
<1>1. ASSUME NEW c \in ClIDs, DeleteRegistrar(p, c) PROVE RarInv'
  <2>1. /\ RarProceed(p, NoRarReq)
        /\ registrars' = [d \in DOMAIN registrars \ {c} |-> registrars[d]]
        /\ RarDeletable(c)
        /\ UNCHANGED <<accreditations, sponsoring, qualified>>
    BY <1>1 DEF DeleteRegistrar, RarAccepting
  <2>2. RequestsTyped' /\ AppendsQualified'
    BY <2>1, ProceedTyped DEF RarInv, NoRarReq
  <2>3. RowsRecorded' /\ UniqueNames' /\ accreditations' \subseteq qualified'
    BY <2>1 DEF RarInv, RowsRecorded, UniqueNames, Qualifies
  <2>4. References'
    <3>1. ASSUME NEW x \in accreditations PROVE x[1] # c
      BY <2>1 DEF RarInv, References, RarDeletable
    <3> QED
      BY <2>1, <3>1 DEF RarInv, References, RarDeletable
  <2>5. ASSUME ~rarOvertaken' PROVE AllWhole' /\ LoadedIsThere'
    <3>1. /\ ~rarOvertaken
          /\ rarReq'[p] = NoRarReq
          /\ \A q \in RarProcs \ {p} : rarReq'[q].op = "idle"
      BY <2>1, <2>5, ProceedAlone DEF RarInv
    <3> QED
      BY <2>1, <3>1 DEF RarInv, AllWhole, LoadedIsThere, NoRarReq
  <2> QED
    BY <2>2, <2>3, <2>4, <2>5 DEF RarInv
<1>2. ASSUME DeleteAccreditation(p) PROVE RarInv'
  <2>1. /\ RarProceed(p, NoRarReq)
        /\ accreditations' \subseteq accreditations
        /\ UNCHANGED <<registrars, sponsoring, qualified>>
    BY <1>2 DEF DeleteAccreditation
  <2>2. RequestsTyped' /\ AppendsQualified'
    BY <2>1, ProceedTyped DEF RarInv, NoRarReq
  <2>3. RowsRecorded' /\ UniqueNames' /\ References' /\ accreditations' \subseteq qualified'
    BY <2>1 DEF RarInv, RowsRecorded, UniqueNames, References, Qualifies
  <2>4. ASSUME ~rarOvertaken' PROVE AllWhole' /\ LoadedIsThere'
    <3>1. /\ ~rarOvertaken
          /\ rarReq'[p] = NoRarReq
          /\ \A q \in RarProcs \ {p} : rarReq'[q].op = "idle"
      BY <2>1, <2>4, ProceedAlone DEF RarInv
    <3> QED
      BY <2>1, <3>1 DEF RarInv, AllWhole, LoadedIsThere, NoRarReq
  <2> QED
    BY <2>2, <2>3, <2>4 DEF RarInv
<1> QED
  BY <1>1, <1>2

LEMMA RarStep ==
    ASSUME RarInv, [RarNext]_rarVars
    PROVE  RarInv'
<1>1. ASSUME NEW p \in RarProcs, RarAccept(p) PROVE RarInv'
  BY <1>1, RarCreationKeeps, LoadsKeep, RarDeletionKeeps DEF RarAccept
<1>2. ASSUME NEW p \in RarProcs, RarFail(p) PROVE RarInv'
  BY <1>2, LoadingKeeps DEF RarFail, NoRarReq
<1>3. ASSUME NEW p \in RarProcs, RarServe(p) PROVE RarInv'
  BY <1>2, <1>3, RarSavingKeeps, AppendingKeeps, RarDeletionKeeps DEF RarServe
<1>4. ASSUME NEW c \in ClIDs, SponsorObject(c) PROVE RarInv'
  BY <1>4 DEF SponsorObject, RarInv, RequestsTyped, AppendsQualified, RowsRecorded,
              References, UniqueNames, AllWhole, LoadedIsThere, Qualifies
<1>5. ASSUME UNCHANGED rarVars PROVE RarInv'
  BY <1>5 DEF rarVars, RarInv, RequestsTyped, AppendsQualified, RowsRecorded,
              References, UniqueNames, AllWhole, LoadedIsThere, Qualifies
<1> QED
  BY <1>1, <1>3, <1>4, <1>5 DEF RarNext

-----------------------------------------------------------------------------
(* The theorems.                                                           *)

\* RarInv holds in every reachable state.
THEOREM RegistrarsKeepInv == RarSpec => []RarInv
  BY RarInitially, RarStep, PTL DEF RarSpec

\* An accreditation was given to a registrar that met the conditions of
\* Registrar.AccreditFor when it was loaded, or when it was first accredited.
THEOREM AccreditationsWereEarned == RarSpec => []AccreditedOnceQualified
<1>1. RarInv => AccreditedOnceQualified
  BY DEF RarInv, AccreditedOnceQualified
<1> QED
  BY <1>1, RegistrarsKeepInv, PTL

\* Accreditations and sponsored objects have their registrar, names are
\* unique, and a row without a name needs a deletion between the two
\* statements of a request to accredit.
THEOREM RegistrarTablesStayConsistent == RarSpec => []RegistrarTablesConsistent
<1>1. RarInv => RegistrarTablesConsistent
  BY Named DEF RarInv, References, UniqueNames, AllWhole, RegistrarTablesConsistent
<1> QED
  BY <1>1, RegistrarsKeepInv, PTL

-----------------------------------------------------------------------------
(* The types of the tables and of the requests.                            *)

\* A row that an association inserted may have been given a status since.
GhostWithStatus ==
    [name : {Unnamed}, gurid : {FALSE}, status : RarStatuses, iana : {""}]
StoredRow == RarRow \cup GhostWithStatus

RarTyped ==
    /\ DOMAIN registrars \subseteq ClIDs
    /\ \A c \in DOMAIN registrars : registrars[c] \in StoredRow
    /\ accreditations \subseteq ClIDs \X RarTlds
    /\ sponsoring \subseteq ClIDs
    /\ rarReq = [p \in RarProcs |-> rarReq[p]]
    /\ \A p \in RarProcs : IsRarReq(rarReq[p])
    /\ qualified \subseteq ClIDs \X RarTlds
    /\ rarOvertaken \in BOOLEAN

LEMMA StatusOfRow ==
    ASSUME NEW row \in StoredRow, NEW status \in RarStatuses
    PROVE  [row EXCEPT !.status = status] \in StoredRow
<1>1. CASE row \in Registrar
  <2>1. [row EXCEPT !.status = status] \in Registrar
    BY <1>1, Zenon DEF Registrar
  <2> QED
    BY <2>1 DEF StoredRow, RarRow
<1>2. ASSUME row \in GhostWithStatus \/ row = Ghost
      PROVE  [row EXCEPT !.status = status] \in GhostWithStatus
  <2>1. row \in [name : {Unnamed}, gurid : {FALSE}, status : RarStatuses \cup {""}, iana : {""}]
    <3>1. CASE row = Ghost
      BY <3>1, Zenon DEF Ghost
    <3>2. CASE row \in GhostWithStatus
      BY <3>2, Zenon DEF GhostWithStatus
    <3> QED
      BY <1>2, <3>1, <3>2
  <2> QED
    BY <2>1 DEF GhostWithStatus
<1> QED
  BY <1>1, <1>2 DEF StoredRow, RarRow

LEMMA ProceedKeepsTypes ==
    ASSUME RarTyped, NEW p \in RarProcs, NEW next, IsRarReq(next), RarProceed(p, next)
    PROVE  /\ rarReq' = [q \in RarProcs |-> rarReq'[q]]
           /\ \A q \in RarProcs : IsRarReq(rarReq'[q])
           /\ rarOvertaken' \in BOOLEAN
<1>1. rarReq' = [rarReq EXCEPT ![p] = next]
  BY DEF RarProceed
<1>2. rarOvertaken' \in BOOLEAN
  BY Zenon DEF RarProceed
<1> QED
  BY <1>1, <1>2 DEF RarTyped

LEMMA WritingKeepsTypes ==
    ASSUME RarTyped, NEW rows, DOMAIN rows \subseteq ClIDs,
           \A c \in DOMAIN rows : rows[c] \in StoredRow, Written(rows)
    PROVE  /\ DOMAIN registrars' \subseteq ClIDs
           /\ \A c \in DOMAIN registrars' : registrars'[c] \in StoredRow
           /\ qualified' \subseteq ClIDs \X RarTlds
BY DEF Written, RarTyped

LEMMA IdleTyped == IsRarReq(NoRarReq)
  BY DEF IsRarReq

LEMMA RequestsAre ==
    ASSUME NEW r, IsRarReq(r)
    PROVE  /\ r.op = "Save" => r.clid \in ClIDs /\ r.row \in StoredRow
           /\ r.op = "Append" => r.clid \in ClIDs /\ r.tld \in RarTlds
<1>1. \/ r = NoRarReq
      \/ r \in [op : {"Save"}, clid : ClIDs, row : StoredRow]
      \/ r \in [op : {"Append", "Remove"}, clid : ClIDs, tld : RarTlds]
  BY Zenon DEF IsRarReq, StoredRow, GhostWithStatus
<1> QED
  BY <1>1 DEF NoRarReq

LEMMA RarStepKeepsTypes ==
    ASSUME RarTyped, [RarNext]_rarVars
    PROVE  RarTyped'
<1>1. ASSUME NEW p \in RarProcs, NEW next, IsRarReq(next), RarAccepting(p, next),
             UNCHANGED <<registrars, accreditations, sponsoring, qualified>>
      PROVE  RarTyped'
  <2>1. /\ rarReq' = [q \in RarProcs |-> rarReq'[q]]
        /\ \A q \in RarProcs : IsRarReq(rarReq'[q])
        /\ rarOvertaken' \in BOOLEAN
    BY <1>1, ProceedKeepsTypes DEF RarAccepting
  <2> QED
    BY <1>1, <2>1 DEF RarTyped, IsRarReq
<1>2. ASSUME NEW p \in RarProcs, NEW rows, DOMAIN rows \subseteq ClIDs,
             \A c \in DOMAIN rows : rows[c] \in StoredRow, Written(rows),
             RarProceed(p, NoRarReq), UNCHANGED sponsoring,
             accreditations' \subseteq ClIDs \X RarTlds
      PROVE  RarTyped'
  <2>1. /\ rarReq' = [q \in RarProcs |-> rarReq'[q]]
        /\ \A q \in RarProcs : IsRarReq(rarReq'[q])
        /\ rarOvertaken' \in BOOLEAN
    BY <1>2, ProceedKeepsTypes, IdleTyped
  <2>2. /\ DOMAIN registrars' \subseteq ClIDs
        /\ \A c \in DOMAIN registrars' : registrars'[c] \in StoredRow
        /\ qualified' \subseteq ClIDs \X RarTlds
    BY <1>2, WritingKeepsTypes
  <2> QED
    BY <1>2, <2>1, <2>2 DEF RarTyped, IsRarReq
<1>3. ASSUME NEW p \in RarProcs, NEW c \in ClIDs, NEW row \in RarUpdates,
             CreateRegistrar(p, c, row.name, row.gurid)
      PROVE  RarTyped'
  <2>1. row \in Registrar
    BY RegistrarsAssumption
  <2>2. NewRegistrar(row.name, row.gurid) \in Registrar
    BY <2>1, Zenon DEF NewRegistrar, Registrar, RarStatuses, IanaStatuses
  <2> DEFINE rows == [d \in {c} |-> NewRegistrar(row.name, row.gurid)]
  <2>3. DOMAIN rows \subseteq ClIDs /\ \A d \in DOMAIN rows : rows[d] \in StoredRow
    BY <2>2 DEF StoredRow, RarRow
  <2>4. Written(rows) /\ RarProceed(p, NoRarReq) /\ UNCHANGED <<accreditations, sponsoring>>
    BY <1>3 DEF CreateRegistrar, RarAccepting
  <2> HIDE DEF rows
  <2> QED
    BY <1>2, <2>3, <2>4 DEF RarTyped
<1>4. ASSUME NEW p \in RarProcs, NEW names \in [ClIDs -> RarNames],
             BulkCreateRegistrars(p, names)
      PROVE  RarTyped'
  <2> DEFINE rows == [c \in DOMAIN names |-> NewRegistrar(names[c], TRUE)]
  <2>1. ASSUME NEW name \in RarNames PROVE NewRegistrar(name, TRUE) \in Registrar
    BY Zenon DEF NewRegistrar, Registrar, RarStatuses, IanaStatuses
  <2>2. DOMAIN rows \subseteq ClIDs /\ \A d \in DOMAIN rows : rows[d] \in StoredRow
    BY <2>1 DEF StoredRow, RarRow
  <2>3. Written(rows) /\ RarProceed(p, NoRarReq) /\ UNCHANGED <<accreditations, sponsoring>>
    BY <1>4 DEF BulkCreateRegistrars, RarAccepting
  <2> HIDE DEF rows
  <2> QED
    BY <1>2, <2>2, <2>3 DEF RarTyped
<1>5. ASSUME NEW c \in ClIDs, NEW row \in StoredRow
      PROVE  IsRarReq([op |-> "Save", clid |-> c, row |-> row])
  BY <1>5 DEF IsRarReq, StoredRow, GhostWithStatus
<1>6. ASSUME NEW p \in RarProcs, NEW c \in ClIDs, NEW row \in RarUpdates,
             LoadForUpdate(p, c, row)
      PROVE  RarTyped'
  <2>1. row \in StoredRow
    BY RegistrarsAssumption DEF StoredRow, RarRow
  <2> QED
    BY <1>1, <1>5, <1>6, <2>1 DEF LoadForUpdate
<1>7. ASSUME NEW p \in RarProcs, NEW c \in ClIDs, NEW status \in RarStatuses,
             LoadSetStatus(p, c, status)
      PROVE  RarTyped'
  <2> DEFINE row == [registrars[c] EXCEPT !.status = status]
  <2>1. c \in DOMAIN registrars
    BY <1>7 DEF LoadSetStatus
  <2>2. row \in StoredRow
    BY <2>1, StatusOfRow DEF RarTyped
  <2>3. /\ RarAccepting(p, [op |-> "Save", clid |-> c, row |-> row])
        /\ UNCHANGED <<registrars, accreditations, sponsoring, qualified>>
    BY <1>7 DEF LoadSetStatus
  <2> HIDE DEF row
  <2> QED
    BY <1>1, <1>5, <2>2, <2>3
<1>8. ASSUME NEW p \in RarProcs, NEW c \in ClIDs, DeleteRegistrar(p, c) PROVE RarTyped'
  <2>1. /\ registrars' = [d \in DOMAIN registrars \ {c} |-> registrars[d]]
        /\ RarProceed(p, NoRarReq)
        /\ UNCHANGED <<accreditations, sponsoring, qualified>>
    BY <1>8 DEF DeleteRegistrar, RarAccepting
  <2>2. /\ rarReq' = [q \in RarProcs |-> rarReq'[q]]
        /\ \A q \in RarProcs : IsRarReq(rarReq'[q])
        /\ rarOvertaken' \in BOOLEAN
    BY <2>1, ProceedKeepsTypes, IdleTyped
  <2> QED
    BY <2>1, <2>2 DEF RarTyped, IsRarReq
<1>9. ASSUME NEW p \in RarProcs, NEW c \in ClIDs, NEW t \in RarTlds,
             LoadAccredit(p, c, t) \/ LoadDeaccredit(p, c, t)
      PROVE  RarTyped'
  <2>1. /\ IsRarReq([op |-> "Append", clid |-> c, tld |-> t])
        /\ IsRarReq([op |-> "Remove", clid |-> c, tld |-> t])
    BY DEF IsRarReq
  <2> QED
    BY <1>1, <1>9, <2>1 DEF LoadAccredit, LoadDeaccredit
<1>10. ASSUME NEW p \in RarProcs, UpdateRegistrar(p) PROVE RarTyped'
  <2> DEFINE r == rarReq[p]
             rows == [c \in {r.clid} |-> r.row]
  <2>1. r.op = "Save" /\ IsRarReq(r)
    BY <1>10 DEF UpdateRegistrar, RarTyped
  <2>2. r.clid \in ClIDs /\ r.row \in StoredRow
    BY <2>1, RequestsAre
  <2>3. DOMAIN rows \subseteq ClIDs /\ \A d \in DOMAIN rows : rows[d] \in StoredRow
    BY <2>2
  <2>4. Written(rows) /\ RarProceed(p, NoRarReq) /\ UNCHANGED <<accreditations, sponsoring>>
    BY <1>10 DEF UpdateRegistrar
  <2> HIDE DEF rows
  <2> QED
    BY <1>2, <2>3, <2>4 DEF RarTyped
<1>11. ASSUME NEW p \in RarProcs, AppendAccreditation(p) PROVE RarTyped'
  <2> DEFINE r == rarReq[p]
             rows == [c \in {r.clid} \ DOMAIN registrars |-> Ghost]
  <2>1. r.op = "Append" /\ IsRarReq(r)
    BY <1>11 DEF AppendAccreditation, RarTyped
  <2>2. r.clid \in ClIDs /\ r.tld \in RarTlds
    BY <2>1, RequestsAre
  <2>3. DOMAIN rows \subseteq ClIDs /\ \A d \in DOMAIN rows : rows[d] \in StoredRow
    BY <2>2 DEF StoredRow, RarRow
  <2>4. /\ Written(rows) /\ RarProceed(p, NoRarReq) /\ UNCHANGED sponsoring
        /\ accreditations' = accreditations \cup {<<r.clid, r.tld>>}
    BY <1>11 DEF AppendAccreditation
  <2>5. accreditations' \subseteq ClIDs \X RarTlds
    BY <2>2, <2>4 DEF RarTyped
  <2> HIDE DEF rows
  <2> QED
    BY <1>2, <2>3, <2>4, <2>5
<1>12. ASSUME NEW p \in RarProcs, DeleteAccreditation(p) \/ RarFail(p) PROVE RarTyped'
  <2>1. /\ RarProceed(p, NoRarReq)
        /\ UNCHANGED <<registrars, sponsoring, qualified>>
        /\ accreditations' \subseteq accreditations
    BY <1>12 DEF DeleteAccreditation, RarFail
  <2>2. /\ rarReq' = [q \in RarProcs |-> rarReq'[q]]
        /\ \A q \in RarProcs : IsRarReq(rarReq'[q])
        /\ rarOvertaken' \in BOOLEAN
    BY <2>1, ProceedKeepsTypes, IdleTyped
  <2> QED
    BY <2>1, <2>2 DEF RarTyped, IsRarReq
<1>13. ASSUME NEW c \in ClIDs, SponsorObject(c) PROVE RarTyped'
  BY <1>13 DEF SponsorObject, RarTyped, IsRarReq
<1>14. CASE UNCHANGED rarVars
  BY <1>14 DEF rarVars, RarTyped, IsRarReq
<1>15. ASSUME NEW p \in RarProcs, RarAccept(p) PROVE RarTyped'
  BY <1>3, <1>4, <1>6, <1>7, <1>8, <1>9, <1>15 DEF RarAccept
<1>16. ASSUME NEW p \in RarProcs, RarServe(p) PROVE RarTyped'
  BY <1>10, <1>11, <1>12, <1>16 DEF RarServe
<1> QED
  BY <1>13, <1>14, <1>15, <1>16 DEF RarNext

LEMMA RarTypesStart == RarInit => RarTyped
  BY DEF RarInit, RarTyped, IsRarReq

LEMMA RarTypesImplied == RarTyped => RarTypeOK
  BY DEF RarTyped, RarTypeOK, StoredRow, GhostWithStatus

\* A row is a registrar, or one that an association inserted and that has at
\* most a status.
THEOREM RegistrarTypesCorrect == RarSpec => []RarTypeOK
<1>1. RarTyped /\ [RarNext]_rarVars => RarTyped'
  BY RarStepKeepsTypes
<1> QED
  BY <1>1, RarTypesStart, RarTypesImplied, PTL DEF RarSpec

-----------------------------------------------------------------------------
(* QUOTES                                                                  *)

(* What a quote is computed from.                                          *)

Loaded(q) ==
    /\ q.name \in PlainNames
    /\ q.kind \in Kinds
    /\ q.currency \in Currencies
    /\ q.years \in Nat
    /\ q.phase \in PhaseTables
    /\ q.grand \in Grandfatherings \cup {NoGrandfathering}
    /\ q.entries \in SUBSET PremiumLabel
    /\ q.rate \in Rates \cup {Par}

LEMMA LoadedTables ==
    ASSUME NEW q, Loaded(q)
    PROVE  /\ DOMAIN q.phase.prices \subseteq Currencies
           /\ q.phase.prices \in [DOMAIN q.phase.prices -> Amounts]
           /\ \A f \in q.phase.fees : f.amount \in Nat
           /\ q.grand.amount \in Nat
           /\ \A e \in q.entries : e.tariff \in Amounts
           /\ q.rate.num \in Nat
           /\ q.rate.den \in Nat \ {0}
<1>1. /\ DOMAIN q.phase.prices \subseteq Currencies
      /\ q.phase.prices \in [DOMAIN q.phase.prices -> Amounts]
      /\ \A f \in q.phase.fees : f.amount \in Nat
  BY QuotesAssumption DEF Loaded
<1>2. q.grand.amount \in Nat
  <2>1. CASE q.grand \in Grandfatherings
    BY <2>1, QuotesAssumption
  <2>2. CASE q.grand = NoGrandfathering
    <3>1. NoGrandfathering.amount = 0
      BY Zenon DEF NoGrandfathering
    <3> QED
      BY <2>2, <3>1
  <2> QED
    BY <2>1, <2>2 DEF Loaded
<1>3. \A e \in q.entries : e.tariff \in Amounts
  BY QuotesAssumption DEF Loaded, PremiumLabel
<1>4. q.rate.num \in Nat /\ q.rate.den \in Nat \ {0}
  BY QuotesAssumption DEF Loaded, Par
<1> QED
  BY <1>1, <1>2, <1>3, <1>4

LEMMA Positive == \A m, n \in Nat \ {0} : m * n \in Nat \ {0}
  OBVIOUS

LEMMA ConvertedIsAmount ==
    ASSUME NEW amount \in Nat, NEW target \in Currencies, NEW rate,
           rate.num \in Nat, rate.den \in Nat \ {0}
    PROVE  Convert(amount, target, rate) \in Int
<1>1. MinorUnits[target] \in Nat \ {0} /\ MinorUnits[Base] \in Nat \ {0}
  BY QuotesAssumption
<1>2. rate.den * MinorUnits[Base] \in Nat \ {0}
  BY <1>1, Positive
<1>3. amount * rate.num * MinorUnits[target] \in Int
  BY <1>1
<1>4. \A a \in Int, b \in Nat \ {0} : a \div b \in Int
  OBVIOUS
<1>5. (amount * rate.num * MinorUnits[target]) \div (rate.den * MinorUnits[Base]) \in Int
  BY <1>2, <1>3, <1>4
<1>6. MinorUnits[target] \div 100 \in Int
  BY <1>1, <1>4
<1> QED
  BY <1>5, <1>6 DEF Convert

LEMMA InCurrencyIsAmount ==
    ASSUME NEW q, Loaded(q), NEW currency, NEW amount \in Nat
    PROVE  InCurrency(q, currency, amount) \in Int
BY ConvertedIsAmount, LoadedTables DEF InCurrency, Loaded

\* Every line of a quote has an amount, yearly or not.
Lines(q) == FeeLines(q) \cup MainLines(q)

LEMMA YearlyTyped ==
    ASSUME NEW l, NEW what, NEW currency, NEW amount \in Nat,
           l = Line(what, currency, amount, TRUE)
    PROVE  l.amount \in Nat /\ l.yearly \in BOOLEAN /\ l.what = what
<1>1. l.amount \in Nat
  BY Zenon DEF Line
<1>2. l.yearly \in BOOLEAN
  BY Zenon DEF Line
<1>3. l.what = what
  BY Zenon DEF Line
<1> QED
  BY <1>1, <1>2, <1>3, Zenon

LEMMA FeeLinesTyped ==
    ASSUME NEW q, Loaded(q), NEW l \in FeeLines(q)
    PROVE  l.amount \in Nat /\ l.yearly \in BOOLEAN /\ l.what # <<"price">>
<1>1. PICK c \in Currencies, f \in q.phase.fees : l = Line(<<"fee", f.name>>, c, f.amount, FALSE)
  BY QuotesAssumption DEF FeeLines, Loaded
<1>2. f.amount \in Nat
  BY LoadedTables
<1>3. <<"fee", f.name>> # <<"price">>
  OBVIOUS
<1>4. l.amount \in Nat
  BY <1>1, <1>2, Zenon DEF Line
<1>5. l.yearly \in BOOLEAN
  BY <1>1, Zenon DEF Line
<1>6. l.what = <<"fee", f.name>>
  BY <1>1, Zenon DEF Line
<1> QED
  BY <1>3, <1>4, <1>5, <1>6, Zenon

LEMMA PriceLinesTyped ==
    ASSUME NEW q, Loaded(q), NEW l \in PriceLines(q)
    PROVE  l.amount \in Nat /\ l.yearly \in BOOLEAN
<1>1. PriceColumn(q.kind) \in Columns
  BY DEF PriceColumn, Loaded, Kinds, Columns
<1>2. \A c \in DOMAIN q.phase.prices : q.phase.prices[c][PriceColumn(q.kind)] \in Nat
  BY <1>1, LoadedTables DEF Amounts
<1> QED
  <2>1. PICK c \in DOMAIN q.phase.prices :
            l = Line(<<"price">>, c, q.phase.prices[c][PriceColumn(q.kind)], TRUE)
    BY DEF PriceLines
  <2> QED
    BY <1>2, <2>1, YearlyTyped, Zenon

LEMMA MainLinesTyped ==
    ASSUME NEW q, Loaded(q), ~PremiumMissing(q), ~Panics(q), NEW l \in MainLines(q)
    PROVE  /\ l.amount \in Nat /\ l.yearly \in BOOLEAN
           /\ q.entries # {} => l.what # <<"price">>
<1>1. CASE Grandfathered(q)
  <2>1. l = Line(<<"grandfathered">>, q.grand.currency, q.grand.amount, TRUE)
    BY <1>1 DEF MainLines
  <2>2. q.grand.amount \in Nat
    BY LoadedTables
  <2>3. <<"grandfathered">> # <<"price">>
    OBVIOUS
  <2> QED
    BY <2>1, <2>2, <2>3, YearlyTyped, Zenon
<1>2. CASE ~Grandfathered(q) /\ q.entries # {}
  <2>1. q.kind \in Columns
    BY <1>2 DEF Panics, PremiumMissing
  <2>2. \A e \in q.entries : e.tariff \in Amounts
    BY LoadedTables
  <2>3. PremiumMatches(q) \subseteq q.entries
    BY DEF PremiumMatches
  <2>4. PICK e \in PremiumMatches(q) :
            l = Line(<<"premium">>, e.currency, e.tariff[q.kind], TRUE)
    BY <1>2 DEF MainLines
  <2>5. e.tariff[q.kind] \in Nat
    BY <2>1, <2>2, <2>3 DEF Amounts
  <2>6. <<"premium">> # <<"price">>
    OBVIOUS
  <2> QED
    BY <2>4, <2>5, <2>6, YearlyTyped, Zenon
<1>3. CASE ~Grandfathered(q) /\ q.entries = {}
  BY <1>3, PriceLinesTyped DEF MainLines
<1> QED
  BY <1>1, <1>2, <1>3

\* What a line adds to the price is what the quote lists of it.
LEMMA TotalIsListed ==
    ASSUME NEW q, Loaded(q), NEW l, l.amount \in Nat, l.yearly \in BOOLEAN
    PROVE  Total(q, l) = (IF l.yearly THEN 1 + (q.years - 1) ELSE 1)
                            * InCurrency(q, l.currency, l.amount)
<1>1. q.years \in Nat
  BY DEF Loaded
<1>2. 1 + (q.years - 1) = q.years
  BY <1>1
<1>3. InCurrency(q, l.currency, l.amount) \in Int
  BY InCurrencyIsAmount
<1>4. CASE l.yearly
  BY <1>2, <1>4, Zenon DEF Total
<1>5. CASE ~l.yearly
  <2>1. Total(q, l) = InCurrency(q, l.currency, l.amount)
    BY <1>5, Zenon DEF Total
  <2>2. \A a \in Int : 1 * a = a
    OBVIOUS
  <2> QED
    BY <1>3, <1>5, <2>1, <2>2, Zenon
<1> QED
  BY <1>4, <1>5

LEMMA AnswerAddsUp ==
    ASSUME NEW q, Loaded(q), Answer(q).outcome = "quote"
    PROVE  /\ Answer(q).price =
                 SumFunction([l \in DOMAIN Answer(q).fees |->
                    Answer(q).fees[l] * InCurrency(q, l.currency, l.amount)])
           /\ q.entries # {} => \A l \in DOMAIN Answer(q).fees : l.what # <<"price">>
<1> DEFINE count(l) == IF l.yearly THEN 1 + (q.years - 1) ELSE 1
           listed == [l \in Lines(q) |-> count(l)]
<1>1. ~PremiumMissing(q) /\ ~Panics(q) /\ ~Inconvertible(q)
  BY DEF Answer
<1>2. Answer(q) = [outcome |-> "quote",
                   price |-> SumFunction([l \in Lines(q) |-> Total(q, l)]),
                   fees |-> listed]
  BY <1>1, Zenon DEF Answer, Lines
<1>3. ASSUME NEW l \in Lines(q)
      PROVE  /\ Total(q, l) = listed[l] * InCurrency(q, l.currency, l.amount)
             /\ q.entries # {} => l.what # <<"price">>
  <2>1. l.amount \in Nat /\ l.yearly \in BOOLEAN /\ (q.entries # {} => l.what # <<"price">>)
    BY <1>1, FeeLinesTyped, MainLinesTyped DEF Lines
  <2> QED
    BY <2>1, TotalIsListed
<1>4. [l \in Lines(q) |-> Total(q, l)] =
         [l \in DOMAIN listed |-> listed[l] * InCurrency(q, l.currency, l.amount)]
  BY <1>3, Zenon
<1>5. Answer(q).fees = listed /\ DOMAIN listed = Lines(q)
  BY <1>2
<1>6. Answer(q).price = SumFunction([l \in Lines(q) |-> Total(q, l)])
  BY <1>2
<1> HIDE DEF listed
<1> QED
  BY <1>3, <1>4, <1>5, <1>6, Zenon

-----------------------------------------------------------------------------
(* The page of premium labels.                                             *)

\* A page of a list that is not empty is not empty.
LEMMA FirstPageHasFirst ==
    ASSUME NEW is \in SUBSET Nat, is # {}
    PROVE  FirstPage(is) # {}
<1>1. PICK i \in is : \A j \in is : <<j, i>> \notin OpToRel(<, Nat)
  BY WFMin, NatLessThanWellFounded
<1>2. \A j \in is : ~(j < i)
  BY <1>1 DEF OpToRel
<1>3. {j \in is : j < i} = {}
  BY <1>2
<1>4. Cardinality({j \in is : j < i}) = 0
  BY <1>3, FS_EmptySet
<1> QED
  BY <1>4, QuotesAssumption DEF FirstPage

LEMMA EntriesLikeName ==
    ASSUME labels \in Seq(PremiumLabel), NEW name \in PlainNames
    PROVE  /\ PremiumEntries(name) \in SUBSET PremiumLabel
           /\ (\E e \in Range(labels) : e.label = name) => PremiumEntries(name) # {}
<1>1. \A i \in DOMAIN labels : labels[i] \in PremiumLabel /\ i \in Nat
  OBVIOUS
<1>2. LikeIds(name) \in SUBSET Nat /\ LikeIds(name) \subseteq DOMAIN labels
  BY <1>1 DEF LikeIds
<1>3. FirstPage(LikeIds(name)) \subseteq DOMAIN labels
  BY <1>2 DEF FirstPage
<1>4. PremiumEntries(name) \in SUBSET PremiumLabel
  BY <1>1, <1>3 DEF PremiumEntries
<1>5. ASSUME NEW e \in Range(labels), e.label = name PROVE PremiumEntries(name) # {}
  <2>1. PICK i \in DOMAIN labels : labels[i] = e
    BY DEF Range
  <2>2. i \in LikeIds(name)
    BY <1>5, <2>1, QuotesAssumption DEF LikeIds
  <2>3. FirstPage(LikeIds(name)) # {}
    BY <1>2, <2>2, FirstPageHasFirst
  <2> QED
    BY <2>3 DEF PremiumEntries
<1> QED
  BY <1>4, <1>5

-----------------------------------------------------------------------------
(* The quote, query by query.                                              *)

\* The rows that stay were there when the list was read.
PremiumSeen(q) ==
    (q.phase.list /\ \E e \in q.steady : e.label = q.name) => q.entries # {}

QuoteFields == {"step", "name", "kind", "currency", "years", "phase", "grand",
                "entries", "rate", "answer", "steady"}

TablesTyped ==
    /\ labels \in Seq(PremiumLabel)
    /\ DOMAIN fx \subseteq Currencies /\ fx \in [DOMAIN fx -> Rates]
    /\ refresh.busy \in BOOLEAN
    /\ refresh.busy => refresh.rates \in [Currencies \ {Base} -> Rates]

QuoteInProgress ==
    /\ quote.step \in {"domain", "premium", "rate", "answered"}
    /\ DOMAIN quote = QuoteFields
    /\ Loaded(quote)
    /\ quote.step \in {"domain", "premium"} => quote.steady \subseteq Range(labels)
    /\ quote.step = "rate" => PremiumSeen(quote)

QuoteInv ==
    /\ TablesTyped
    /\ quote = NoQuote \/ QuoteInProgress
    /\ QuoteAddsUp
    /\ PremiumNeverUndercut

LEMMA QuotesStart == QuotesInit => QuoteInv
<1> SUFFICES ASSUME QuotesInit PROVE QuoteInv
  OBVIOUS
<1>1. labels \in Seq(PremiumLabel) /\ quote = NoQuote
  BY DEF QuotesInit
<1>2. DOMAIN fx \subseteq Currencies /\ fx \in [DOMAIN fx -> Rates]
  BY DEF QuotesInit
<1>3. refresh.busy = FALSE
  BY Zenon DEF QuotesInit, NotRefreshing
<1>4. ~Quoted
  BY <1>1 DEF NoQuote, Quoted
<1>5. TablesTyped
  BY <1>1, <1>2, <1>3, Zenon DEF TablesTyped
<1> QED
  BY <1>1, <1>4, <1>5 DEF QuoteInv, QuoteAddsUp, PremiumNeverUndercut

LEMMA PhaseIsLoaded ==
    ASSUME QuoteInv, NEW name \in PlainNames, NEW kind \in Kinds,
           NEW currency \in Currencies, NEW years \in Horizons,
           LoadPhase(name, kind, currency, years)
    PROVE  QuoteInv'
<1>1. PICK phase \in PhaseTables :
          quote' = [step |-> "domain", name |-> name, kind |-> kind, currency |-> currency,
                    years |-> years, phase |-> phase, grand |-> NoGrandfathering,
                    entries |-> {}, rate |-> Par, answer |-> [outcome |-> "none"],
                    steady |-> Range(labels)]
  BY DEF LoadPhase
<1>2. UNCHANGED <<labels, fx, refresh>>
  BY DEF LoadPhase
<1>3. TablesTyped'
  BY <1>2 DEF QuoteInv, TablesTyped
<1>4. quote'.step = "domain" /\ DOMAIN quote' = QuoteFields /\ quote'.steady = Range(labels)
  BY <1>1 DEF QuoteFields
<1>5. Loaded(quote')
  BY <1>1, QuotesAssumption DEF Loaded
<1>6. Range(labels') = Range(labels)
  BY <1>2
<1>7. QuoteInProgress'
  BY <1>4, <1>5, <1>6 DEF QuoteInProgress
<1> QED
  BY <1>3, <1>4, <1>7 DEF QuoteInv, QuoteAddsUp, PremiumNeverUndercut, Quoted

LEMMA DomainIsLoaded ==
    ASSUME QuoteInv, LoadDomain
    PROVE  QuoteInv'
<1>1. PICK grand \in Grandfatherings \cup {NoGrandfathering} :
          quote' = [quote EXCEPT !.step = "premium", !.grand = grand]
  BY DEF LoadDomain
<1>2. UNCHANGED <<labels, fx, refresh>>
  BY DEF LoadDomain
<1>3. TablesTyped'
  BY <1>2 DEF QuoteInv, TablesTyped
<1>4. QuoteInProgress /\ quote.step = "domain"
  BY DEF QuoteInv, LoadDomain, NoQuote
<1>5. quote'.step = "premium" /\ DOMAIN quote' = QuoteFields /\ quote'.steady = quote.steady
  BY <1>1, <1>4 DEF QuoteFields, QuoteInProgress
<1>6. Loaded(quote')
  BY <1>1, <1>4 DEF Loaded, QuoteInProgress, QuoteFields
<1>7. Range(labels') = Range(labels)
  BY <1>2
<1>8. QuoteInProgress'
  BY <1>4, <1>5, <1>6, <1>7 DEF QuoteInProgress
<1> QED
  BY <1>3, <1>5, <1>8 DEF QuoteInv, QuoteAddsUp, PremiumNeverUndercut, Quoted

LEMMA PremiumLabelsAreLoaded ==
    ASSUME QuoteInv, LoadPremiumLabels
    PROVE  QuoteInv'
<1> DEFINE entries == IF quote.phase.list THEN PremiumEntries(quote.name) ELSE {}
<1>1. quote' = [quote EXCEPT !.step = "rate", !.entries = entries]
  BY DEF LoadPremiumLabels
<1>2. UNCHANGED <<labels, fx, refresh>>
  BY DEF LoadPremiumLabels
<1>3. TablesTyped'
  BY <1>2 DEF QuoteInv, TablesTyped
<1>4. QuoteInProgress /\ quote.step = "premium"
  BY DEF QuoteInv, LoadPremiumLabels, NoQuote
<1>5. labels \in Seq(PremiumLabel) /\ quote.name \in PlainNames
  BY <1>4 DEF QuoteInv, TablesTyped, QuoteInProgress, Loaded
<1>6. /\ PremiumEntries(quote.name) \in SUBSET PremiumLabel
      /\ (\E e \in Range(labels) : e.label = quote.name) => PremiumEntries(quote.name) # {}
  BY <1>5, EntriesLikeName
<1>7. entries \in SUBSET PremiumLabel
  BY <1>6
<1>8. (quote.phase.list /\ \E e \in quote.steady : e.label = quote.name) => entries # {}
  BY <1>4, <1>6 DEF QuoteInProgress
<1> HIDE DEF entries
<1>9. quote'.step = "rate" /\ DOMAIN quote' = QuoteFields
  BY <1>1, <1>4 DEF QuoteFields, QuoteInProgress
<1>10. Loaded(quote')
  BY <1>1, <1>4, <1>7 DEF Loaded, QuoteInProgress, QuoteFields
<1>11. PremiumSeen(quote')
  BY <1>1, <1>4, <1>8 DEF PremiumSeen, QuoteInProgress, QuoteFields
<1>12. QuoteInProgress'
  BY <1>9, <1>10, <1>11 DEF QuoteInProgress
<1> QED
  BY <1>3, <1>9, <1>12 DEF QuoteInv, QuoteAddsUp, PremiumNeverUndercut, Quoted

LEMMA QuoteIsAnswered ==
    ASSUME QuoteInv, LoadRateAndAnswer
    PROVE  QuoteInv'
<1> DEFINE rate == IF quote.currency \in DOMAIN fx \ {Base} THEN fx[quote.currency] ELSE Par
           q == [quote EXCEPT !.rate = rate]
           answer == IF quote.currency \in {Base} \cup DOMAIN fx
                     THEN Answer(q) ELSE [outcome |-> "error"]
<1>1. quote' = [q EXCEPT !.step = "answered", !.answer = answer]
  BY DEF LoadRateAndAnswer
<1>2. UNCHANGED <<labels, fx, refresh>>
  BY DEF LoadRateAndAnswer
<1>3. TablesTyped'
  BY <1>2 DEF QuoteInv, TablesTyped
<1>4. QuoteInProgress /\ quote.step = "rate"
  BY DEF QuoteInv, LoadRateAndAnswer, NoQuote
<1>5. rate \in Rates \cup {Par}
  BY DEF QuoteInv, TablesTyped
<1> HIDE DEF rate
<1>6. Loaded(q) /\ PremiumSeen(q) /\ DOMAIN q = QuoteFields
  BY <1>4, <1>5 DEF Loaded, PremiumSeen, QuoteInProgress, QuoteFields
<1>7. answer.outcome = "quote" => answer = Answer(q)
  OBVIOUS
<1> HIDE DEF q, answer
<1>8. /\ quote'.step = "answered" /\ quote'.answer = answer /\ DOMAIN quote' = QuoteFields
      /\ quote'.name = q.name /\ quote'.kind = q.kind /\ quote'.currency = q.currency
      /\ quote'.years = q.years /\ quote'.phase = q.phase /\ quote'.grand = q.grand
      /\ quote'.entries = q.entries /\ quote'.rate = q.rate /\ quote'.steady = q.steady
  BY <1>1, <1>6 DEF QuoteFields
<1>9. Loaded(quote')
  BY <1>6, <1>8 DEF Loaded
<1>10. QuoteInProgress'
  BY <1>8, <1>9 DEF QuoteInProgress
<1>11. QuoteAddsUp' /\ PremiumNeverUndercut'
  <2> SUFFICES ASSUME answer.outcome = "quote" PROVE QuoteAddsUp' /\ PremiumNeverUndercut'
    BY <1>8 DEF QuoteAddsUp, PremiumNeverUndercut, Quoted
  <2>1. answer = Answer(q)
    BY <1>7
  <2>2. /\ answer.price = SumFunction([l \in DOMAIN answer.fees |->
                             answer.fees[l] * InCurrency(q, l.currency, l.amount)])
        /\ q.entries # {} => \A l \in DOMAIN answer.fees : l.what # <<"price">>
    BY <1>6, <2>1, AnswerAddsUp
  <2>3. ASSUME NEW currency, NEW amount
        PROVE  InCurrency(quote', currency, amount) = InCurrency(q, currency, amount)
    BY <1>8 DEF InCurrency
  <2>4. [l \in DOMAIN answer.fees |-> answer.fees[l] * InCurrency(q, l.currency, l.amount)] =
        [l \in DOMAIN answer.fees |-> answer.fees[l] * InCurrency(quote', l.currency, l.amount)]
    BY <2>3, Zenon
  <2>5. QuoteAddsUp'
    BY <1>8, <2>2, <2>4, Zenon DEF QuoteAddsUp
  <2>6. PremiumNeverUndercut'
    BY <1>6, <1>8, <2>2 DEF PremiumNeverUndercut, PremiumSeen
  <2> QED
    BY <2>5, <2>6
<1> QED
  BY <1>3, <1>10, <1>11 DEF QuoteInv

-----------------------------------------------------------------------------
(* What happens meanwhile.                                                 *)

\* A quote is not answered yet, and looks at the same rows or fewer.
LEMMA MeanwhileKeeps ==
    ASSUME QuoteInv, Changing, TablesTyped', NEW rows,
           quote.step = "none" => quote' = quote,
           quote.step # "none" => quote' = [quote EXCEPT !.steady = @ \cap rows],
           rows \cap Range(labels) \subseteq Range(labels)'
    PROVE  QuoteInv'
<1>1. CASE quote = NoQuote
  <2>1. quote' = NoQuote /\ ~Quoted'
    BY <1>1 DEF NoQuote, Quoted
  <2> QED
    BY <2>1 DEF QuoteInv, QuoteAddsUp, PremiumNeverUndercut
<1>2. CASE QuoteInProgress
  <2>1. quote' = [quote EXCEPT !.steady = @ \cap rows]
    BY <1>2 DEF QuoteInProgress
  <2>2. /\ quote'.step = quote.step /\ DOMAIN quote' = QuoteFields
        /\ quote'.name = quote.name /\ quote'.kind = quote.kind
        /\ quote'.currency = quote.currency /\ quote'.years = quote.years
        /\ quote'.phase = quote.phase /\ quote'.grand = quote.grand
        /\ quote'.entries = quote.entries /\ quote'.rate = quote.rate
        /\ quote'.steady = quote.steady \cap rows
    BY <1>2, <2>1 DEF QuoteInProgress, QuoteFields
  <2>3. Loaded(quote')
    BY <1>2, <2>2 DEF Loaded, QuoteInProgress
  <2>4. quote.step = "rate" => PremiumSeen(quote')
    BY <1>2, <2>2 DEF QuoteInProgress, PremiumSeen
  <2>5. quote.step \in {"domain", "premium"} => quote'.steady \subseteq Range(labels)'
    BY <1>2, <2>2 DEF QuoteInProgress
  <2>6. QuoteInProgress'
    BY <1>2, <2>2, <2>3, <2>4, <2>5 DEF QuoteInProgress
  <2>7. ~Quoted'
    BY <2>2 DEF Changing, Quoted
  <2> QED
    BY <2>6, <2>7 DEF QuoteInv, QuoteAddsUp, PremiumNeverUndercut
<1> QED
  BY <1>1, <1>2 DEF QuoteInv

\* The list grows.
LEMMA LabelIsCreated ==
    ASSUME QuoteInv, NEW row \in PremiumLabel, CreateLabel(row)
    PROVE  QuoteInv'
<1>1. labels \in Seq(PremiumLabel) /\ labels' = Append(labels, row)
  BY DEF QuoteInv, TablesTyped, CreateLabel
<1>2. Range(labels) \subseteq Range(labels')
  <2>1. \A i \in DOMAIN labels : i \in DOMAIN labels' /\ labels'[i] = labels[i]
    BY <1>1
  <2> QED
    BY <2>1 DEF Range
<1>3. TablesTyped'
  BY <1>1 DEF QuoteInv, TablesTyped, CreateLabel
<1>4. UNCHANGED quote /\ Changing
  BY DEF CreateLabel
<1>5. CASE quote = NoQuote
  BY <1>3, <1>4, <1>5 DEF QuoteInv, NoQuote, QuoteAddsUp, PremiumNeverUndercut, Quoted
<1>6. CASE QuoteInProgress
  <2>1. QuoteInProgress'
    BY <1>2, <1>4, <1>6 DEF QuoteInProgress
  <2>2. ~Quoted'
    BY <1>4 DEF Changing, Quoted
  <2> QED
    BY <1>3, <2>1, <2>2 DEF QuoteInv, QuoteAddsUp, PremiumNeverUndercut
<1> QED
  BY <1>5, <1>6 DEF QuoteInv

LEMMA LabelIsDeleted ==
    ASSUME QuoteInv, NEW name \in PlainNames, NEW currency \in Currencies,
           DeleteLabel(name, currency)
    PROVE  QuoteInv'
<1>1. PICK i \in DOMAIN labels : labels' = RemoveAt(labels, i)
  BY DEF DeleteLabel
<1>2. labels \in Seq(PremiumLabel)
  BY DEF QuoteInv, TablesTyped
<1>3. labels' \in Seq(PremiumLabel)
  BY <1>1, <1>2 DEF RemoveAt
<1>4. TablesTyped'
  BY <1>3 DEF QuoteInv, TablesTyped, DeleteLabel
<1>5. Changing /\ Still(Range(labels'))
  BY DEF DeleteLabel
<1> QED
  BY <1>4, <1>5, MeanwhileKeeps DEF Still

LEMMA ListIsDeleted ==
    ASSUME QuoteInv, DeletePremiumList
    PROVE  QuoteInv'
<1>1. TablesTyped'
  BY DEF QuoteInv, TablesTyped, DeletePremiumList
<1>2. Changing /\ Still({})
  BY DEF DeletePremiumList
<1> QED
  BY <1>1, <1>2, MeanwhileKeeps DEF Still

\* Rates that come and go touch no quote that is under way.
LEMMA RatesChange ==
    ASSUME QuoteInv, TablesTyped', UNCHANGED <<labels, quote>>
    PROVE  QuoteInv'
<1>1. Range(labels') = Range(labels)
  OBVIOUS
<1>2. QuoteInProgress => QuoteInProgress'
  BY <1>1 DEF QuoteInProgress
<1>3. \A currency, amount :
          InCurrency(quote', currency, amount) = InCurrency(quote, currency, amount)
  OBVIOUS
<1>4. QuoteAddsUp' /\ PremiumNeverUndercut'
  BY Zenon DEF QuoteInv, QuoteAddsUp, PremiumNeverUndercut, Quoted
<1> QED
  BY <1>2, <1>4 DEF QuoteInv

LEMMA QuoteStep == QuoteInv /\ [QuotesNext]_quoteVars => QuoteInv'
<1> SUFFICES ASSUME QuoteInv, [QuotesNext]_quoteVars PROVE QuoteInv'
  OBVIOUS
<1>1. ASSUME NEW name \in PlainNames, NEW kind \in Kinds, NEW currency \in Currencies,
             NEW years \in Horizons, LoadPhase(name, kind, currency, years)
      PROVE  QuoteInv'
  BY <1>1, PhaseIsLoaded
<1>2. CASE LoadDomain
  BY <1>2, DomainIsLoaded
<1>3. CASE LoadPremiumLabels
  BY <1>3, PremiumLabelsAreLoaded
<1>4. CASE LoadRateAndAnswer
  BY <1>4, QuoteIsAnswered
<1>5. CASE Return
  <2>1. quote' = NoQuote /\ ~Quoted' /\ TablesTyped'
    BY <1>5 DEF Return, NoQuote, Quoted, QuoteInv, TablesTyped
  <2> QED
    BY <2>1 DEF QuoteInv, QuoteAddsUp, PremiumNeverUndercut
<1>6. ASSUME NEW row \in PremiumLabel, CreateLabel(row) PROVE QuoteInv'
  BY <1>6, LabelIsCreated
<1>7. ASSUME NEW name \in PlainNames, NEW currency \in Currencies, DeleteLabel(name, currency)
      PROVE  QuoteInv'
  BY <1>7, LabelIsDeleted
<1>8. CASE DeletePremiumList
  BY <1>8, ListIsDeleted
<1>9. ASSUME NEW rates \in [Currencies \ {Base} -> Rates], DeleteRates(rates) PROVE QuoteInv'
  <2>1. labels' = labels /\ fx' = [c \in {} |-> 0] /\ refresh' = [busy |-> TRUE, rates |-> rates]
    BY <1>9 DEF DeleteRates
  <2>2. refresh'.busy = TRUE
    BY <2>1, Zenon
  <2>3. refresh'.rates = rates
    BY <2>1
  <2>4. fx' \in [DOMAIN fx' -> Rates] /\ DOMAIN fx' \subseteq Currencies
    BY <2>1
  <2>5. TablesTyped'
    BY <1>9, <2>1, <2>2, <2>3, <2>4, Zenon DEF TablesTyped, QuoteInv
  <2> QED
    BY <1>9, <2>5, RatesChange DEF DeleteRates
<1>10. CASE InsertRates
  <2>1. refresh'.busy = FALSE
    BY <1>10, Zenon DEF InsertRates, NotRefreshing
  <2>2. fx' \in [Currencies \ {Base} -> Rates]
    BY <1>10, Zenon DEF InsertRates, QuoteInv, TablesTyped
  <2>3. fx' \in [DOMAIN fx' -> Rates] /\ DOMAIN fx' \subseteq Currencies
    BY <2>2
  <2>4. labels' = labels /\ quote' = quote
    BY <1>10 DEF InsertRates
  <2>5. TablesTyped'
    BY <2>1, <2>3, <2>4, Zenon DEF TablesTyped, QuoteInv
  <2> QED
    BY <2>4, <2>5, RatesChange
<1>11. CASE RefreshFails
  <2>1. refresh'.busy = FALSE
    BY <1>11, Zenon DEF RefreshFails, NotRefreshing
  <2>2. UNCHANGED <<labels, fx, quote>>
    BY <1>11 DEF RefreshFails
  <2>3. TablesTyped'
    BY <2>1, <2>2, Zenon DEF TablesTyped, QuoteInv
  <2> QED
    BY <2>2, <2>3, RatesChange
<1>12. CASE UNCHANGED quoteVars
  <2>1. UNCHANGED <<labels, fx, refresh, quote>>
    BY <1>12 DEF quoteVars
  <2>2. TablesTyped'
    BY <2>1 DEF TablesTyped, QuoteInv
  <2> QED
    BY <2>1, <2>2, RatesChange
<1> QED
  BY <1>1, <1>2, <1>3, <1>4, <1>5, <1>6, <1>7, <1>8, <1>9, <1>10, <1>11, <1>12
     DEF QuotesNext

-----------------------------------------------------------------------------
(* The theorems.                                                           *)

\* QuoteInv holds in every reachable state.
THEOREM QuotesKeepInv == QuotesSpec => []QuoteInv
  BY QuotesStart, QuoteStep, PTL DEF QuotesSpec

\* The price is what the listed fees add up to, for every tariff, rate,
\* currency and number of years (quote.go, AddFeeAndUpdatePrice).
THEOREM QuotesAddUp == QuotesSpec => []QuoteAddsUp
<1>1. QuoteInv => QuoteAddsUp
  BY DEF QuoteInv
<1> QED
  BY <1>1, QuotesKeepInv, PTL

\* A name whose label stays on the premium list while it is quoted is not
\* quoted at the price of the phase, however many labels contain it and
\* whatever else comes and goes (priceEngine.go, GetQuote).
THEOREM PremiumStaysPremium == QuotesSpec => []PremiumNeverUndercut
<1>1. QuoteInv => PremiumNeverUndercut
  BY DEF QuoteInv
<1> QED
  BY <1>1, QuotesKeepInv, PTL

-----------------------------------------------------------------------------
(* THE COMPOSITION                                                         *)
(* Each part takes its own steps, during which the others stand still.     *)

LEMMA AdministrationStarts ==
    AdministrationInit => HostInit /\ ContactInit /\ RarInit /\ QuotesInit
BY DEF AdministrationInit

LEMMA AdministrationSteps ==
    ASSUME [AdministrationNext]_administrationVars
    PROVE  /\ [HostNext]_hostVars
           /\ [ContactNext]_contactVars
           /\ [RarNext]_rarVars
           /\ [QuotesNext]_quoteVars
BY DEF AdministrationNext, administrationVars, ContactNext

LEMMA AdministrationComposed ==
    AdministrationSpec => HostSpec /\ ContactSpec /\ RarSpec /\ QuotesSpec
BY AdministrationStarts, AdministrationSteps, PTL
   DEF AdministrationSpec, HostSpec, ContactSpec, RarSpec, QuotesSpec

\* In the composition no table refers to a row of another that is not there,
\* and every unique index holds, in every interleaving of the requests.
THEOREM ReferencesStay == AdministrationSpec => []ReferencesHold
<1>1. HostTablesConsistent /\ ContactTablesConsistent /\ RegistrarTablesConsistent
         => ReferencesHold
  BY DEF ReferencesHold
<1> QED
  BY <1>1, AdministrationComposed, HostTablesStayConsistent,
     ContactTablesStayConsistent, RegistrarTablesStayConsistent, PTL

LEMMA HostTypesImplied == TablesInv => HostTypeOK
<1> SUFFICES ASSUME TablesInv PROVE HostTypeOK
  OBVIOUS
<1>1. /\ IsHostTable(hosts) /\ lastHost \in 0 .. MaxHostId
      /\ addresses \subseteq (DOMAIN hosts) \X IPs
      /\ uses \subseteq HostDomains \X DOMAIN hosts
  BY DEF TablesInv, TablesGood, HostTable
<1>2. addresses \subseteq HostIds \X IPs /\ uses \subseteq HostDomains \X HostIds
  BY <1>1 DEF IsHostTable
<1>3. \A p \in HostProcs : IsHostReq(hostReq[p])
  BY DEF TablesInv, Carried
<1> QED
  BY <1>1, <1>2, <1>3, Zenon DEF TablesInv, HostTypeOK

\* In the composition every row, every pending request and every quote is of
\* its type.
THEOREM AdministrationTypeCorrect == AdministrationSpec => []AdministrationTypeOK
<1>1. QuoteInv => QuotesTypeOK
  BY DEF QuoteInv, TablesTyped, QuoteInProgress, NoQuote, QuotesTypeOK
<1>2. HostTypeOK /\ ContactTypeOK /\ RarTypeOK /\ QuotesTypeOK => AdministrationTypeOK
  BY DEF AdministrationTypeOK
<1> QED
  BY <1>1, <1>2, HostTypesImplied, AdministrationComposed, TablesInvariant,
     ContactTypesCorrect, RegistrarTypesCorrect, QuotesKeepInv, PTL
=============================================================================
