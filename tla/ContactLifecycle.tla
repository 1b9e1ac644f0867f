-------------------------- MODULE ContactLifecycle --------------------------
(***************************************************************************)
(* Contacts and their use by domains: the contacts table, keyed by the id  *)
(* a registrar chose, the RoID each row carries besides, and the endpoints *)
(* that change them (contact_controller.go, contact_service.go).  One      *)
(* action is one statement, with the computation before it.                *)
(*                                                                         *)
(* contact is a contact in memory, changed by SetStatus and UnSetStatus    *)
(* only, which no endpoint calls: the endpoints take a whole status.       *)
(***************************************************************************)
EXTENDS ContactStatus, Functions

CONSTANTS
    ContactProcs,     \* the processes that serve requests
    ContactIds,
    ContactDomains,   \* domains that may name a contact
    ContactStatuses,  \* the statuses requests carry
    MaxContactRoid    \* bound: the number of RoIDs generated

ContactRoids == 1 .. MaxContactRoid

ASSUME ContactLifecycleAssumption ==
    /\ MaxContactRoid \in Nat
    /\ IsFiniteSet(ContactIds)
    /\ ContactStatuses \subseteq SUBSET ContactFlags

VARIABLES
    contacts,      \* the contacts table: the row of each id in its domain
    contactOf,     \* the domains table: a contact each domain names, or none
    lastRoid,      \* the last RoID generated
    contactReq,    \* the row each process is about to save, or NoContactReq
    overtaken,     \* observed: was a contact deleted under a pending save?
    contact        \* the status of the contact in memory

contactVars == <<contacts, contactOf, lastRoid, contactReq, overtaken, contact>>

NoContact == "none"
NoContactReq == [op |-> "idle"]
ContactRow == [roid : ContactRoids, status : SUBSET ContactFlags]

ContactInit ==
    /\ contacts \in [{} -> ContactRow]
    /\ contactOf = [d \in ContactDomains |-> NoContact]
    /\ lastRoid = 0
    /\ contactReq = [p \in ContactProcs |-> NoContactReq]
    /\ overtaken = FALSE
    /\ contact = {"ok"}

-----------------------------------------------------------------------------
\* The unique index on the RoID.
RoidFree(n, i) == \A j \in DOMAIN contacts \ {i} : contacts[j].roid # n

ContactsWith(rows) ==
    [i \in DOMAIN rows \cup DOMAIN contacts |->
        IF i \in DOMAIN rows THEN rows[i] ELSE contacts[i]]

ContactIdle(p) == contactReq[p] = NoContactReq

\* contactFromCreateContactCommand and the INSERT.  The RoID is the next one,
\* or one the command carries, as in an import of an own escrow.
CreateContact(p, i, status, imported) ==
    /\ ContactIdle(p)
    /\ i \notin DOMAIN contacts
    /\ IF imported = 0 THEN lastRoid < MaxContactRoid /\ lastRoid' = lastRoid + 1
       ELSE imported <= lastRoid /\ RoidFree(imported, i) /\ lastRoid' = lastRoid
    /\ \E s \in SetFullContactStatus(status) :
          LET n == IF imported = 0 THEN lastRoid' ELSE imported IN
          contacts' = ContactsWith([j \in {i} |-> [roid |-> n, status |-> s]])
    /\ UNCHANGED <<contactOf, contactReq, overtaken, contact>>

\* One statement: all of them or none.
BulkCreateContacts(p, status) ==
    /\ ContactIdle(p)
    /\ \E ids \in SUBSET (ContactIds \ DOMAIN contacts) :
          /\ Cardinality(ids) > 1
          /\ lastRoid + Cardinality(ids) <= MaxContactRoid
          /\ lastRoid' = lastRoid + Cardinality(ids)
          /\ \E s \in SetFullContactStatus(status),
                roid \in [ids -> lastRoid + 1 .. lastRoid'] :
                /\ IsInjective(roid)
                /\ contacts' = ContactsWith([i \in ids |-> [roid |-> roid[i], status |-> s]])
    /\ UNCHANGED <<contactOf, contactReq, overtaken, contact>>

\* The request's status replaces the stored one; CanBeUpdated is not asked.
PutStatus(status) == ContactWithOK(status)

\* Mutant: the RoID is generated anew.
PutRowNewRoid(i, status) == [roid |-> lastRoid, status |-> PutStatus(status)]

\* What the PUT leaves as it was loaded is the RoID.
PutRow(i, status) == [roid |-> contacts[i].roid, status |-> PutStatus(status)]

LoadContact(p, i, status) ==
    /\ ContactIdle(p)
    /\ i \in DOMAIN contacts
    /\ IsValidContactStatus(PutStatus(status))
    /\ contactReq' = [contactReq EXCEPT ![p] =
                         [op |-> "Save", id |-> i, row |-> PutRow(i, status)]]
    /\ UNCHANGED <<contacts, contactOf, lastRoid, overtaken, contact>>

\* Save by id: updates the row, RoID included, or inserts it when it is gone.
UpdateContact(p) ==
    LET r == contactReq[p] IN
    /\ r.op = "Save"
    /\ RoidFree(r.row.roid, r.id)
    /\ contacts' = ContactsWith([i \in {r.id} |-> r.row])
    /\ contactReq' = [contactReq EXCEPT ![p] = NoContactReq]
    /\ UNCHANGED <<contactOf, lastRoid, overtaken, contact>>

\* The statement is refused or fails, or the request dies.
ContactFail(p) ==
    /\ ~ContactIdle(p)
    /\ contactReq' = [contactReq EXCEPT ![p] = NoContactReq]
    /\ UNCHANGED <<contacts, contactOf, lastRoid, overtaken, contact>>

\* Mutant: a contact in use goes.
ContactDeletableAnyway(i) == TRUE

\* The foreign keys of domains; CanBeDeleted is not asked.
ContactDeletable(i) == \A d \in ContactDomains : contactOf[d] # i

DeleteContact(p, i) ==
    /\ ContactIdle(p)
    /\ i \in DOMAIN contacts
    /\ ContactDeletable(i)
    /\ contacts' = [j \in DOMAIN contacts \ {i} |-> contacts[j]]
    /\ overtaken' = (overtaken \/
          \E q \in ContactProcs : contactReq[q] # NoContactReq /\ contactReq[q].id = i)
    /\ UNCHANGED <<contactOf, lastRoid, contactReq, contact>>

\* A domain is created with, or changed to, the contact; or it goes, or drops
\* it.
NameContact(d, i) ==
    /\ i \in DOMAIN contacts \cup {NoContact}
    /\ contactOf[d] # i
    /\ contactOf' = [contactOf EXCEPT ![d] = i]
    /\ UNCHANGED <<contacts, lastRoid, contactReq, overtaken, contact>>

\* The contact in memory.
SetContactStatus(flag) ==
    /\ contact' \in ContactSetStatus(contact, flag)
    /\ UNCHANGED <<contacts, contactOf, lastRoid, contactReq, overtaken>>

UnSetContactStatus(flag) ==
    /\ contact' \in ContactUnSetStatus(contact, flag)
    /\ UNCHANGED <<contacts, contactOf, lastRoid, contactReq, overtaken>>

ContactServe(p) ==
    \/ UpdateContact(p)
    \/ ContactFail(p)
    \/ \E status \in ContactStatuses : BulkCreateContacts(p, status)
    \/ \E i \in ContactIds :
          \/ DeleteContact(p, i)
          \/ \E status \in ContactStatuses :
                \/ LoadContact(p, i, status)
                \/ \E imported \in 0 .. MaxContactRoid :
                      CreateContact(p, i, status, imported)

ContactTableNext ==
    \/ \E p \in ContactProcs : ContactServe(p)
    \/ \E d \in ContactDomains, i \in ContactIds \cup {NoContact} : NameContact(d, i)

ContactEntityNext ==
    \E flag \in ContactFlags : SetContactStatus(flag) \/ UnSetContactStatus(flag)

ContactNext == ContactTableNext \/ ContactEntityNext

ContactSpec == ContactInit /\ [][ContactNext]_contactVars

-----------------------------------------------------------------------------
\* Every variable has its type.
IsContactReq(r) ==
    r = NoContactReq \/ r \in [op : {"Save"}, id : ContactIds, row : ContactRow]

ContactTypeOK ==
    /\ DOMAIN contacts \subseteq ContactIds
    /\ contacts \in [DOMAIN contacts -> ContactRow]
    /\ contactOf \in [ContactDomains -> ContactIds \cup {NoContact}]
    /\ lastRoid \in 0 .. MaxContactRoid
    /\ contactReq = [p \in ContactProcs |-> contactReq[p]]
    /\ \A p \in ContactProcs : IsContactReq(contactReq[p])
    /\ overtaken \in BOOLEAN
    /\ contact \subseteq ContactFlags

\* In every interleaving, with saves of rows deleted meanwhile and RoIDs that
\* come with imports: no domain names a contact that is not there, no two
\* contacts share a RoID, and the ok flag of a row is right.
ContactTablesConsistent ==
    /\ \A d \in ContactDomains : contactOf[d] \in DOMAIN contacts \cup {NoContact}
    /\ \A i, j \in DOMAIN contacts : contacts[i].roid = contacts[j].roid => i = j
    /\ \A i \in DOMAIN contacts : IsValidContactStatus(contacts[i].status)

\* The RoID identifies the contact: the PUT of an id keeps it, and only one
\* that a deletion overtook brings an identity back or replaces that of the
\* contact created since under the same id.
RoidsKept ==
    [][\A i \in ContactIds : \A p \in ContactProcs :
          UpdateContact(p) /\ contactReq[p].id = i /\ ~overtaken
          => i \in DOMAIN contacts /\ contacts'[i].roid = contacts[i].roid]_contactVars

\* No sequence of SetStatus and UnSetStatus leads to a status RFC 5733
\* excludes: two pending operations, or one that a prohibition set with it
\* forbids, or ok besides either.
ContactStatusCoherent ==
    /\ IsValidContactStatus(contact)
    /\ Cardinality(contact \cap ContactPendings) <= 1
    /\ \A x \in contact \cap ContactProhibitions : ContactOpposite(x) \notin contact
=============================================================================
