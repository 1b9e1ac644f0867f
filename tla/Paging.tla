------------------------------- MODULE Paging -------------------------------
(***************************************************************************)
(* The pages of the list endpoints.  Rows are numbered in the order of the *)
(* table's key.  A request holds the key it continues after (NoCursor for  *)
(* the first page), the page size and the keys its filter lets through.    *)
(*                                                                         *)
(* Repositories page in two ways: most fetch one row more than asked and   *)
(* return a cursor if they got it; the others return the rows only, and    *)
(* the controller makes the last row of every page that has one the        *)
(* cursor, so that the last page is always an empty one.                   *)
(***************************************************************************)
EXTENDS Integers, FiniteSets, FiniteSetsExt

NoCursor == 0

\* An answer; NoPage stands for a status of 400 or 500.
Page(keys, cursor) == [ok |-> TRUE, keys |-> keys, cursor |-> cursor]
NoPage == [ok |-> FALSE, keys |-> {}, cursor |-> NoCursor]

Smallest(n, S) == {k \in S : Cardinality({j \in S : j < k}) < n}

\* WHERE key > cursor, and the filter.
Matching(rows, q) == {k \in rows \cap q.wanted : k > q.after}

\* Mutant: the cursor is the row beyond the page.
OneMorePast(rows, q) ==
    LET found == Smallest(q.size + 1, Matching(rows, q))
    IN  IF Cardinality(found) <= q.size THEN Page(found, NoCursor)
        ELSE IF q.size = 0 THEN NoPage
        ELSE Page(Smallest(q.size, found), Max(found))

\* The style of ListNNDNs.  With a page size of 0, which GetPageSize accepts,
\* the last element of an empty slice is read: the request panics.
OneMore(rows, q) ==
    LET found == Smallest(q.size + 1, Matching(rows, q))
    IN  IF Cardinality(found) <= q.size THEN Page(found, NoCursor)
        ELSE IF q.size = 0 THEN NoPage
        ELSE Page(Smallest(q.size, found), Max(Smallest(q.size, found)))

\* The style of IANARegistrarRepository.List.
PageOnly(rows, q) == Page(Smallest(q.size, Matching(rows, q)), NoCursor)

\* Mutant: the cursor is one before the last row.
LastRowShort(page) ==
    IF page.keys = {} THEN page ELSE [page EXCEPT !.cursor = Max(page.keys) - 1]

\* The cursor that these controllers add: the last row of any page.
LastRow(page) ==
    IF page.keys = {} THEN page ELSE [page EXCEPT !.cursor = Max(page.keys)]

\* A cursor that is a name, in a repository that parses a number.
NumberOnly(q, page) == IF q.after = NoCursor THEN page ELSE NoPage

-----------------------------------------------------------------------------
(* The repositories.                                                       *)

ListNNDNs(rows, q) == OneMore(rows, q)
ListHosts(rows, q) == OneMore(rows, q)
ListContacts(rows, q) == OneMore(rows, q)
ListRegistrars(rows, q) == OneMore(rows, q)
ListDomains(rows, q) == OneMore(rows, q)
ListTLDs(rows, q) == OneMore(rows, q)
ListRegistryOperators(rows, q) == OneMore(rows, q)
ListPremiumLabels(rows, q) == OneMore(rows, q)
ListPremiumLists(rows, q) == NumberOnly(q, OneMore(rows, q))
ListSpec5Labels(rows, q) == NumberOnly(q, OneMore(rows, q))
ListIANARegistrars(rows, q) == PageOnly(rows, q)
ListTLDRegistrars(rows, q) == PageOnly(rows, q)
ListRegistrarTLDs(rows, q) == PageOnly(rows, q)
ListExpiringDomains(rows, q) == PageOnly(rows, q)
ListRestoredDomains(rows, q) == PageOnly(rows, q)
ListPhasesByTLD(rows, q) == NumberOnly(q, PageOnly(rows, q))
ListActiveGAPhases(rows, q) == NumberOnly(q, PageOnly(rows, q))

\* The service hands over the registrar, the TLD and the cursor; the repository
\* takes the second of them for the cursor and never looks at the third.  So
\* every page is the first one, and a TLD is refused as an identifier.
ListPurgeableDomains(rows, q, tldGiven) ==
    IF tldGiven THEN NoPage ELSE PageOnly(rows, [q EXCEPT !.after = NoCursor])

\* The service fetches a page of all phases and keeps the active ones (here:
\* the wanted ones), so that a page may be short or empty before the end.
ListActivePhasesByTLD(rows, q) ==
    LET page == ListPhasesByTLD(rows, [q EXCEPT !.wanted = rows])
    IN  [page EXCEPT !.keys = @ \cap q.wanted]

-----------------------------------------------------------------------------
(* The endpoints.                                                          *)

NNDNsPage(rows, q) == ListNNDNs(rows, q)
HostsPage(rows, q) == ListHosts(rows, q)
ContactsPage(rows, q) == ListContacts(rows, q)
RegistrarsPage(rows, q) == ListRegistrars(rows, q)
DomainsPage(rows, q) == ListDomains(rows, q)
TLDsPage(rows, q) == ListTLDs(rows, q)
RegistryOperatorsPage(rows, q) == ListRegistryOperators(rows, q)
PremiumLabelsPage(rows, q) == ListPremiumLabels(rows, q)
PremiumListsPage(rows, q) == ListPremiumLists(rows, q)
Spec5Page(rows, q) == ListSpec5Labels(rows, q)
IANARegistrarsPage(rows, q) == LastRow(ListIANARegistrars(rows, q))
TLDRegistrarsPage(rows, q) == LastRow(ListTLDRegistrars(rows, q))
RegistrarTLDsPage(rows, q) == LastRow(ListRegistrarTLDs(rows, q))
ExpiringPage(rows, q) == LastRow(ListExpiringDomains(rows, q))
RestoredPage(rows, q) == LastRow(ListRestoredDomains(rows, q))
PurgeablePage(rows, q) == LastRow(ListPurgeableDomains(rows, q, FALSE))
PurgeablePageOfTLD(rows, q) == LastRow(ListPurgeableDomains(rows, q, TRUE))
PhasesPage(rows, q) == LastRow(ListPhasesByTLD(rows, q))
ActivePhasesPage(rows, q) == LastRow(ListActivePhasesByTLD(rows, q))
ActiveGAPhasesPage(rows, q) == LastRow(ListActiveGAPhases(rows, q))

\* The routes, and which rows each answers with; "purgeableOfTLD" is
\* /domains/purgeable with its tld parameter.
Endpoints == {"nndns", "hosts", "contacts", "registrars", "domains", "tlds",
              "operators", "labels", "lists", "spec5", "iana", "accredited",
              "accreditations", "expiring", "restored", "purgeable",
              "purgeableOfTLD", "phases", "active", "ga"}

AnswerOf(endpoint, rows, q) ==
    CASE endpoint = "nndns" -> NNDNsPage(rows, q)
      [] endpoint = "hosts" -> HostsPage(rows, q)
      [] endpoint = "contacts" -> ContactsPage(rows, q)
      [] endpoint = "registrars" -> RegistrarsPage(rows, q)
      [] endpoint = "domains" -> DomainsPage(rows, q)
      [] endpoint = "tlds" -> TLDsPage(rows, q)
      [] endpoint = "operators" -> RegistryOperatorsPage(rows, q)
      [] endpoint = "labels" -> PremiumLabelsPage(rows, q)
      [] endpoint = "lists" -> PremiumListsPage(rows, q)
      [] endpoint = "spec5" -> Spec5Page(rows, q)
      [] endpoint = "iana" -> IANARegistrarsPage(rows, q)
      [] endpoint = "accredited" -> TLDRegistrarsPage(rows, q)
      [] endpoint = "accreditations" -> RegistrarTLDsPage(rows, q)
      [] endpoint = "expiring" -> ExpiringPage(rows, q)
      [] endpoint = "restored" -> RestoredPage(rows, q)
      [] endpoint = "purgeable" -> PurgeablePage(rows, q)
      [] endpoint = "purgeableOfTLD" -> PurgeablePageOfTLD(rows, q)
      [] endpoint = "phases" -> PhasesPage(rows, q)
      [] endpoint = "active" -> ActivePhasesPage(rows, q)
      [] endpoint = "ga" -> ActiveGAPhasesPage(rows, q)

\* SetMeta builds the next link.  The filter is kept by the endpoints that
\* hand theirs to it, and by those that have it in the path;
FilterForgotten == {"iana", "expiring", "restored", "purgeable",
                    "purgeableOfTLD"}

\* ListTldsFilter.ToQueryParams starts with no "&", so that the filter ends up
\* in the cursor, which is then not valid base64.
FilterInCursor == {"tlds"}

NextRequest(endpoint, q, cursor, all) ==
    [q EXCEPT !.after = cursor,
              !.wanted = IF endpoint \in FilterForgotten THEN all ELSE @]

LinkReadable(endpoint, q, all) ==
    endpoint \notin FilterInCursor \/ q.wanted = all
=============================================================================
