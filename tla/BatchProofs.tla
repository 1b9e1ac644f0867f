---------------------------- MODULE BatchProofs ----------------------------
(***************************************************************************)
(* Proofs about the jobs that work through many rows: the refreshes of a   *)
(* reference table and the registrar sync, for any requests and published  *)
(* lists of which every two have an entry in common; the lists read page   *)
(* by page, for any number of keys, page sizes and filters; the escrow     *)
(* tool, for any finite deposit and any workers; the removal of all hosts  *)
(* of a domain, for any number of them; the status of an imported object,  *)
(* whatever the deposit says; and the composition of the jobs.             *)
(***************************************************************************)
EXTENDS MCBatchJobs, TLAPS, FiniteSetTheorems, WellFoundedInduction

-----------------------------------------------------------------------------
(* REFRESHES OF A REFERENCE TABLE                                          *)

Lists == {Published[n] : n \in DOMAIN Published}

\* The table is empty or one list, and so is what every request downloaded.
RefreshInv ==
    /\ table \in {{}} \cup Lists
    /\ current \in DOMAIN Published
    /\ refresh \in [Refreshes ->
         [state : {"idle", "called", "fetched", "cleared", "ok", "error"},
          list : {{}} \cup Lists]]

\* Published is not empty, so that its first list is one of Lists.
LEMMA FirstPublished == 1 \in DOMAIN Published
  BY PublishedAssumption

LEMMA RefreshInitially == RefreshInit => RefreshInv
  BY FirstPublished DEF RefreshInit, RefreshInv, NoRequest

\* An INSERT that is not refused found the table empty: a list in the table
\* would have shared a key with it.
LEMMA InsertFillsEmptyTable ==
    ASSUME RefreshInv, NEW r \in Refreshes, Insert(r)
    PROVE  table = {} /\ table' \in Lists
<1>1. /\ refresh[r].list \in Lists
      /\ refresh[r].list \cap table = {}
      /\ table' = table \cup refresh[r].list
  BY DEF RefreshInv, Insert
<1>2. table \notin Lists
  BY <1>1, PublishedAssumption DEF Lists
<1> QED
  BY <1>1, <1>2 DEF RefreshInv

LEMMA RefreshInductive ==
    ASSUME RefreshInv, [RefreshNext]_refreshVars
    PROVE  RefreshInv'
<1> USE DEF RefreshInv
<1>1. CASE UNCHANGED refreshVars
  BY <1>1 DEF refreshVars
<1>2. CASE Publish
  <2>1. current + 1 \in DOMAIN Published
    BY <1>2, PublishedAssumption DEF Publish
  <2> QED
    BY <1>2, <2>1 DEF Publish
<1>3. ASSUME NEW r \in Refreshes, Requested(r) PROVE RefreshInv'
  BY <1>3 DEF Requested, Goes
<1>4. ASSUME NEW r \in Refreshes, Fetch(r) PROVE RefreshInv'
  <2>1. PICK L \in {Published[current], {}} :
           refresh' = [refresh EXCEPT ![r] = [state |-> "fetched", list |-> L]]
    BY <1>4 DEF Fetch
  <2>2. L \in {{}} \cup Lists
    BY DEF Lists
  <2> QED
    BY <1>4, <2>1, <2>2 DEF Fetch
<1>5. ASSUME NEW r \in Refreshes, FetchFails(r) PROVE RefreshInv'
  BY <1>5 DEF FetchFails, Goes
<1>6. ASSUME NEW r \in Refreshes, Clear(r) PROVE RefreshInv'
  BY <1>6 DEF Clear, Goes
<1>7. ASSUME NEW r \in Refreshes, Insert(r) PROVE RefreshInv'
  BY <1>7, InsertFillsEmptyTable DEF Insert, Goes
<1>8. ASSUME NEW r \in Refreshes, InsertFails(r) PROVE RefreshInv'
  BY <1>8 DEF InsertFails, Goes
<1>9. ASSUME NEW r \in Refreshes, RequestDies(r) PROVE RefreshInv'
  BY <1>9 DEF RequestDies, Goes
<1>10. ASSUME NEW r \in Refreshes, Answered(r) PROVE RefreshInv'
  BY <1>10 DEF Answered, NoRequest
<1> QED
  BY <1>1, <1>2, <1>3, <1>4, <1>5, <1>6, <1>7, <1>8, <1>9, <1>10
     DEF RefreshNext, Work

\* Every step clears the table, fills the empty table with one list, or leaves
\* it alone.
LEMMA StepKeepsPromise ==
    ASSUME RefreshInv, [RefreshNext]_refreshVars
    PROVE  [Promise!Next]_table
<1>1. ASSUME NEW r \in Refreshes, Work(r) PROVE [Promise!Next]_table
  <2>1. CASE Clear(r)
    BY <2>1 DEF Clear, Promise!Next, Promise!Clear
  <2>2. CASE Insert(r)
    BY <2>2, InsertFillsEmptyTable DEF Lists, Promise!Next, Promise!Fill
  <2> QED
    BY <1>1, <2>1, <2>2 DEF Work, Fetch, FetchFails, InsertFails
<1> QED
  BY <1>1 DEF RefreshNext, refreshVars, Publish, Requested, RequestDies, Answered

-----------------------------------------------------------------------------
\* In every interleaving of refreshes the table is empty or one published
\* list (SyncService.RefreshIANARegistrars, IANARegistrarRepository.UpdateAll).
THEOREM RefreshesKeepLists == RefreshSpec => []RefreshInv
  BY RefreshInitially, RefreshInductive, PTL DEF RefreshSpec

\* RefreshIANARegistrars "deletes and recreates all IANARegistrars": the two
\* statements, without a transaction and by any number of requests at once,
\* implement the table that is only ever cleared or filled from empty.
THEOREM RefreshesImplementTable == RefreshSpec => TableIsOneList
<1>1. RefreshInit => Promise!Init
  BY DEF RefreshInit, Promise!Init
<1>2. RefreshInv /\ [RefreshNext]_refreshVars => [Promise!Next]_table
  BY StepKeepsPromise
<1> QED
  BY <1>1, <1>2, RefreshesKeepLists, PTL
     DEF RefreshSpec, TableIsOneList, Promise!Spec

-----------------------------------------------------------------------------
(* LISTINGS                                                                *)

(* Pages.                                                                  *)

LEMMA LeastExists ==
    ASSUME NEW S \in SUBSET Nat, S # {}
    PROVE  \E x \in S : \A y \in S : x <= y
<1>1. PICK x \in S : \A y \in S : <<y, x>> \notin OpToRel(<, Nat)
  BY WFMin, NatLessThanWellFounded
<1>2. ASSUME NEW y \in S PROVE x <= y
  <2>1. x \in Nat /\ y \in Nat /\ ~ (y < x)
    BY <1>1 DEF OpToRel
  <2> QED
    BY <2>1
<1> QED
  BY <1>2

LEMMA KeysAreNumbers ==
    /\ MaxKey \in Nat
    /\ Keys \in SUBSET Nat
    /\ \A k \in Keys : k \in Nat /\ k # 0 /\ k <= MaxKey
    /\ IsFiniteSet(Keys)
<1>1. MaxKey \in Nat
  BY ListingAssumption
<1>2. IsFiniteSet(Keys)
  BY <1>1, FS_Interval DEF Keys
<1> QED
  BY <1>1, <1>2 DEF Keys

LEMMA MaxOfKeys ==
    ASSUME NEW S \in SUBSET Keys, S # {}
    PROVE  Max(S) \in S /\ \A y \in S : y <= Max(S)
<1> DEFINE T == {MaxKey - x : x \in S}
<1>1. MaxKey \in Nat /\ \A x \in S : x \in Nat /\ x <= MaxKey
  BY KeysAreNumbers
<1>2. T \in SUBSET Nat /\ T # {}
  BY <1>1
<1>3. PICK t \in T : \A u \in T : t <= u
  BY <1>2, LeastExists
<1>4. PICK x \in S : t = MaxKey - x
  BY <1>3
<1>5. \A y \in S : x >= y
  <2> SUFFICES ASSUME NEW y \in S PROVE x >= y
    OBVIOUS
  <2>1. t <= MaxKey - y
    BY <1>3
  <2> QED
    BY <1>1, <1>4, <2>1
<1>6. Max(S) \in S /\ \A y \in S : Max(S) >= y
  BY <1>4, <1>5 DEF Max
<1> QED
  BY <1>1, <1>6

LEMMA KeysFinite == ASSUME NEW S \in SUBSET Keys
                    PROVE  IsFiniteSet(S) /\ Cardinality(S) \in Nat
<1>1. IsFiniteSet(S)
  BY KeysAreNumbers, FS_Subset
<1> QED
  BY <1>1, FS_CardinalityType

\* The smallest keys are an initial segment.
LEMMA SmallestBelow ==
    ASSUME NEW S \in SUBSET Keys, NEW n \in Nat,
           NEW k \in Smallest(n, S), NEW j \in S, j < k
    PROVE  j \in Smallest(n, S)
<1> DEFINE Below(x) == {y \in S : y < x}
<1>1. Below(j) \in SUBSET Below(k)
  <2>1. \A y \in S : y \in Nat
    BY KeysAreNumbers
  <2>2. k \in S
    BY DEF Smallest
  <2> QED
    BY <2>1, <2>2
<1>2. Cardinality(Below(j)) <= Cardinality(Below(k))
  BY <1>1, KeysFinite, FS_Subset
<1>3. Cardinality(Below(j)) \in Nat /\ Cardinality(Below(k)) \in Nat
  BY KeysFinite
<1> QED
  BY <1>2, <1>3 DEF Smallest

\* A page with fewer rows than it may have holds all of them.
LEMMA SmallestOfFew ==
    ASSUME NEW S \in SUBSET Keys, NEW n \in Nat,
           Cardinality(Smallest(n, S)) < n
    PROVE  Smallest(n, S) = S
<1> SUFFICES ASSUME S \ Smallest(n, S) # {} PROVE FALSE
  BY DEF Smallest
<1>1. S \ Smallest(n, S) \in SUBSET Nat /\ S \in SUBSET Nat
  BY KeysAreNumbers
<1>2. PICK x \in S \ Smallest(n, S) : \A y \in S \ Smallest(n, S) : x <= y
  BY <1>1, LeastExists
<1> DEFINE Below == {y \in S : y < x}
<1>3. Below \in SUBSET Smallest(n, S)
  BY <1>1, <1>2
<1>4. Smallest(n, S) \in SUBSET Keys
  BY DEF Smallest
<1>5. Cardinality(Below) <= Cardinality(Smallest(n, S))
  BY <1>3, <1>4, KeysFinite, FS_Subset
<1>6. ~ (Cardinality(Below) < n)
  BY <1>2 DEF Smallest
<1>7. Cardinality(Below) \in Nat /\ Cardinality(Smallest(n, S)) \in Nat
  BY <1>4, KeysFinite
<1> QED
  BY <1>5, <1>6, <1>7

\* A page: rows beyond the cursor of the request, up to its own cursor, and
\* none that it leaves out there.
GoodPage(found, page) ==
    /\ page.keys \subseteq found
    /\ page.ok /\ page.cursor # NoCursor =>
          /\ page.cursor \in page.keys
          /\ \A k \in page.keys : k <= page.cursor
          /\ \A k \in found : k <= page.cursor => k \in page.keys

\* A page without a cursor is the last one, if it may have rows at all.
LastPage(found, page) == (page.ok /\ page.cursor = NoCursor) => page.keys = found

LEMMA SegmentIsPage ==
    ASSUME NEW S \in SUBSET Keys, NEW n \in Nat, NEW T, T = Smallest(n, S), T # {}
    PROVE  GoodPage(S, Page(T, Max(T))) /\ Max(T) # NoCursor
<1>1. T \in SUBSET Keys
  BY DEF Smallest
<1>2. Max(T) \in T /\ \A k \in T : k <= Max(T)
  BY <1>1, MaxOfKeys
<1>3. ASSUME NEW k \in S, k <= Max(T) PROVE k \in T
  BY <1>1, <1>2, <1>3, SmallestBelow DEF Keys
<1> QED
  BY <1>1, <1>2, <1>3 DEF GoodPage, Page, Keys, NoCursor, Smallest

LEMMA OneMoreIsPage ==
    ASSUME NEW R \in SUBSET Keys, NEW q, q.size \in Nat
    PROVE  /\ GoodPage(Matching(R, q), OneMore(R, q))
           /\ LastPage(Matching(R, q), OneMore(R, q))
<1> DEFINE S == Matching(R, q)
           n == q.size
           found == Smallest(n + 1, S)
<1>1. S \in SUBSET Keys
  BY DEF Matching
<1>2. CASE Cardinality(found) <= n
  <2>1. found \in SUBSET Keys
    BY <1>1 DEF Smallest
  <2>2. Cardinality(found) \in Nat
    BY <2>1, KeysFinite
  <2>3. found = S
    BY <1>1, <1>2, <2>2, SmallestOfFew
  <2>4. OneMore(R, q) = Page(S, NoCursor)
    BY <1>2, <2>3 DEF OneMore
  <2> QED
    BY <2>4 DEF GoodPage, LastPage, Page
<1>3. CASE ~ (Cardinality(found) <= n) /\ n = 0
  <2>1. OneMore(R, q) = NoPage
    BY <1>3 DEF OneMore
  <2> QED
    BY <2>1 DEF GoodPage, LastPage, NoPage
<1>4. CASE ~ (Cardinality(found) <= n) /\ n # 0
  <2> DEFINE T == Smallest(n, found)
  <2>1. found \in SUBSET Keys /\ found \subseteq S
    BY <1>1 DEF Smallest
  <2>2. OneMore(R, q) = Page(T, Max(T))
    BY <1>4 DEF OneMore
  <2>3. T # {}
    <3>1. SUFFICES ASSUME T = {} PROVE FALSE
      OBVIOUS
    <3>2. Cardinality(T) < n
      BY <1>4, <3>1, FS_EmptySet
    <3>3. found = {}
      BY <2>1, <3>1, <3>2, SmallestOfFew
    <3> QED
      BY <1>4, <3>3, FS_EmptySet
  <2>4. T = Smallest(n, S)
    <3>1. ASSUME NEW k \in found PROVE {j \in found : j < k} = {j \in S : j < k}
      BY <1>1, <2>1, <3>1, SmallestBelow
    <3>2. ASSUME NEW k \in Smallest(n, S) PROVE k \in found
      <4>1. Cardinality({j \in S : j < k}) < n
        BY <3>2 DEF Smallest
      <4>2. Cardinality({j \in S : j < k}) \in Nat
        BY <1>1, KeysFinite
      <4> QED
        BY <3>2, <4>1, <4>2 DEF Smallest
    <3> HIDE DEF found, S
    <3>3. ASSUME NEW k \in T PROVE k \in Smallest(n, S)
      BY <2>1, <3>1, <3>3 DEF Smallest
    <3>4. ASSUME NEW k \in Smallest(n, S) PROVE k \in T
      BY <3>1, <3>2, <3>4 DEF Smallest
    <3> QED
      BY <3>3, <3>4
  <2> HIDE DEF S, T, found
  <2>5. GoodPage(S, Page(T, Max(T))) /\ Max(T) # NoCursor
    BY <1>1, <2>3, <2>4, SegmentIsPage
  <2> QED
    BY <2>2, <2>5 DEF LastPage, Page, S
<1> QED
  BY <1>2, <1>3, <1>4

LEMMA PageOnlyIsPage ==
    ASSUME NEW R \in SUBSET Keys, NEW q, q.size \in Nat
    PROVE  /\ GoodPage(Matching(R, q), LastRow(PageOnly(R, q)))
           /\ q.size > 0 => LastPage(Matching(R, q), LastRow(PageOnly(R, q)))
<1> DEFINE S == Matching(R, q)
           T == Smallest(q.size, S)
<1>1. S \in SUBSET Keys
  BY DEF Matching
<1>2. PageOnly(R, q) = Page(T, NoCursor)
  BY DEF PageOnly
<1>3. CASE T = {}
  <2>1. LastRow(PageOnly(R, q)) = Page({}, NoCursor)
    BY <1>2, <1>3 DEF LastRow, Page
  <2>2. q.size > 0 => S = {}
    BY <1>1, <1>3, FS_EmptySet, SmallestOfFew
  <2> QED
    BY <2>1, <2>2 DEF GoodPage, LastPage, Page
<1>4. CASE T # {}
  <2>1. LastRow(Page(T, NoCursor)) = Page(T, Max(T))
    <3> HIDE DEF T
    <3> QED
      BY <1>4 DEF LastRow, Page
  <2> HIDE DEF S
  <2>2. GoodPage(S, Page(T, Max(T))) /\ Max(T) # NoCursor
    BY <1>1, <1>4, SegmentIsPage
  <2> QED
    BY <1>2, <2>1, <2>2 DEF LastPage, Page, S
<1> QED
  BY <1>3, <1>4

\* The request as the endpoint takes it: the purgeable domains are listed from
\* the first one, whatever the cursor.
Taken(e, q) == IF e = "purgeable" THEN [q EXCEPT !.after = NoCursor] ELSE q

\* Every list endpoint answers with a page, and all but the list of active
\* phases with the last one when it sets no cursor.
LEMMA AnswersArePages ==
    ASSUME NEW e \in Endpoints, NEW R \in SUBSET Keys, NEW q,
           q = [after |-> q.after, size |-> q.size, wanted |-> q.wanted],
           q.size \in Nat
    PROVE  LET page == AnswerOf(e, R, q)
               found == Matching(R, Taken(e, q))
           IN  /\ e # "active" => GoodPage(found, page)
               /\ e # "active" /\ q.size > 0 => LastPage(found, page)
               /\ page.keys \subseteq found
               /\ page.ok /\ page.cursor # NoCursor =>
                     /\ page.cursor \in page.keys
                     /\ \A k \in page.keys : k <= page.cursor
<1> DEFINE S == Matching(R, q)
           Holds(page) == GoodPage(S, page) /\ (q.size > 0 => LastPage(S, page))
<1>1. Holds(OneMore(R, q)) /\ Holds(LastRow(PageOnly(R, q)))
  BY OneMoreIsPage, PageOnlyIsPage
<1>2. ASSUME NEW page, Holds(page) PROVE Holds(NumberOnly(q, page))
  BY <1>2 DEF NumberOnly, NoPage, GoodPage, LastPage
<1>3. Holds(LastRow(NumberOnly(q, PageOnly(R, q))))
  <2>1. CASE q.after = NoCursor
    BY <1>1, <2>1 DEF NumberOnly
  <2>2. CASE q.after # NoCursor
    <3>1. LET page == LastRow(NumberOnly(q, PageOnly(R, q)))
          IN  ~ page.ok /\ page.keys = {}
      BY <2>2 DEF NumberOnly, NoPage, LastRow
    <3> QED
      BY <3>1 DEF GoodPage, LastPage
  <2> QED
    BY <2>1, <2>2
<1>4. Holds(NumberOnly(q, OneMore(R, q)))
  BY <1>1, <1>2
<1>7. CASE e = "purgeable"
  <2> DEFINE p == Taken(e, q)
             page == LastRow(PageOnly(R, p))
  <2>1. p = [q EXCEPT !.after = NoCursor] /\ p.size = q.size
    BY <1>7 DEF Taken
  <2>2. AnswerOf(e, R, q) = page
    BY <1>7, <2>1 DEF AnswerOf, PurgeablePage, ListPurgeableDomains
  <2>3. /\ GoodPage(Matching(R, p), page)
        /\ q.size > 0 => LastPage(Matching(R, p), page)
    <3> HIDE DEF p
    <3> QED
      BY <2>1, PageOnlyIsPage
  <2> HIDE DEF p, page
  <2> QED
    BY <2>2, <2>3 DEF GoodPage, p
<1>8. Holds(NoPage) /\ Holds(LastRow(NoPage))
  BY DEF NoPage, LastRow, GoodPage, LastPage
<1>9. e # "purgeable" => Taken(e, q) = q
  BY DEF Taken
<1> HIDE DEF Holds, S
<1>5. CASE e \notin {"active", "purgeable"}
  <2>1. Holds(AnswerOf(e, R, q))
    BY <1>1, <1>3, <1>4, <1>5, <1>8
       DEF Endpoints, AnswerOf, NNDNsPage, HostsPage, ContactsPage,
           RegistrarsPage, DomainsPage, TLDsPage, RegistryOperatorsPage,
           PremiumLabelsPage, PremiumListsPage, Spec5Page, IANARegistrarsPage,
           TLDRegistrarsPage, RegistrarTLDsPage, ExpiringPage, RestoredPage,
           PurgeablePageOfTLD, PhasesPage, ActiveGAPhasesPage, ListNNDNs, ListHosts,
           ListContacts, ListRegistrars, ListDomains, ListTLDs,
           ListRegistryOperators, ListPremiumLabels, ListPremiumLists,
           ListSpec5Labels, ListIANARegistrars, ListTLDRegistrars,
           ListRegistrarTLDs, ListExpiringDomains, ListRestoredDomains,
           ListPurgeableDomains, ListPhasesByTLD, ListActiveGAPhases
  <2> QED
    BY <1>5, <1>9, <2>1 DEF Holds, S, GoodPage
<1>6. CASE e = "active"
  <2> DEFINE all == [q EXCEPT !.wanted = R]
             raw == NumberOnly(all, PageOnly(R, all))
             page == [raw EXCEPT !.keys = @ \cap q.wanted]
  <2>1. AnswerOf(e, R, q) = LastRow(page)
    BY <1>6 DEF AnswerOf, ActivePhasesPage, ListActivePhasesByTLD, ListPhasesByTLD
  <2>2. all.size = q.size /\ all.wanted = R /\ all.after = q.after
    OBVIOUS
  <2> HIDE DEF all
  <2>3. raw.keys \subseteq Matching(R, all)
    BY DEF NumberOnly, NoPage, PageOnly, Page, Smallest
  <2>4. raw = [ok |-> raw.ok, keys |-> raw.keys, cursor |-> NoCursor]
    BY DEF NumberOnly, NoPage, PageOnly, Page
  <2> HIDE DEF raw
  <2>5. /\ page.ok = raw.ok
        /\ page.keys = raw.keys \cap q.wanted
        /\ page.cursor = NoCursor
        /\ page = [ok |-> page.ok, keys |-> page.keys, cursor |-> NoCursor]
    BY <2>4
  <2> HIDE DEF page
  <2>6. page.keys \subseteq S
    BY <2>2, <2>3, <2>5 DEF Matching, S
  <2>7. S \in SUBSET Keys
    BY DEF Matching, S
  <2>8. CASE page.keys = {}
    BY <1>6, <1>9, <2>1, <2>5, <2>6, <2>8 DEF LastRow, S
  <2>9. CASE page.keys # {}
    <3>1. Max(page.keys) \in page.keys /\ \A k \in page.keys : k <= Max(page.keys)
      BY <2>6, <2>7, <2>9, MaxOfKeys
    <3>2. /\ LastRow(page).keys = page.keys
          /\ LastRow(page).cursor = Max(page.keys)
      BY <2>5, <2>9 DEF LastRow
    <3> QED
      BY <1>6, <1>9, <2>1, <2>6, <2>7, <2>9, <3>1, <3>2 DEF S
  <2> QED
    BY <2>8, <2>9
<1> QED
  BY <1>5, <1>6, <1>7

-----------------------------------------------------------------------------
(* The invariant of a listing: up to the cursor, what was there all the    *)
(* time has been read, and beyond it nothing has, except by the purgeable  *)
(* domains, whose first page is read over and over.                        *)

Readings ==
    [endpoint : Endpoints, asked : SUBSET Keys, got : SUBSET Keys,
     q : [after : Nat, size : Nat, wanted : SUBSET Keys],
     twice : BOOLEAN, state : {"open", "complete", "failed"}]

ReadUpToCursor ==
    /\ listing.asked \subseteq listing.q.wanted
    /\ listing.endpoint # "purgeable" =>
          \A k \in listing.got : k <= listing.q.after
    /\ listing.endpoint # "active" /\ listing.q.size > 0 =>
          \A k \in steady \cap listing.asked :
              k <= listing.q.after => k \in listing.got

ListingInv ==
    /\ rows \in SUBSET Keys
    /\ steady \in SUBSET rows
    /\ listing \in Readings \cup {NoListing}
    /\ listing.state = "open" => ReadUpToCursor
    /\ NothingMissed
    /\ NothingTwice

LEMMA ListingStarts == ListingInit => ListingInv
<1> SUFFICES ASSUME ListingInit PROVE ListingInv
  OBVIOUS
<1>1. listing = NoListing /\ listing.twice = FALSE
  BY DEF ListingInit, NoListing
<1>2. NothingTwice
  BY <1>1, Zenon DEF NothingTwice
<1> QED
  BY <1>1, <1>2 DEF ListingInit, ListingInv, NoListing, NothingMissed

\* While a listing is open it is one that was started.
LEMMA OpenReading == ListingInv /\ listing.state = "open" => listing \in Readings
  BY DEF ListingInv, NoListing

LEMMA FetchKeepsInv == ASSUME ListingInv, FetchPage PROVE ListingInv'
<1> DEFINE q == listing.q
           e == listing.endpoint
           page == AnswerOf(e, rows, q)
           next == GoOn(page, q, e)
           found == Matching(rows, Taken(e, q))
           got == listing.got \cup page.keys
<1>1. /\ listing.state = "open" /\ listing \in Readings /\ ReadUpToCursor
      /\ rows' = rows /\ steady' = steady
      /\ rows \in SUBSET Keys /\ steady \in SUBSET rows
  BY OpenReading DEF FetchPage, ListingInv
<1>2. /\ e \in Endpoints /\ q \in [after : Nat, size : Nat, wanted : SUBSET Keys]
      /\ q = [after |-> q.after, size |-> q.size, wanted |-> q.wanted]
      /\ q.size \in Nat /\ q.after \in Nat
      /\ listing.got \in SUBSET Keys /\ listing.asked \in SUBSET Keys
  BY <1>1 DEF Readings
<1>3. listing' = [listing EXCEPT !.q = next.q, !.state = next.state, !.got = got,
                    !.twice = listing.twice \/ page.keys \cap listing.got # {}]
  BY DEF FetchPage
<1>4. /\ e # "active" => GoodPage(found, page)
      /\ e # "active" /\ q.size > 0 => LastPage(found, page)
      /\ page.keys \subseteq found
      /\ page.ok /\ page.cursor # NoCursor =>
            /\ page.cursor \in page.keys
            /\ \A k \in page.keys : k <= page.cursor
  BY <1>1, <1>2, AnswersArePages
<1> HIDE DEF q, e, page
<1>5. /\ \A k \in page.keys : k \in Keys /\ k \in Nat
      /\ e # "purgeable" => \A k \in page.keys : q.after < k
  BY <1>1, <1>4, KeysAreNumbers DEF Matching, Taken
<1>6. e # "purgeable" => page.keys \cap listing.got = {}
  <2>1. ASSUME e # "purgeable", NEW k \in listing.got PROVE k \notin page.keys
    <3>1. k <= q.after /\ k \in Nat
      BY <1>1, <1>2, <2>1, KeysAreNumbers DEF ReadUpToCursor, q, e
    <3> QED
      BY <1>2, <1>5, <2>1, <3>1
  <2> QED
    BY <2>1
<1>7. /\ next.state \in {"open", "complete", "failed"}
      /\ next.q \in [after : Nat, size : Nat, wanted : SUBSET Keys]
      /\ next.q.size = q.size
      /\ next.state = "open" =>
            /\ page.ok /\ page.cursor # NoCursor
            /\ next.q.after = page.cursor
            /\ next.q.wanted \in {q.wanted, Keys}
      /\ next.state = "complete" => page.ok /\ page.cursor = NoCursor
  <2>1. CASE ~page.ok \/ page.cursor = NoCursor
    BY <1>2, <2>1 DEF GoOn
  <2>2. CASE page.ok /\ page.cursor # NoCursor
    <3> DEFINE r == NextRequest(e, q, page.cursor, Keys)
    <3>1. page.cursor \in Nat
      BY <1>4, <1>5, <2>2
    <3>2. /\ r \in [after : Nat, size : Nat, wanted : SUBSET Keys]
          /\ r.size = q.size /\ r.after = page.cursor /\ r.wanted \in {q.wanted, Keys}
      BY <1>2, <3>1 DEF NextRequest
    <3>3. next.q = r /\ next.state \in {"open", "failed"}
      BY <2>2 DEF GoOn
    <3> HIDE DEF r, next
    <3> QED
      BY <2>2, <3>2, <3>3
  <2> QED
    BY <2>1, <2>2
<1> HIDE DEF next, got
<1>8. /\ listing' \in Readings
      /\ listing'.q = next.q /\ listing'.state = next.state
      /\ listing'.got = got /\ listing'.asked = listing.asked
      /\ listing'.endpoint = e /\ NothingTwice'
  <2> DEFINE twice == listing.twice \/ page.keys \cap listing.got # {}
  <2>1. got \in SUBSET Keys
    BY <1>2, <1>5 DEF got
  <2>2. twice \in BOOLEAN
    BY Zenon
  <2>3. e # "purgeable" => ~twice
    <3>1. e # "purgeable" => ~listing.twice
      BY Zenon DEF ListingInv, NothingTwice, e
    <3> QED
      BY <1>6, <3>1, Zenon
  <2> HIDE DEF twice
  <2>4. listing' = [listing EXCEPT !.q = next.q, !.state = next.state, !.got = got,
                      !.twice = twice]
    BY <1>3 DEF twice
  <2>5. /\ listing' \in Readings
        /\ listing'.q = next.q /\ listing'.state = next.state
        /\ listing'.got = got /\ listing'.asked = listing.asked
        /\ listing'.endpoint = e /\ listing'.twice = twice
    BY <1>1, <1>7, <2>1, <2>2, <2>4 DEF Readings, e
  <2>6. NothingTwice'
    BY <2>3, <2>5, Zenon DEF NothingTwice
  <2> QED
    BY <2>5, <2>6
\* What was there all the time and is asked for is read up to the new cursor.
<1>9. ASSUME NEW k \in steady \cap listing.asked, k \notin got,
             e # "active", q.size > 0
      PROVE  k \in found
  <2>1. k \in q.wanted /\ k \in rows /\ k \in Nat
    BY <1>1, <1>9, KeysAreNumbers DEF ReadUpToCursor, q
  <2>2. ~ (k <= q.after)
    BY <1>1, <1>9 DEF ReadUpToCursor, q, e, got
  <2> QED
    BY <1>2, <2>1, <2>2, KeysAreNumbers DEF Matching, Taken, NoCursor
<1>10. next.state = "open" => ReadUpToCursor'
  <2> SUFFICES ASSUME next.state = "open" PROVE ReadUpToCursor'
    OBVIOUS
  <2>1. page.ok /\ page.cursor # NoCursor /\ next.q.after = page.cursor
    BY <1>7
  <2>2. listing'.asked \subseteq listing'.q.wanted
    BY <1>1, <1>2, <1>7, <1>8 DEF ReadUpToCursor, q
  <2>3. ASSUME e # "purgeable", NEW k \in got PROVE k <= page.cursor
    <3>1. CASE k \in page.keys
      BY <1>4, <2>1, <3>1
    <3>2. CASE k \in listing.got
      <4>1. k <= q.after /\ k \in Nat /\ page.cursor \in Nat
        BY <1>1, <1>2, <1>4, <1>5, <2>1, <2>3, <3>2, KeysAreNumbers
           DEF ReadUpToCursor, q, e
      <4>2. q.after < page.cursor
        BY <1>4, <1>5, <2>1, <2>3
      <4> QED
        BY <1>2, <4>1, <4>2
    <3> QED
      BY <2>3, <3>1, <3>2 DEF got
  <2>4. ASSUME NEW k \in steady \cap listing.asked, k <= page.cursor,
               e # "active", q.size > 0
        PROVE  k \in got
    BY <1>4, <1>9, <2>1, <2>4 DEF GoodPage, got
  <2> QED
    BY <1>7, <1>8, <2>1, <2>2, <2>3, <2>4, <1>1 DEF ReadUpToCursor
<1>11. NothingMissed'
  <2> SUFFICES ASSUME next.state = "complete", next.q.size > 0, e # "active",
                      NEW k \in steady \cap listing.asked
               PROVE  k \in got
    BY <1>1, <1>8 DEF NothingMissed
  <2>1. page.keys = found
    BY <1>4, <1>7 DEF LastPage
  <2> QED
    BY <1>7, <1>9, <2>1 DEF got
<1> QED
  BY <1>1, <1>8, <1>10, <1>11 DEF ListingInv

LEMMA ListingSteps ==
    ASSUME ListingInv, [ListingNext]_listVars
    PROVE  ListingInv'
<1>1. CASE UNCHANGED listVars
  BY <1>1 DEF listVars, ListingInv, ReadUpToCursor, NothingMissed, NothingTwice
<1>2. ASSUME NEW k \in Keys, CreateNNDN(k) PROVE ListingInv'
  <2>1. rows' \in SUBSET Keys /\ steady' \in SUBSET rows'
    BY <1>2 DEF CreateNNDN, ListingInv
  <2> QED
    BY <1>2, <2>1 DEF CreateNNDN, ListingInv, ReadUpToCursor, NothingMissed, NothingTwice
<1>3. ASSUME NEW k \in Keys, DeleteNNDN(k) PROVE ListingInv'
  <2>1. /\ rows' \in SUBSET Keys /\ steady' \in SUBSET rows'
        /\ steady' \subseteq steady
    BY <1>3 DEF DeleteNNDN, ListingInv
  <2> QED
    BY <1>3, <2>1 DEF DeleteNNDN, ListingInv, ReadUpToCursor, NothingMissed, NothingTwice
<1>4. ASSUME NEW e \in Endpoints, NEW n \in PageSizes, NEW F \in Filters,
             StartListing(e, n, F)
      PROVE  ListingInv'
  <2>1. n \in Nat /\ F \in SUBSET Keys
    BY ListingAssumption
  <2>2. /\ listing' \in Readings /\ listing'.state = "open"
        /\ listing'.q.after = 0 /\ listing'.q.wanted = F
        /\ listing'.asked = F /\ listing'.got = {} /\ listing'.twice = FALSE
    BY <1>4, <2>1 DEF StartListing, Readings, NoCursor
  <2>3. \A k \in Keys : ~ (k <= 0)
    BY KeysAreNumbers
  <2>4. NothingTwice'
    BY <2>2, Zenon DEF NothingTwice
  <2> QED
    BY <1>4, <2>1, <2>2, <2>3, <2>4
       DEF StartListing, ListingInv, ReadUpToCursor, NothingMissed
<1> QED
  BY <1>1, <1>2, <1>3, <1>4, FetchKeepsInv DEF ListingNext

\* The inductive invariant of a listing: what was there from its start and is
\* asked for has been read up to the cursor of the next request, and nothing
\* beyond it, except at the endpoint of the purgeable domains, which does not
\* look at its cursor (GetPageSize, the cursors of the repositories and
\* controllers).
THEOREM ReadingsAdvance == ListingSpec => []ListingInv
  BY ListingStarts, ListingSteps, PTL DEF ListingSpec

\* The list endpoints answer with complete lists, for any table, page size,
\* filter and number of rows that are inserted and deleted meanwhile: a listing
\* that ends leaves out no row that was there all the time, except with a page
\* size of 0 and of the active phases, and none lists a row twice, except that
\* of the purgeable domains.
THEOREM ListingsComplete == ListingSpec => []ListingComplete
<1>1. ListingInv => ListingComplete
  BY DEF ListingInv, ListingComplete
<1> QED
  BY <1>1, ReadingsAdvance, PTL

\* Listings: the number of changes is bounded, and a request asks for a page
\* size of the parameter and for keys.
ListingBounds ==
    /\ changes \in 0 .. MaxChanges
    /\ listing = NoListing \/ listing.q \in Requests

LEMMA ListingBoundsStay ==
    ASSUME ListingInv, ListingBounds, [ListingNext]_listVars
    PROVE  ListingBounds'
<1>1. MaxChanges \in Nat /\ PageSizes \subseteq Nat
  BY ListingAssumption
<1>2. CASE UNCHANGED listVars
  BY <1>2 DEF listVars, ListingBounds
<1>3. ASSUME NEW k \in Keys, CreateNNDN(k) \/ DeleteNNDN(k) PROVE ListingBounds'
  BY <1>1, <1>3 DEF CreateNNDN, DeleteNNDN, ListingBounds
<1>4. ASSUME NEW e \in Endpoints, NEW n \in PageSizes, NEW F \in Filters,
             StartListing(e, n, F)
      PROVE  ListingBounds'
  <2>1. F \in SUBSET Keys /\ 0 \in 0 .. MaxKey
    BY ListingAssumption
  <2>2. listing'.q = [after |-> 0, size |-> n, wanted |-> F] /\ changes' = changes
    BY <1>4 DEF StartListing, NoCursor
  <2> QED
    BY <2>1, <2>2 DEF Requests, ListingBounds
<1>5. CASE FetchPage
  <2> DEFINE q == listing.q
             e == listing.endpoint
             page == AnswerOf(e, rows, q)
             next == GoOn(page, q, e)
  <2>1. listing.state = "open" /\ listing \in Readings /\ rows \in SUBSET Keys
    BY <1>5, OpenReading DEF FetchPage, ListingInv
  <2>2. listing # NoListing
    BY <2>1 DEF NoListing
  <2>3. q \in Requests /\ e \in Endpoints
    BY <2>1, <2>2 DEF ListingBounds, Readings
  <2>4. q = [after |-> q.after, size |-> q.size, wanted |-> q.wanted] /\ q.size \in Nat
    BY <1>1, <2>3 DEF Requests
  <2>5. page.ok /\ page.cursor # NoCursor => page.cursor \in 0 .. MaxKey
    <3>1. page.ok /\ page.cursor # NoCursor => page.cursor \in Matching(rows, Taken(e, q))
      BY <2>1, <2>3, <2>4, AnswersArePages
    <3>2. Matching(rows, Taken(e, q)) \subseteq Keys
      BY <2>1 DEF Matching
    <3>3. Keys \subseteq 0 .. MaxKey
      BY KeysAreNumbers DEF Keys
    <3> HIDE DEF page, q, e
    <3> QED
      BY <3>1, <3>2, <3>3
  <2>6. listing'.q = next.q /\ changes' = changes
    BY <1>5, <2>1 DEF FetchPage, Readings
  <2> HIDE DEF page, q, e
  <2>7. next.q \in Requests
    <3>1. CASE ~page.ok \/ page.cursor = NoCursor
      BY <2>3, <3>1 DEF GoOn
    <3>2. CASE page.ok /\ page.cursor # NoCursor
      <4>1. next.q = NextRequest(e, q, page.cursor, Keys)
        BY <3>2 DEF GoOn
      <4>2. NextRequest(e, q, page.cursor, Keys) \in Requests
        BY <2>3, <2>5, <3>2 DEF NextRequest, Requests
      <4> QED
        BY <4>1, <4>2
    <3> QED
      BY <3>1, <3>2
  <2> QED
    BY <2>6, <2>7 DEF ListingBounds
<1> QED
  BY <1>2, <1>3, <1>4, <1>5 DEF ListingNext

LEMMA ListingTyped == ListingInv /\ ListingBounds => ListingTypeOK
<1> SUFFICES ASSUME ListingInv, ListingBounds PROVE ListingTypeOK
  OBVIOUS
<1>1. rows \subseteq Keys /\ steady \subseteq rows /\ changes \in 0 .. MaxChanges
  BY DEF ListingInv, ListingBounds
<1>2. CASE listing # NoListing
  <2>1. listing \in Readings /\ listing.q \in Requests
    BY <1>2 DEF ListingInv, ListingBounds
  <2> QED
    BY <1>1, <2>1 DEF ListingTypeOK, Readings
<1> QED
  BY <1>1, <1>2 DEF ListingTypeOK

-----------------------------------------------------------------------------
(* THE ESCROW TOOL                                                         *)

Objects == Contacts \cup Hosts \cup Domains \cup NNDNs \cup Nameservers
Commands == [kind : Kinds, object : Objects, rar : Registrars \cup {NoClID}]

Jobs == [at : {"free", "sent", "answered", "counting"},
         command : Commands \cup {NoCommand}, outcome : Outcomes, read : Nat]

\* The steps of an import from the batch of a kind of objects on.
FromLink   == {"link", "save", "finished"}
FromDomain == {"domain", "links"} \cup FromLink
FromHost   == {"host", "domains", "domains truncated"} \cup FromDomain
FromNNDN   == {"nndn", "hosts"} \cup FromHost
FromContact == {"contact", "nndns"} \cup FromNNDN

From(kind) ==
    CASE kind = "contact" -> FromContact
      [] kind = "nndn"    -> FromNNDN
      [] kind = "host"    -> FromHost
      [] kind = "domain"  -> FromDomain
      [] kind = "link"    -> FromLink

Busy(w) == worker[w].at # "free"

ToolTyped ==
    /\ files = [contacts |-> files.contacts, domains |-> files.domains,
                analysis |-> files.analysis]
    /\ files.contacts \in SUBSET Contacts
    /\ tool = [doing |-> tool.doing, step |-> tool.step, used |-> tool.used,
               mapped |-> tool.mapped, errors |-> tool.errors, todo |-> tool.todo,
               commands |-> tool.commands, whole |-> tool.whole,
               answered |-> tool.answered]
    /\ tool.used \in SUBSET Contacts
    /\ worker \in [Workers -> Jobs]
    /\ counted \in [Kinds -> [Outcomes -> Nat]]

\* Commands are those of the batches so far.  The current batch is either
\* still to be taken or with one worker each, or it has been answered.
BatchesInv ==
    /\ tool.commands \in SUBSET Commands
    /\ tool.todo \in SUBSET tool.commands
    /\ \A c \in tool.todo : c.kind = tool.step
    /\ \A w \in Workers : Busy(w) =>
          /\ worker[w].command \in tool.commands \ tool.todo
          /\ worker[w].command.kind = tool.step
    /\ \A v, w \in Workers :
          Busy(v) /\ Busy(w) /\ v # w => worker[v].command # worker[w].command
    /\ tool.doing # "import" /\ tool.step # "refused" => tool.commands = {}
    /\ \A c \in tool.commands : tool.step \in From(c.kind) \cup {"refused"}

\* The commands that are settled: stored, and with no worker.  A counter, and
\* any stale value of it that a worker has read, counts some of them only.
Settled(k) ==
    {c \in tool.commands \ tool.todo :
        /\ c.kind = k /\ RowOf(c) \in stored
        /\ \A w \in Workers : Busy(w) => worker[w].command # c}

Seen(k, o) ==
    {counted[k][o]} \cup
    {worker[w].read : w \in {v \in Workers : /\ worker[v].at = "counting"
                                            /\ worker[v].command.kind = k
                                            /\ worker[v].outcome = o}}

Counted == {"created", "existing"}

StoredWhenCounted ==
    \A w \in Workers :
        worker[w].at \in {"answered", "counting"} /\ worker[w].outcome \in Counted
           => RowOf(worker[w].command) \in stored

Bounded ==
    \A k \in Kinds : \A m \in Seen(k, "created"), n \in Seen(k, "existing") :
        m + n <= Cardinality(Settled(k))

CountersInv == StoredWhenCounted /\ Bounded

\* What an import has to bring in, as commands; and those not answered yet.
Wanted ==
    {Command("contact", c, Sponsor[c]) : c \in ImportableContacts} \cup
    {Command("nndn", n, NoClID) : n \in NNDNs \ Invalid} \cup
    ImportableHosts \cup
    {Command("domain", d, Sponsor[d]) : d \in ImportableDomains} \cup
    {Command("link", l, Sponsor[l[1]]) : l \in ImportableLinks}

Pending(c) ==
    c \in tool.todo \/ \E w \in Workers : worker[w].at = "sent" /\ worker[w].command = c

Excused(c) == c.kind = "link" /\ Unaddressed(c.object)

ImportInv ==
    tool.whole =>
        /\ tool.doing = "import" /\ tool.step \notin {"load", "ids"}
        /\ tool.used = StatusLinked \cap UsedContacts
        /\ tool.step # "domains truncated" => files.domains = Domains
        /\ tool.answered =>
              \A c \in Wanted :
                  tool.step \in From(c.kind) =>
                      RowOf(c) \in stored \/ Pending(c) \/ Excused(c)

EscrowInv == ToolTyped /\ BatchesInv /\ CountersInv

-----------------------------------------------------------------------------
(* Commands.                                                               *)

LEMMA CommandsFinite ==
    ASSUME NEW S \in SUBSET Commands
    PROVE  IsFiniteSet(S) /\ Cardinality(S) \in Nat
<1> DEFINE all == Contacts \cup Hosts \cup Domains \cup NNDNs \cup Registrars
<1>1. IsFiniteSet(all) /\ Nameservers \subseteq Domains \X Hosts
  BY DepositAssumption
<1>2. \A A : A \subseteq all => IsFiniteSet(A)
  BY <1>1, FS_Subset
<1>3. IsFiniteSet(Objects)
  <2>1. IsFiniteSet(Domains) /\ IsFiniteSet(Hosts)
    BY <1>2
  <2>2. IsFiniteSet(Domains \X Hosts)
    BY <2>1, FS_Product
  <2>3. IsFiniteSet(Nameservers)
    BY <1>1, <2>2, FS_Subset
  <2>4. IsFiniteSet(Contacts \cup Hosts \cup Domains \cup NNDNs)
    BY <1>2
  <2> QED
    BY <2>3, <2>4, FS_Union DEF Objects
<1>4. IsFiniteSet(Registrars \cup {NoClID})
  BY <1>2, FS_AddElement
<1>5. IsFiniteSet(Kinds)
  <2>1. \A A, x : IsFiniteSet(A) => IsFiniteSet(A \cup {x})
    BY FS_AddElement
  <2>2. IsFiniteSet({"contact"} \cup {"nndn"} \cup {"host"})
    BY <2>1, FS_Singleton
  <2>3. IsFiniteSet({"contact"} \cup {"nndn"} \cup {"host"} \cup {"domain"} \cup {"link"})
    BY <2>1, <2>2
  <2>4. Kinds = {"contact"} \cup {"nndn"} \cup {"host"} \cup {"domain"} \cup {"link"}
    BY DEF Kinds
  <2> QED
    BY <2>3, <2>4
<1>6. IsFiniteSet(Kinds \X (Objects \X (Registrars \cup {NoClID})))
  BY <1>3, <1>4, <1>5, FS_Product
<1> DEFINE U == Kinds \X (Objects \X (Registrars \cup {NoClID}))
           g == [c \in Commands |-> <<c.kind, <<c.object, c.rar>>>>]
<1>7. g \in Injection(Commands, U)
  BY DEF Injection, IsInjective, Commands
<1>8. IsFiniteSet(Commands)
  BY <1>6, <1>7, FS_Injection
<1>9. IsFiniteSet(S)
  BY <1>8, FS_Subset
<1> QED
  BY <1>9, FS_CardinalityType

LEMMA BatchesAreCommands ==
    ASSUME tool.used \in SUBSET Contacts
    PROVE  /\ ContactCommands \in SUBSET Commands
           /\ HostCommands \in SUBSET Commands
           /\ DuplicateHostCommands(HostCommands) \in SUBSET Commands
           /\ DomainCommands \in SUBSET Commands
           /\ NNDNCommands \in SUBSET Commands
           /\ {Command("link", l, Sponsor[l[1]]) :
                 l \in {m \in Nameservers : m[1] \in files.domains}} \in SUBSET Commands
           /\ \A c \in ContactCommands : c.kind = "contact"
           /\ \A c \in DuplicateHostCommands(HostCommands) : c.kind = "host"
           /\ \A c \in DomainCommands : c.kind = "domain"
           /\ \A c \in NNDNCommands : c.kind = "nndn"
<1>1. /\ \A o \in Contacts \cup Hosts \cup Domains : Sponsor[o] \in Registrars
      /\ \A l \in Nameservers : l[1] \in Domains /\ l[2] \in Hosts
      /\ StatusLinked \subseteq Contacts
  BY DepositAssumption
<1>2. ASSUME NEW k \in Kinds, NEW o \in Objects, NEW r \in Registrars \cup {NoClID}
      PROVE  Command(k, o, r) \in Commands /\ Command(k, o, r).kind = k
  BY DEF Command, Commands
<1>3. /\ ContactCommands \in SUBSET Commands
      /\ \A c \in ContactCommands : c.kind = "contact"
  BY <1>1, <1>2 DEF ContactCommands, LinkedContacts, Kinds, Objects
<1>4. /\ HostCommands \in SUBSET Commands
      /\ \A c \in HostCommands : c.kind = "host"
  BY <1>1, <1>2 DEF HostCommands, Kinds, Objects
<1>5. /\ DomainCommands \in SUBSET Commands
      /\ \A c \in DomainCommands : c.kind = "domain"
  BY <1>1, <1>2 DEF DomainCommands, Kinds, Objects
<1>6. /\ NNDNCommands \in SUBSET Commands
      /\ \A c \in NNDNCommands : c.kind = "nndn"
  BY <1>2 DEF NNDNCommands, Kinds, Objects
<1>7. \A l \in Nameservers :
        /\ Command("host", l[2], Sponsor[l[1]]) \in Commands
        /\ Command("host", l[2], Sponsor[l[1]]).kind = "host"
        /\ Command("link", l, Sponsor[l[1]]) \in Commands
  BY <1>1, <1>2 DEF Kinds, Objects
<1> QED
  BY <1>3, <1>4, <1>5, <1>6, <1>7 DEF DuplicateHostCommands

-----------------------------------------------------------------------------
(* The steps of the tool.                                                  *)

\* Nothing is to be taken, and no worker is at work.
Calm == tool.todo = {} /\ \A w \in Workers : ~Busy(w)

Resets ==
    /\ tool'.todo = {} /\ tool'.commands = {}
    /\ worker' = FreeWorkers /\ counted' = Zeroes /\ stored' = stored

Quiet ==
    /\ Calm /\ tool.step # "refused"
    /\ tool'.todo = {} /\ tool'.commands = tool.commands
    /\ tool'.doing = tool.doing \/ tool'.step = "refused"
    /\ \/ tool'.step = "refused" \/ tool.commands = {}
       \/ \A k \in Kinds : tool.step \in From(k) => tool'.step \in From(k)
    /\ UNCHANGED <<worker, counted, stored>>

Sends(k, cmds) ==
    /\ Calm /\ tool.step # "refused" /\ tool.step \notin From(k)
    /\ tool'.step = k /\ tool.doing = "import" /\ tool'.doing = "import"
    /\ \A j \in Kinds : tool.step \in From(j) => k \in From(j)
    /\ k \in From(k)
    /\ \A c \in cmds : c.kind = k
    /\ tool'.todo = cmds /\ tool'.commands = tool.commands \cup cmds
    /\ UNCHANGED <<worker, counted, stored>>

LEMMA CalmBetweenBatches ==
    ASSUME BatchesInv, tool.step \notin Kinds
    PROVE  Calm
  BY DEF BatchesInv, Calm, Commands, Busy

LEMMA ImportStepMoves ==
    ASSUME EscrowInv, ImportStep
    PROVE  Quiet \/ \E k \in Kinds, cmds \in SUBSET Commands : Sends(k, cmds)
<1> USE DEF From, FromContact, FromNNDN, FromHost, FromDomain, FromLink, Kinds
<1>1. /\ ToolTyped /\ BatchesInv
      /\ tool.step \notin Kinds => Calm
      /\ tool.used \in SUBSET Contacts
  BY CalmBetweenBatches DEF EscrowInv, ToolTyped
<1>2. tool.step \in {"load", "tld"} => tool.commands = {}
  BY <1>1 DEF BatchesInv, Commands
<1>3. ASSUME NEW ignore \in BOOLEAN, LoadDepositAnalysis(ignore) PROVE Quiet
  BY <1>1, <1>2, <1>3 DEF LoadDepositAnalysis, At, Off, Quiet, ToolTyped, Calm
<1>4. CASE LoadUniqueContactIDs
  BY <1>1, <1>4 DEF LoadUniqueContactIDs, At, Quiet, ToolTyped, Calm
<1>5. ASSUME NEW allowed \in BOOLEAN, CheckTLD(allowed) PROVE Quiet
  BY <1>1, <1>2, <1>5 DEF CheckTLD, At, GoTo, Off, Quiet, ToolTyped, Calm
<1>6. CASE ExtractContacts
  <2>1. CASE At("import", "contacts truncated")
    <3>1. Send(ContactCommands, "contact") /\ UNCHANGED <<stored, worker, counted>>
      BY <1>6, <2>1 DEF ExtractContacts, CreateContacts, At
    <3>2. Sends("contact", ContactCommands)
      BY <1>1, <2>1, <3>1, BatchesAreCommands DEF Send, Sends, At, ToolTyped
    <3> QED
      BY <1>1, <3>2, BatchesAreCommands
  <2>2. CASE At("import", "contacts")
    BY <1>1, <1>6, <2>2
       DEF ExtractContacts, OpenContacts, At, GoTo, Quiet, ToolTyped, Calm
  <2> QED
    BY <1>6, <2>1, <2>2 DEF ExtractContacts
<1>7. CASE ExtractNNDNS
  <2>1. At("import", "nndns") /\ UNCHANGED <<stored, worker, counted>>
    BY <1>7 DEF ExtractNNDNS
  <2>2. CASE Send(NNDNCommands, "nndn")
    <3>1. Sends("nndn", NNDNCommands)
      BY <1>1, <2>1, <2>2, BatchesAreCommands DEF Send, Sends, At, ToolTyped
    <3> QED
      BY <1>1, <3>1, BatchesAreCommands
  <2>3. CASE GoTo("hosts")
    BY <1>1, <2>1, <2>3 DEF At, GoTo, Quiet, ToolTyped, Calm
  <2> QED
    BY <1>7, <2>2, <2>3 DEF ExtractNNDNS, CreateNNDNs
<1>8. CASE ExtractHosts
  <2> DEFINE cmds == DuplicateHostCommands(HostCommands)
  <2>1. At("import", "hosts") /\ UNCHANGED <<stored, worker, counted>>
    BY <1>8 DEF ExtractHosts
  <2>2. cmds \in SUBSET Commands /\ \A c \in cmds : c.kind = "host"
    BY <1>1, BatchesAreCommands
  <2>3. CASE Send(cmds, "host")
    <3> HIDE DEF cmds
    <3>1. Sends("host", cmds)
      BY <1>1, <2>1, <2>2, <2>3 DEF Send, Sends, At, ToolTyped
    <3> QED
      BY <2>2, <3>1
  <2>4. CASE GoTo("domains")
    BY <1>1, <2>1, <2>4 DEF At, GoTo, Quiet, ToolTyped, Calm
  <2> QED
    BY <1>8, <2>3, <2>4 DEF ExtractHosts, CreateHosts
<1>9. CASE ExtractDomains
  <2>1. CASE At("import", "domains truncated")
    <3>1. Send(DomainCommands, "domain") /\ UNCHANGED <<stored, worker, counted>>
      BY <1>9, <2>1 DEF ExtractDomains, CreateDomains, At
    <3>2. Sends("domain", DomainCommands)
      BY <1>1, <2>1, <3>1, BatchesAreCommands DEF Send, Sends, At, ToolTyped
    <3> QED
      BY <1>1, <3>2, BatchesAreCommands
  <2>2. CASE At("import", "domains")
    BY <1>1, <1>9, <2>2
       DEF ExtractDomains, OpenDomains, At, GoTo, Quiet, ToolTyped, Calm
  <2> QED
    BY <1>9, <2>1, <2>2 DEF ExtractDomains
<1>10. CASE LinkHostsToDomains
  <2> DEFINE cmds == {Command("link", l, Sponsor[l[1]]) :
                        l \in {m \in Nameservers : m[1] \in files.domains}}
  <2>1. At("import", "links") /\ UNCHANGED <<stored, worker, counted>>
    BY <1>10 DEF LinkHostsToDomains
  <2>2. cmds \in SUBSET Commands /\ \A c \in cmds : c.kind = "link"
    BY <1>1, BatchesAreCommands DEF Command
  <2>3. CASE Send(cmds, "link")
    <3> HIDE DEF cmds
    <3>1. Sends("link", cmds)
      BY <1>1, <2>1, <2>2, <2>3 DEF Send, Sends, At, ToolTyped
    <3> QED
      BY <2>2, <3>1
  <2>4. CASE GoTo("save")
    BY <1>1, <2>1, <2>4 DEF At, GoTo, Quiet, ToolTyped, Calm
  <2> QED
    BY <1>10, <2>3, <2>4 DEF LinkHostsToDomains
<1>11. CASE SaveImportResult
  BY <1>1, <1>11 DEF SaveImportResult, At, GoTo, Quiet, ToolTyped, Calm
<1>12. CASE WaitGroupDone
  <2>1. Calm
    BY <1>12 DEF WaitGroupDone, Drained, Calm, Busy
  <2>2. /\ tool'.todo = {} /\ tool'.commands = tool.commands
        /\ tool'.doing = tool.doing /\ tool'.step = After(tool.step)
        /\ UNCHANGED <<worker, counted, stored>>
    BY <1>1, <1>12, <2>1 DEF WaitGroupDone, GoTo, ToolTyped, Calm
  <2>3. \A k \in Kinds : tool.step \in From(k) => After(tool.step) \in From(k)
    BY <1>12 DEF WaitGroupDone, After
  <2>4. tool.step # "refused"
    BY <1>12 DEF WaitGroupDone
  <2> QED
    BY <2>1, <2>2, <2>3, <2>4 DEF Quiet
<1> QED
  BY <1>3, <1>4, <1>5, <1>6, <1>7, <1>8, <1>9, <1>10, <1>11, <1>12 DEF ImportStep

LEMMA OtherStepMoves ==
    ASSUME EscrowInv, StartAnalysis \/ StartImport \/ ToolDies \/ ReadFails \/ AnalysisStep
    PROVE  Resets \/ Quiet
<1> USE DEF From, FromContact, FromNNDN, FromHost, FromDomain, FromLink, Kinds
<1>1. /\ ToolTyped /\ BatchesInv
      /\ tool.step \notin Kinds => Calm
  BY CalmBetweenBatches DEF EscrowInv
<1>2. CASE StartAnalysis \/ StartImport \/ ToolDies
  BY <1>1, <1>2 DEF StartAnalysis, StartImport, StartTool, ToolDies, Off, Resets
<1>3. CASE ReadFails
  BY <1>1, <1>3 DEF ReadFails, Off, Quiet, Calm
<1>4. CASE AnalysisStep
  <2>1. tool.doing = "analysis" /\ tool.step \notin Kinds \cup {"refused"}
    BY <1>4 DEF AnalysisStep, AnalyzeTags, AnalyzeDomains, AnalyzeContacts,
                MapRegistrars, SaveAnalysis, At
  <2>2. Calm /\ tool.commands = {}
    BY <1>1, <2>1 DEF BatchesInv
  <2>3. UNCHANGED <<worker, counted, stored>>
    BY <1>4 DEF AnalysisStep, AnalyzeTags, AnalyzeDomains, AnalyzeContacts,
                MapRegistrars, SaveAnalysis
  <2>4. /\ tool'.doing = tool.doing /\ tool'.todo = tool.todo
        /\ tool'.commands = tool.commands
    BY <1>1, <1>4
       DEF AnalysisStep, AnalyzeTags, AnalyzeDomains, AnalyzeContacts,
           MapRegistrars, SaveAnalysis, GoTo, OpenDomains, OpenContacts, ToolTyped
  <2> QED
    BY <2>1, <2>2, <2>3, <2>4 DEF Quiet, Calm
<1> QED
  BY <1>2, <1>3, <1>4

-----------------------------------------------------------------------------
(* The steps of the workers.                                               *)

\* The call of a worker has an outcome.
Served(w, o) ==
    LET c == worker[w].command IN
    /\ worker[w].at = "sent"
    /\ o \in Outcomes \cup {"uncounted"}
    /\ worker' = [worker EXCEPT ![w] = Counting(w, c, o)]
    /\ stored \subseteq stored'
    /\ o \in {"created", "existing"} => RowOf(c) \in stored'
    /\ tool'.doing = tool.doing /\ tool'.step = tool.step
    /\ tool'.todo = tool.todo /\ tool'.commands = tool.commands
    /\ UNCHANGED counted

LEMMA CallOutcomes ==
    ASSUME NEW c \in Commands
    PROVE  /\ Outcome(c, Answer(c)) \in Outcomes \cup {"uncounted"}
           /\ Outcome(c, Answer(c)) \in {"created", "existing"} =>
                 RowOf(c) \in Stores(c)
           /\ Outcome(c, "error") \in {"failed", "uncounted"}
           /\ Outcome(c, "none") \in {"failed", "uncounted"}
<1>1. c.kind \in Kinds
  BY DEF Commands
<1>2. Answer(c) \in {"created", "refused"} \/ (c.kind # "link" /\ Answer(c) = "duplicate")
  BY DEF Answer
<1>3. Answer(c) # "refused" => RowOf(c) \in Stores(c)
  BY DEF Answer, Stores, Rows
<1> HIDE DEF Answer
<1>4. Outcome(c, "refused") = "failed"
  BY <1>1 DEF Kinds, Outcome, createContact, createHost, createDomain, createNNDN,
              linkHostToDomain
<1>5. Outcome(c, "created") = "created"
  BY <1>1 DEF Kinds, Outcome, createContact, createHost, createDomain, createNNDN,
              linkHostToDomain
<1>6. c.kind # "link" => Outcome(c, "duplicate") = "existing"
  BY <1>1 DEF Kinds, Outcome, createContact, createHost, createDomain, createNNDN
<1>7. Outcome(c, "error") \in {"failed", "uncounted"}
  BY <1>1 DEF Kinds, Outcome, createContact, createHost, createDomain, createNNDN,
              linkHostToDomain
<1>8. Outcome(c, "none") \in {"failed", "uncounted"}
  BY <1>1 DEF Kinds, Outcome, createContact, createHost, createDomain, createNNDN,
              linkHostToDomain
<1> QED
  BY <1>2, <1>3, <1>4, <1>5, <1>6, <1>7, <1>8 DEF Outcomes

LEMMA BusyCommand ==
    ASSUME EscrowInv, NEW w \in Workers, Busy(w)
    PROVE  /\ worker[w].command \in Commands
           /\ worker[w].command.kind \in Kinds
           /\ worker[w].command.kind = tool.step
  BY DEF EscrowInv, BatchesInv, Commands

LEMMA RepliesServe ==
    ASSUME EscrowInv, NEW w \in Workers,
           Reply(w) \/ ServerError(w) \/ NoAnswer(w)
    PROVE  \E o : Served(w, o)
<1> DEFINE c == worker[w].command
<1>1. worker[w].at = "sent" /\ UNCHANGED <<files, counted, runs>>
  BY DEF Reply, ServerError, NoAnswer, Fails
<1>2. c \in Commands
  BY <1>1, BusyCommand DEF Busy
<1>3. stored \subseteq Stores(c)
  BY DEF Stores
<1>4. /\ tool'.doing = tool.doing /\ tool'.step = tool.step
      /\ tool'.todo = tool.todo /\ tool'.commands = tool.commands
  BY DEF EscrowInv, ToolTyped, Reply, ServerError, NoAnswer, Fails
<1>5. CASE Reply(w)
  <2>1. Served(w, Outcome(c, Answer(c)))
    BY <1>1, <1>2, <1>3, <1>4, <1>5, CallOutcomes DEF Reply, Served
  <2> QED
    BY <2>1
<1>6. CASE ServerError(w)
  <2>1. stored \subseteq stored'
    BY <1>3, <1>6 DEF ServerError, Fails
  <2>2. Served(w, Outcome(c, "error"))
    BY <1>1, <1>2, <1>4, <1>6, <2>1, CallOutcomes DEF ServerError, Fails, Served, Outcomes
  <2> QED
    BY <2>2
<1>7. CASE NoAnswer(w)
  <2>1. stored \subseteq stored'
    BY <1>3, <1>7 DEF NoAnswer, Fails
  <2>2. Served(w, Outcome(c, "none"))
    BY <1>1, <1>2, <1>4, <1>7, <2>1, CallOutcomes DEF NoAnswer, Fails, Served, Outcomes
  <2> QED
    BY <2>2
<1> QED
  BY <1>5, <1>6, <1>7

LEMMA CountingTyped ==
    ASSUME NEW w \in Workers, NEW c \in Commands,
           NEW o \in Outcomes \cup {"uncounted"}
    PROVE  /\ Counting(w, c, o) \in Jobs /\ FreeWorkers[w] \in Jobs
           /\ o \in Outcomes => Counting(w, c, o) =
                 [at |-> "answered", command |-> c, outcome |-> o, read |-> 0]
           /\ o \notin Outcomes => Counting(w, c, o).at = "free"
           /\ FreeWorkers[w].at = "free"
  BY DEF Counting, FreeWorkers, Jobs, Outcomes

LEMMA TypedStep ==
    ASSUME EscrowInv, EscrowNext
    PROVE  ToolTyped'
<1>1. ToolTyped /\ BatchesInv
  BY DEF EscrowInv
<1>2. FreeWorkers \in [Workers -> Jobs] /\ Zeroes \in [Kinds -> [Outcomes -> Nat]]
  BY DEF FreeWorkers, Zeroes, Jobs, Outcomes
<1>3. LinkedContacts \in SUBSET Contacts /\ UsedContacts \in SUBSET Contacts
  BY DepositAssumption DEF LinkedContacts, UsedContacts
<1>4. CASE StartAnalysis \/ StartImport
  BY <1>1, <1>2, <1>4 DEF StartAnalysis, StartImport, StartTool, Off, ToolTyped
<1>5. CASE ToolDies
  BY <1>1, <1>2, <1>3, <1>5 DEF ToolDies, Off, ToolTyped
<1>6. CASE ReadFails
  BY <1>1, <1>6 DEF ReadFails, Off, ToolTyped
<1>7. CASE AnalysisStep
  <2>1. CASE AnalyzeTags
    BY <1>1, <2>1 DEF AnalyzeTags, GoTo, ToolTyped
  <2>2. CASE AnalyzeDomains
    <3>1. CASE At("analysis", "domains") /\ OpenDomains
      BY <1>1, <2>2, <3>1 DEF AnalyzeDomains, OpenDomains, GoTo, ToolTyped
    <3>2. CASE At("analysis", "domains truncated")
      <4>1. /\ files' = [files EXCEPT !.domains = Domains]
            /\ worker' = worker /\ counted' = counted
            /\ \E err : tool' = [tool EXCEPT !.used = @ \cup UsedContacts,
                                             !.step = "contacts", !.errors = err]
        BY <2>2, <3>2 DEF AnalyzeDomains, At
      <4> QED
        BY <1>1, <1>3, <4>1 DEF ToolTyped
    <3> QED
      BY <2>2, <3>1, <3>2 DEF AnalyzeDomains
  <2>3. CASE AnalyzeContacts
    BY <1>1, <1>3, <2>3 DEF AnalyzeContacts, OpenContacts, GoTo, ToolTyped
  <2>4. ASSUME NEW asked, NEW unanswered, MapRegistrars(asked, unanswered)
        PROVE  ToolTyped'
    BY <1>1, <2>4 DEF MapRegistrars, ToolTyped
  <2>5. CASE SaveAnalysis
    BY <1>1, <2>5 DEF SaveAnalysis, GoTo, ToolTyped
  <2> QED
    BY <1>7, <2>1, <2>2, <2>3, <2>4, <2>5 DEF AnalysisStep
<1>8. CASE ImportStep
  <2>1. /\ worker' = worker /\ counted' = counted
        /\ files' \in {files, [files EXCEPT !.contacts = {}],
                       [files EXCEPT !.contacts = LinkedContacts],
                       [files EXCEPT !.domains = {}], [files EXCEPT !.domains = Domains]}
    BY <1>8
       DEF ImportStep, LoadDepositAnalysis, LoadUniqueContactIDs, CheckTLD,
           ExtractContacts, ExtractNNDNS, ExtractHosts, ExtractDomains,
           LinkHostsToDomains, SaveImportResult, WaitGroupDone, OpenContacts,
           OpenDomains
  <2>2. /\ files' = [contacts |-> files'.contacts, domains |-> files'.domains,
                     analysis |-> files'.analysis]
        /\ files'.contacts \in SUBSET Contacts
    BY <1>1, <1>3, <2>1 DEF ToolTyped
  <2> DEFINE Tool(t) ==
        /\ t = [doing |-> t.doing, step |-> t.step, used |-> t.used,
                mapped |-> t.mapped, errors |-> t.errors, todo |-> t.todo,
                commands |-> t.commands, whole |-> t.whole, answered |-> t.answered]
        /\ t.used \in SUBSET Contacts
  <2>3. Tool(tool)
    BY <1>1 DEF ToolTyped
  <2>4. ASSUME NEW x, GoTo(x) PROVE Tool(tool')
    BY <2>3, <2>4 DEF GoTo
  <2>5. ASSUME NEW x, NEW cmds, Send(cmds, x) PROVE Tool(tool')
    BY <2>3, <2>5 DEF Send
  <2>6. ASSUME tool' = [Off EXCEPT !.step = "refused"] PROVE Tool(tool')
    BY <2>6 DEF Off
  <2>7. ASSUME NEW ignore, LoadDepositAnalysis(ignore) PROVE Tool(tool')
    <3>1. CASE tool' = [tool EXCEPT !.mapped = files.analysis.mapped, !.step = "ids"]
      BY <2>3, <3>1
    <3> QED
      BY <2>6, <2>7, <3>1 DEF LoadDepositAnalysis
  <2>8. ASSUME LoadUniqueContactIDs PROVE Tool(tool')
    BY <1>1, <2>3, <2>8 DEF LoadUniqueContactIDs, ToolTyped
  <2> HIDE DEF Tool
  <2>9. Tool(tool')
    <3>1. ASSUME NEW allowed, CheckTLD(allowed) PROVE Tool(tool')
      BY <2>4, <2>6, <3>1 DEF CheckTLD
    <3>2. CASE ExtractContacts
      BY <2>4, <2>5, <3>2 DEF ExtractContacts, OpenContacts, CreateContacts
    <3>3. CASE ExtractNNDNS
      BY <2>4, <2>5, <3>3 DEF ExtractNNDNS, CreateNNDNs
    <3>4. CASE ExtractHosts
      BY <2>4, <2>5, <3>4 DEF ExtractHosts, CreateHosts
    <3>5. CASE ExtractDomains
      BY <2>4, <2>5, <3>5 DEF ExtractDomains, OpenDomains, CreateDomains
    <3>6. CASE LinkHostsToDomains
      BY <2>4, <2>5, <3>6 DEF LinkHostsToDomains
    <3>7. CASE SaveImportResult
      BY <2>4, <3>7 DEF SaveImportResult
    <3>8. CASE WaitGroupDone
      BY <2>4, <3>8 DEF WaitGroupDone
    <3>9. CASE \E ignore \in BOOLEAN : LoadDepositAnalysis(ignore)
      BY <2>7, <3>9
    <3>10. CASE \E allowed \in BOOLEAN : CheckTLD(allowed)
      BY <3>1, <3>10
    <3> QED
      BY <1>8, <2>8, <3>2, <3>3, <3>4, <3>5, <3>6, <3>7, <3>8, <3>9, <3>10, Zenon
         DEF ImportStep
  <2> QED
    BY <1>1, <2>1, <2>2, <2>9 DEF ToolTyped, Tool
<1>9. ASSUME NEW w \in Workers, WorkerStep(w) PROVE ToolTyped'
  <2> DEFINE c == worker[w].command
  <2>1. worker[w] \in Jobs
    BY <1>1 DEF ToolTyped
  <2>2. ASSUME NEW d \in tool.todo, Take(w, d) PROVE ToolTyped'
    <3>1. d \in Commands
      BY <1>1 DEF BatchesInv
    <3>2. /\ Counting(w, d, "failed") \in Jobs
          /\ [worker[w] EXCEPT !.at = "sent", !.command = d] \in Jobs
      BY <2>1, <3>1, CountingTyped DEF Outcomes, Jobs
    <3>3. worker' \in [Workers -> Jobs]
      BY <1>1, <2>2, <3>2 DEF Take, ToolTyped
    <3> QED
      BY <1>1, <2>2, <3>3 DEF Take, ToolTyped
  <2>3. CASE Reply(w) \/ ServerError(w) \/ NoAnswer(w)
    <3>1. PICK o : Served(w, o)
      BY <2>3, RepliesServe
    <3>2. Counting(w, c, o) \in Jobs
      BY <3>1, BusyCommand, CountingTyped DEF Served, Busy
    <3>3. worker' \in [Workers -> Jobs]
      BY <1>1, <3>1, <3>2 DEF Served, ToolTyped
    <3> QED
      BY <1>1, <2>3, <3>3 DEF Reply, ServerError, NoAnswer, Fails, ToolTyped
  <2>4. CASE ReadCounter(w)
    <3>1. c.kind \in Kinds /\ worker[w].outcome \in Outcomes
      BY <2>1, <2>4, BusyCommand DEF ReadCounter, Busy, Jobs
    <3>2. counted[c.kind][worker[w].outcome] \in Nat
      BY <1>1, <3>1 DEF ToolTyped
    <3> DEFINE n == counted[c.kind][worker[w].outcome]
    <3>3. worker' = [worker EXCEPT ![w] = [worker[w] EXCEPT !.at = "counting", !.read = n]]
      BY <1>1, <2>4 DEF ReadCounter, ToolTyped
    <3>4. [worker[w] EXCEPT !.at = "counting", !.read = n] \in Jobs
      BY <2>1, <3>2 DEF Jobs
    <3> QED
      BY <1>1, <2>4, <3>3, <3>4 DEF ReadCounter, ToolTyped
  <2>5. CASE WriteCounter(w)
    <3>1. FreeWorkers[w] \in Jobs
      BY <1>2
    <3>2. counted' \in [Kinds -> [Outcomes -> Nat]]
      <4>1. worker[w].read + 1 \in Nat
        BY <2>1 DEF Jobs
      <4>2. c.kind \in Kinds /\ worker[w].outcome \in Outcomes
        BY <2>1, <2>5, BusyCommand DEF WriteCounter, Busy, Jobs
      <4>3. counted' = [counted EXCEPT ![c.kind] =
                          [counted[c.kind] EXCEPT ![worker[w].outcome] = worker[w].read + 1]]
        BY <1>1, <2>5, <4>2 DEF WriteCounter, ToolTyped
      <4> QED
        BY <1>1, <4>1, <4>2, <4>3 DEF ToolTyped
    <3> QED
      BY <1>1, <2>5, <3>1, <3>2 DEF WriteCounter, ToolTyped
  <2> QED
    BY <1>9, <2>2, <2>3, <2>4, <2>5 DEF WorkerStep
<1> QED
  BY <1>4, <1>5, <1>6, <1>7, <1>8, <1>9 DEF EscrowNext, ToolStep

-----------------------------------------------------------------------------
(* Batches.                                                                *)

LEMMA MovesKeepBatches ==
    ASSUME BatchesInv,
           \/ Resets \/ Quiet
           \/ \E k \in Kinds, cmds \in SUBSET Commands : Sends(k, cmds)
    PROVE  BatchesInv'
<1>1. CASE Resets
  BY <1>1 DEF Resets, BatchesInv, Busy, FreeWorkers
<1>2. CASE Quiet
  BY <1>2 DEF Quiet, Calm, BatchesInv, Busy, Commands
<1>3. ASSUME NEW k \in Kinds, NEW cmds \in SUBSET Commands, Sends(k, cmds)
      PROVE  BatchesInv'
  BY <1>3 DEF Sends, Calm, BatchesInv, Busy, Commands
<1> QED
  BY <1>1, <1>2, <1>3

\* Workers keep what they do, all but one.
OthersKeep(w) ==
    /\ worker' \in [Workers -> Jobs]
    /\ \A v \in Workers \ {w} : worker'[v] = worker[v]

LEMMA WorkerStepShape ==
    ASSUME EscrowInv, ToolTyped', NEW w \in Workers, WorkerStep(w)
    PROVE  OthersKeep(w)
<1>1. ASSUME NEW x, worker' = [worker EXCEPT ![w] = x] PROVE OthersKeep(w)
  BY <1>1 DEF EscrowInv, ToolTyped, OthersKeep
<1>2. \E x : worker' = [worker EXCEPT ![w] = x]
  <2>1. ASSUME NEW c, Take(w, c) PROVE \E x : worker' = [worker EXCEPT ![w] = x]
    BY <2>1 DEF Take
  <2>2. CASE Reply(w) \/ ServerError(w) \/ NoAnswer(w)
    BY <2>2, RepliesServe DEF Served
  <2>3. CASE ReadCounter(w)
    <3>1. worker' = [worker EXCEPT ![w] = [worker[w] EXCEPT !.at = "counting",
              !.read = counted[worker[w].command.kind][worker[w].outcome]]]
      BY <2>3 DEF ReadCounter, EscrowInv, ToolTyped
    <3> QED
      BY <3>1
  <2>4. CASE WriteCounter(w)
    BY <2>4 DEF WriteCounter
  <2> QED
    BY <2>1, <2>2, <2>3, <2>4 DEF WorkerStep
<1> QED
  BY <1>1, <1>2

LEMMA WorkersKeepBatches ==
    ASSUME EscrowInv, ToolTyped', NEW w \in Workers, WorkerStep(w)
    PROVE  BatchesInv'
<1>1. BatchesInv /\ ToolTyped /\ OthersKeep(w)
  BY WorkerStepShape DEF EscrowInv
<1>2. ASSUME NEW c \in tool.todo, Take(w, c) PROVE BatchesInv'
  <2>1. /\ tool'.todo = tool.todo \ {c} /\ tool'.commands = tool.commands
        /\ tool'.step = tool.step /\ tool'.doing = tool.doing
    BY <1>1, <1>2 DEF Take, ToolTyped
  <2>2. /\ c \in Commands
        /\ worker'[w] = IF Unsendable(c) THEN Counting(w, c, "failed")
                        ELSE [worker[w] EXCEPT !.at = "sent", !.command = c]
    BY <1>1, <1>2 DEF Take, ToolTyped, BatchesInv
  <2>3. worker'[w].command = c
    BY <1>1, <2>2, CountingTyped DEF Outcomes, Jobs, ToolTyped
  <2>4. ASSUME NEW v \in Workers \ {w}, Busy(v)
        PROVE  worker[v].command # c /\ worker'[v] = worker[v]
    BY <1>1, <2>4 DEF BatchesInv, OthersKeep
  <2>5. c \in tool.commands /\ c.kind = tool.step
    BY <1>1 DEF BatchesInv
  <2> DEFINE job(v) == worker'[v].command
  <2>6. ASSUME NEW v \in Workers, worker'[v].at # "free"
        PROVE  job(v) \in tool'.commands \ tool'.todo /\ job(v).kind = tool'.step
    <3>1. CASE v = w
      BY <2>1, <2>3, <2>5, <3>1
    <3>2. CASE v # w
      BY <1>1, <2>1, <2>6, <3>2 DEF BatchesInv, Busy, OthersKeep
    <3> QED
      BY <3>1, <3>2
  <2>7. ASSUME NEW u \in Workers, NEW v \in Workers, u # v,
               worker'[u].at # "free", worker'[v].at # "free"
        PROVE  job(u) # job(v)
    <3>1. CASE u = w
      BY <1>1, <2>3, <2>4, <2>7, <3>1 DEF Busy, OthersKeep
    <3>2. CASE v = w
      BY <1>1, <2>3, <2>4, <2>7, <3>2 DEF Busy, OthersKeep
    <3>3. CASE u # w /\ v # w
      BY <1>1, <2>7, <3>3 DEF BatchesInv, Busy, OthersKeep
    <3> QED
      BY <3>1, <3>2, <3>3
  <2> QED
    BY <1>1, <2>1, <2>6, <2>7 DEF BatchesInv, Busy
<1>3. ASSUME Busy(w), Busy(w)' => worker'[w].command = worker[w].command,
             tool'.todo = tool.todo, tool'.commands = tool.commands,
             tool'.step = tool.step, tool'.doing = tool.doing
      PROVE  BatchesInv'
  BY <1>1, <1>3 DEF BatchesInv, Busy, OthersKeep
<1>4. CASE Reply(w) \/ ServerError(w) \/ NoAnswer(w)
  <2>1. PICK o : Served(w, o)
    BY <1>4, RepliesServe
  <2>2. Busy(w) /\ worker[w].command \in Commands
    BY <2>1, BusyCommand DEF Served, Busy
  <2>3. worker'[w] = Counting(w, worker[w].command, o)
    BY <1>1, <2>1 DEF Served, ToolTyped
  <2>4. Busy(w)' => worker'[w].command = worker[w].command
    BY <2>1, <2>2, <2>3, CountingTyped DEF Served, Busy
  <2> QED
    BY <1>3, <2>1, <2>2, <2>4 DEF Served
<1>5. CASE ReadCounter(w)
  <2>1. worker'[w].command = worker[w].command /\ Busy(w)
    BY <1>1, <1>5 DEF ReadCounter, ToolTyped, Jobs, Busy
  <2> QED
    BY <1>3, <1>5, <2>1 DEF ReadCounter
<1>6. CASE WriteCounter(w)
  <2>1. Busy(w) /\ ~Busy(w)'
    BY <1>1, <1>6 DEF WriteCounter, ToolTyped, Busy, FreeWorkers
  <2> QED
    BY <1>3, <1>6, <2>1 DEF WriteCounter
<1> QED
  BY <1>2, <1>4, <1>5, <1>6 DEF WorkerStep

-----------------------------------------------------------------------------
(* Counters.                                                               *)

LEMMA SettledFinite ==
    ASSUME BatchesInv, NEW k
    PROVE  /\ Settled(k) \in SUBSET Commands
           /\ IsFiniteSet(Settled(k)) /\ Cardinality(Settled(k)) \in Nat
<1>1. Settled(k) \in SUBSET Commands
  BY DEF BatchesInv, Settled
<1> QED
  BY <1>1, CommandsFinite

LEMMA SeenAreNumbers ==
    ASSUME ToolTyped, NEW k \in Kinds, NEW o \in Outcomes
    PROVE  Seen(k, o) \in SUBSET Nat
<1>1. counted[k][o] \in Nat /\ \A w \in Workers : worker[w].read \in Nat
  BY DEF ToolTyped, Jobs
<1> QED
  BY <1>1 DEF Seen

\* Commands settle, and no counter or read value is new.
LEMMA BoundedStays ==
    ASSUME ToolTyped, BatchesInv, BatchesInv', Bounded,
           \A k \in Kinds : /\ Settled(k) \subseteq Settled(k)'
                            /\ \A o \in Counted : Seen(k, o)' \subseteq Seen(k, o)
    PROVE  Bounded'
<1> SUFFICES ASSUME NEW k \in Kinds, NEW m \in Seen(k, "created")',
                    NEW n \in Seen(k, "existing")'
             PROVE  m + n <= Cardinality(Settled(k)')
  BY DEF Bounded
<1>1. m \in Seen(k, "created") /\ n \in Seen(k, "existing")
  BY DEF Counted
<1>2. m + n <= Cardinality(Settled(k)) /\ m \in Nat /\ n \in Nat
  BY <1>1, SeenAreNumbers DEF Bounded, Outcomes
<1>3. /\ Cardinality(Settled(k)) \in Nat
      /\ IsFiniteSet(Settled(k)') /\ Cardinality(Settled(k)') \in Nat
  <2>1. Settled(k)' \in SUBSET Commands
    BY DEF BatchesInv, Settled
  <2> QED
    BY <2>1, SettledFinite, CommandsFinite
<1>4. Cardinality(Settled(k)) <= Cardinality(Settled(k)')
  BY <1>3, FS_Subset
<1> QED
  BY <1>2, <1>3, <1>4

LEMMA MovesKeepCounters ==
    ASSUME EscrowInv, BatchesInv',
           \/ Resets \/ Quiet
           \/ \E k \in Kinds, cmds \in SUBSET Commands : Sends(k, cmds)
    PROVE  CountersInv'
<1>1. ToolTyped /\ BatchesInv /\ StoredWhenCounted /\ Bounded
  BY DEF EscrowInv, CountersInv
<1>2. ASSUME UNCHANGED <<worker, counted, stored>>,
             \A k \in Kinds : Settled(k) \subseteq Settled(k)'
      PROVE  CountersInv'
  <2>1. StoredWhenCounted'
    BY <1>1, <1>2 DEF StoredWhenCounted, RowOf
  <2>2. \A k \in Kinds : \A o \in Counted : Seen(k, o)' \subseteq Seen(k, o)
    BY <1>2 DEF Seen
  <2>3. Bounded'
    BY <1>1, <1>2, <2>2, BoundedStays
  <2> QED
    BY <2>1, <2>3 DEF CountersInv
<1>3. CASE Resets
  <2>1. StoredWhenCounted'
    BY <1>3 DEF Resets, StoredWhenCounted, FreeWorkers
  <2>2. ASSUME NEW k \in Kinds PROVE Settled(k)' = {}
    BY <1>3 DEF Resets, Settled
  <2>3. ASSUME NEW k \in Kinds, NEW o \in Counted PROVE Seen(k, o)' = {0}
    BY <1>3, <2>3 DEF Resets, Seen, FreeWorkers, Zeroes, Counted, Outcomes
  <2>4. Bounded'
    <3>1. ASSUME NEW k \in Kinds, NEW m \in Seen(k, "created")',
                 NEW n \in Seen(k, "existing")'
          PROVE  m + n <= Cardinality(Settled(k)')
      BY <2>2, <2>3, FS_EmptySet DEF Counted
    <3> QED
      BY <3>1 DEF Bounded
  <2> QED
    BY <2>1, <2>4 DEF CountersInv
<1>4. CASE Quiet
  <2>1. ASSUME NEW j \in Kinds, NEW c \in Settled(j) PROVE c \in Settled(j)'
    <3>1. c \in tool.commands /\ c.kind = j /\ RowOf(c) \in stored
      BY DEF Settled
    <3>2. c \in tool'.commands \ tool'.todo /\ RowOf(c)' = RowOf(c)
      BY <1>4, <3>1 DEF Quiet, RowOf
    <3> QED
      BY <1>4, <3>1, <3>2 DEF Quiet, Calm, Settled, Busy
  <2> QED
    BY <1>2, <1>4, <2>1 DEF Quiet
<1>5. ASSUME NEW k \in Kinds, NEW cmds \in SUBSET Commands, Sends(k, cmds)
      PROVE  CountersInv'
  <2>1. ASSUME NEW j \in Kinds, NEW c \in Settled(j) PROVE c \in Settled(j)'
    <3>1. c \in tool.commands /\ c.kind = j /\ RowOf(c) \in stored
      BY DEF Settled
    <3>2. c \notin cmds
      BY <1>1, <1>5, <3>1 DEF Sends, BatchesInv
    <3>3. c \in tool'.commands \ tool'.todo
      BY <1>5, <3>1, <3>2 DEF Sends
    <3>4. RowOf(c)' = RowOf(c)
      BY DEF RowOf
    <3> QED
      BY <1>5, <3>1, <3>3, <3>4 DEF Sends, Settled, Busy
  <2> QED
    BY <1>2, <1>5, <2>1 DEF Sends
<1> QED
  BY <1>3, <1>4, <1>5

\* A command that is settled stays so, as long as it is not taken.
LEMMA SettledStay ==
    ASSUME EscrowInv, NEW w \in Workers, OthersKeep(w),
           stored \subseteq stored', tool'.commands = tool.commands,
           tool'.todo \subseteq tool.todo,
           worker'[w].at # "free" => \/ worker'[w].command \in tool.todo
                                     \/ Busy(w) /\ worker'[w].command = worker[w].command,
           NEW k
    PROVE  Settled(k) \subseteq Settled(k)'
<1> SUFFICES ASSUME NEW c \in Settled(k) PROVE c \in Settled(k)'
  OBVIOUS
<1>1. /\ c \in tool.commands \ tool.todo /\ c.kind = k /\ RowOf(c) \in stored
      /\ \A v \in Workers : Busy(v) => worker[v].command # c
  BY DEF Settled
<1>2. ASSUME NEW v \in Workers, worker'[v].at # "free" PROVE worker'[v].command # c
  BY <1>1, <1>2 DEF OthersKeep, Busy
<1>3. RowOf(c)' = RowOf(c)
  BY DEF RowOf
<1> QED
  BY <1>1, <1>2, <1>3 DEF Settled, Busy

\* Counters that are left alone, and no new value read.
LEMMA SeenStay ==
    ASSUME EscrowInv, NEW w \in Workers, OthersKeep(w), counted' = counted,
           worker'[w].at # "counting", NEW k, NEW o
    PROVE  Seen(k, o)' \subseteq Seen(k, o)
  BY DEF Seen, OthersKeep

LEMMA WorkersKeepCounters ==
    ASSUME EscrowInv, ToolTyped', BatchesInv', NEW w \in Workers, WorkerStep(w)
    PROVE  CountersInv'
<1> DEFINE c == worker[w].command
           o == worker[w].outcome
<1>1. /\ ToolTyped /\ BatchesInv /\ StoredWhenCounted /\ Bounded
      /\ OthersKeep(w) /\ worker[w] \in Jobs
  BY WorkerStepShape DEF EscrowInv, CountersInv, ToolTyped
<1>2. ASSUME stored \subseteq stored',
             worker'[w].at \in {"answered", "counting"} /\ worker'[w].outcome \in Counted
                => RowOf(worker'[w].command) \in stored'
      PROVE  StoredWhenCounted'
  BY <1>1, <1>2 DEF StoredWhenCounted, OthersKeep, RowOf
<1>3. ASSUME NEW d \in tool.todo, Take(w, d) PROVE CountersInv'
  <2>1. /\ tool'.todo \subseteq tool.todo /\ tool'.commands = tool.commands
        /\ UNCHANGED <<stored, counted>>
    BY <1>1, <1>3 DEF Take, ToolTyped
  <2>2. /\ d \in Commands
        /\ worker'[w] = IF Unsendable(d) THEN Counting(w, d, "failed")
                        ELSE [worker[w] EXCEPT !.at = "sent", !.command = d]
    BY <1>1, <1>3 DEF Take, ToolTyped, BatchesInv
  <2>3. /\ worker'[w].command = d /\ worker'[w].at \in {"sent", "answered"}
        /\ worker'[w].at = "answered" => worker'[w].outcome = "failed"
    BY <1>1, <2>2, CountingTyped DEF Outcomes, Jobs
  <2>4. StoredWhenCounted'
    BY <1>2, <2>1, <2>3 DEF Counted
  <2>5. \A k \in Kinds : Settled(k) \subseteq Settled(k)'
    BY <1>1, <2>1, <2>3, SettledStay
  <2>6. \A k \in Kinds : \A x \in Counted : Seen(k, x)' \subseteq Seen(k, x)
    BY <1>1, <2>1, <2>3, SeenStay
  <2> QED
    BY <1>1, <2>4, <2>5, <2>6, BoundedStays DEF CountersInv
<1>4. CASE Reply(w) \/ ServerError(w) \/ NoAnswer(w)
  <2>1. PICK x : Served(w, x)
    BY <1>4, RepliesServe
  <2>2. Busy(w) /\ c \in Commands
    BY <2>1, BusyCommand DEF Served, Busy
  <2>3. worker'[w] = Counting(w, c, x)
    BY <1>1, <2>1 DEF Served, ToolTyped
  <2>4. \/ worker'[w].at = "free"
        \/ worker'[w].at = "answered" /\ worker'[w].command = c /\ worker'[w].outcome = x
    BY <2>1, <2>2, <2>3, CountingTyped DEF Served
  <2>5. StoredWhenCounted'
    BY <1>2, <2>1, <2>4 DEF Served, Counted
  <2>6. \A k \in Kinds : Settled(k) \subseteq Settled(k)'
    BY <1>1, <2>1, <2>2, <2>4, SettledStay DEF Served
  <2>7. \A k \in Kinds : \A y \in Counted : Seen(k, y)' \subseteq Seen(k, y)
    BY <1>1, <2>1, <2>4, SeenStay DEF Served
  <2> QED
    BY <1>1, <2>5, <2>6, <2>7, BoundedStays DEF CountersInv
<1>5. CASE ReadCounter(w)
  <2>1. /\ worker[w].at = "answered"
        /\ worker'[w] = [worker[w] EXCEPT !.at = "counting", !.read = counted[c.kind][o]]
        /\ UNCHANGED <<stored, tool, counted>>
    BY <1>1, <1>5 DEF ReadCounter, ToolTyped
  <2>2. /\ worker'[w].at = "counting" /\ worker'[w].command = c
        /\ worker'[w].outcome = o /\ worker'[w].read = counted[c.kind][o]
    BY <1>1, <2>1 DEF Jobs
  <2>3. StoredWhenCounted'
    BY <1>1, <1>2, <2>1, <2>2 DEF StoredWhenCounted
  <2>4. \A k \in Kinds : Settled(k) \subseteq Settled(k)'
    BY <1>1, <2>1, <2>2, SettledStay DEF Busy
  <2>5. ASSUME NEW k \in Kinds, NEW y \in Counted, NEW m \in Seen(k, y)'
        PROVE  m \in Seen(k, y)
    <3>1. CASE m = counted'[k][y]
      BY <2>1, <3>1 DEF Seen
    <3>2. ASSUME NEW v \in Workers, m = worker'[v].read, worker'[v].at = "counting",
                 worker'[v].command.kind = k, worker'[v].outcome = y
          PROVE  m \in Seen(k, y)
      <4>1. CASE v = w
        BY <2>2, <3>2, <4>1 DEF Seen
      <4>2. CASE v # w
        BY <1>1, <3>2, <4>2 DEF Seen, OthersKeep
      <4> QED
        BY <4>1, <4>2
    <3> QED
      BY <2>5, <3>1, <3>2 DEF Seen
  <2> QED
    BY <1>1, <2>3, <2>4, <2>5, BoundedStays DEF CountersInv
<1>6. CASE WriteCounter(w)
  <2> DEFINE r == worker[w].read + 1
  <2>0. PICK d, j : d = c /\ j = c.kind
    OBVIOUS
  <2>1. /\ Busy(w) /\ worker[w].at = "counting" /\ UNCHANGED <<stored, tool>>
        /\ worker'[w].at = "free"
        /\ worker[w].read \in Nat /\ o \in Outcomes
    BY <1>1, <1>6 DEF WriteCounter, ToolTyped, Busy, FreeWorkers, Jobs
  <2>2. c \in Commands /\ c.kind \in Kinds
    BY <2>1, BusyCommand
  <2>3. ASSUME NEW k \in Kinds, NEW y \in Outcomes
        PROVE  counted'[k][y] = IF k = c.kind /\ y = o THEN r ELSE counted[k][y]
    BY <1>1, <1>6, <2>1, <2>2 DEF WriteCounter, ToolTyped
  <2>4. StoredWhenCounted'
    BY <1>2, <2>1
  <2>5. \A k \in Kinds : Settled(k) \subseteq Settled(k)'
    BY <1>1, <2>1, SettledStay
  <2>6. ASSUME NEW k \in Kinds, NEW y \in Outcomes, NEW m \in Seen(k, y)'
        PROVE  m \in Seen(k, y) \/ (m = r /\ k = c.kind /\ y = o)
    BY <1>1, <2>1, <2>3, <2>6 DEF Seen, OthersKeep
  <2>7. worker[w].read \in Seen(c.kind, o)
    BY <2>1 DEF Seen
  <2>8. o \in Counted => Cardinality(Settled(j)) + 1 <= Cardinality(Settled(j)')
    <3> SUFFICES ASSUME o \in Counted
                 PROVE  Cardinality(Settled(j)) + 1 <= Cardinality(Settled(j)')
      OBVIOUS
    <3>1. d \notin Settled(j)
      BY <2>0, <2>1 DEF Settled
    <3>2. d \in Settled(j)'
      <4>1. d \in tool.commands \ tool.todo /\ RowOf(d) \in stored /\ d.kind = j
        BY <1>1, <2>0, <2>1 DEF BatchesInv, StoredWhenCounted
      <4>2. ASSUME NEW v \in Workers, worker'[v].at # "free" PROVE worker'[v].command # d
        BY <1>1, <2>0, <2>1, <4>2 DEF BatchesInv, OthersKeep, Busy
      <4> QED
        BY <2>1, <4>1, <4>2 DEF Settled, Busy, RowOf
    <3>3. Settled(j) \cup {d} \subseteq Settled(j)'
      BY <2>0, <2>2, <2>5, <3>2
    <3>4. /\ IsFiniteSet(Settled(j)) /\ Cardinality(Settled(j)) \in Nat
          /\ Settled(j)' \in SUBSET Commands
      BY <1>1, SettledFinite DEF BatchesInv, Settled
    <3>5. IsFiniteSet(Settled(j)')
      BY <3>4, CommandsFinite
    <3>6. Cardinality(Settled(j) \cup {d}) <= Cardinality(Settled(j)')
      BY <3>3, <3>5, FS_Subset
    <3>7. Cardinality(Settled(j) \cup {d}) = Cardinality(Settled(j)) + 1
      BY <3>1, <3>4, FS_AddElement
    <3> QED
      BY <3>6, <3>7
  <2>9. ASSUME NEW k \in Kinds PROVE Cardinality(Settled(k)) <= Cardinality(Settled(k)')
    <3>1. Settled(k)' \in SUBSET Commands
      BY DEF BatchesInv, Settled
    <3> QED
      BY <2>5, <3>1, CommandsFinite, FS_Subset
  <2>10. ASSUME NEW k \in Kinds, NEW m \in Seen(k, "created")', NEW n \in Seen(k, "existing")'
         PROVE  m + n <= Cardinality(Settled(k)')
    <3>1. /\ Cardinality(Settled(k)) \in Nat /\ Cardinality(Settled(k)') \in Nat
          /\ Seen(k, "created") \in SUBSET Nat /\ Seen(k, "existing") \in SUBSET Nat
      <4>1. Settled(k)' \in SUBSET Commands
        BY DEF BatchesInv, Settled
      <4> QED
        BY <1>1, <4>1, SettledFinite, CommandsFinite, SeenAreNumbers DEF Outcomes
    <3>2. CASE m \in Seen(k, "created") /\ n \in Seen(k, "existing")
      <4>1. m + n <= Cardinality(Settled(k))
        BY <1>1, <3>2 DEF Bounded
      <4> QED
        BY <2>9, <3>1, <3>2, <4>1
    <3>3. CASE n \in Seen(k, "existing") /\ m = r /\ k = c.kind /\ o = "created"
      <4>1. worker[w].read + n <= Cardinality(Settled(k))
        BY <1>1, <2>0, <2>7, <3>3 DEF Bounded
      <4>2. Cardinality(Settled(k)) + 1 <= Cardinality(Settled(k)')
        BY <2>0, <2>8, <3>3 DEF Counted
      <4> QED
        BY <2>1, <3>1, <3>3, <4>1, <4>2
    <3>4. CASE m \in Seen(k, "created") /\ n = r /\ k = c.kind /\ o = "existing"
      <4>1. m + worker[w].read <= Cardinality(Settled(k))
        BY <1>1, <2>0, <2>7, <3>4 DEF Bounded
      <4>2. Cardinality(Settled(k)) + 1 <= Cardinality(Settled(k)')
        BY <2>0, <2>8, <3>4 DEF Counted
      <4> QED
        BY <2>1, <3>1, <3>4, <4>1, <4>2
    <3> QED
      BY <2>6, <3>2, <3>3, <3>4 DEF Outcomes
  <2> QED
    BY <2>4, <2>10 DEF CountersInv, Bounded
<1> QED
  BY <1>3, <1>4, <1>5, <1>6 DEF WorkerStep

LEMMA EscrowStarts == EscrowInit => EscrowInv
<1> SUFFICES ASSUME EscrowInit PROVE EscrowInv
  OBVIOUS
<1>1. ToolTyped
  BY DEF EscrowInit, ToolTyped, Off, FreeWorkers, Zeroes, Jobs, Outcomes
<1>2. BatchesInv
  BY DEF EscrowInit, BatchesInv, Off, FreeWorkers, Busy
<1>3. StoredWhenCounted
  BY DEF EscrowInit, StoredWhenCounted, FreeWorkers
<1>4. ASSUME NEW k \in Kinds, NEW o \in Outcomes PROVE Seen(k, o) = {0} /\ Settled(k) = {}
  BY <1>4 DEF EscrowInit, Seen, Settled, Off, FreeWorkers, Zeroes
<1>5. Bounded
  BY <1>4, FS_EmptySet DEF Bounded, Outcomes
<1> QED
  BY <1>1, <1>2, <1>3, <1>5 DEF EscrowInv, CountersInv

LEMMA EscrowSteps ==
    ASSUME EscrowInv, [EscrowNext]_escrowVars
    PROVE  EscrowInv'
<1>1. CASE UNCHANGED escrowVars
  <2>1. ToolTyped'
    BY <1>1 DEF EscrowInv, ToolTyped, escrowVars
  <2>2. BatchesInv'
    BY <1>1 DEF EscrowInv, BatchesInv, Busy, escrowVars
  <2>3. StoredWhenCounted'
    BY <1>1 DEF EscrowInv, CountersInv, StoredWhenCounted, RowOf, escrowVars
  <2>4. \A k : Settled(k)' = Settled(k) /\ \A o : Seen(k, o)' = Seen(k, o)
    BY <1>1 DEF Settled, Seen, Busy, RowOf, escrowVars
  <2>5. Bounded'
    BY <2>4, BoundedStays, <2>2 DEF EscrowInv, CountersInv
  <2> QED
    BY <2>1, <2>2, <2>3, <2>5 DEF EscrowInv, CountersInv
<1>2. CASE EscrowNext
  <2>1. ToolTyped'
    BY <1>2, TypedStep
  <2>2. ASSUME NEW w \in Workers, WorkerStep(w) PROVE EscrowInv'
    BY <2>1, <2>2, WorkersKeepBatches, WorkersKeepCounters DEF EscrowInv
  <2>3. CASE ~ \E w \in Workers : WorkerStep(w)
    <3>1. \/ Resets \/ Quiet
          \/ \E k \in Kinds, cmds \in SUBSET Commands : Sends(k, cmds)
      BY <1>2, <2>3, ImportStepMoves, OtherStepMoves DEF EscrowNext, ToolStep
    <3>2. BatchesInv'
      BY <3>1, MovesKeepBatches DEF EscrowInv
    <3> QED
      BY <2>1, <3>1, <3>2, MovesKeepCounters DEF EscrowInv
  <2> QED
    BY <2>2, <2>3
<1> QED
  BY <1>1, <1>2

LEMMA CountedIsStored == EscrowInv => CountedAreStored
<1> SUFFICES ASSUME EscrowInv, NEW k \in Kinds
             PROVE  counted[k].created + counted[k].existing
                      <= Cardinality({c \in tool.commands : c.kind = k /\ RowOf(c) \in stored})
  BY DEF CountedAreStored
<1> DEFINE C == {c \in tool.commands : c.kind = k /\ RowOf(c) \in stored}
<1>1. ToolTyped /\ BatchesInv /\ Bounded
  BY DEF EscrowInv, CountersInv
<1>2. counted[k]["created"] + counted[k]["existing"] <= Cardinality(Settled(k))
  BY <1>1 DEF Bounded, Seen
<1>3. C \in SUBSET Commands /\ Settled(k) \subseteq C
  BY <1>1 DEF BatchesInv, Settled
<1>4. Cardinality(Settled(k)) <= Cardinality(C) /\ Cardinality(C) \in Nat
  BY <1>3, CommandsFinite, FS_Subset
<1>5. counted[k]["created"] \in Nat /\ counted[k]["existing"] \in Nat
  BY <1>1 DEF ToolTyped, Outcomes
<1> QED
  BY <1>1, <1>2, <1>4, <1>5, SettledFinite

-----------------------------------------------------------------------------
(* What an import leaves behind.                                           *)

LEMMA WantedStays == ASSUME tool'.mapped = tool.mapped PROVE Wanted' = Wanted
<1>1. \A c : Importable(c)' = Importable(c)
  BY DEF Importable, Unsendable, AgentsOf, Entries, UsedContacts
<1>2. /\ ImportableContacts' = ImportableContacts
      /\ ImportableHosts' = ImportableHosts
  BY <1>1 DEF ImportableContacts, ImportableHosts, HostCommands, UsedContacts, Command
<1>3. ImportableDomains' = ImportableDomains
  BY <1>1, <1>2 DEF ImportableDomains, Command
<1>4. ImportableLinks' = ImportableLinks
  BY <1>2, <1>3 DEF ImportableLinks, HostsOf, Command
<1> QED
  BY <1>2, <1>3, <1>4 DEF Wanted, Command

\* Each wanted command is about an object that can be imported.
LEMMA WantedKinds ==
    ASSUME NEW c \in Wanted
    PROVE  /\ c.object \notin Invalid /\ ~ Unsendable(c)
           /\ c.kind \in Kinds
           /\ c.kind \in {"contact", "host", "domain"} => c.rar \in tool.mapped
           /\ c.kind = "contact" => /\ c.object \in ImportableContacts
                                    /\ c = Command("contact", c.object, Sponsor[c.object])
           /\ c.kind = "nndn" => /\ c.object \in NNDNs
                                 /\ c = Command("nndn", c.object, NoClID)
           /\ c.kind = "host" => c \in ImportableHosts
           /\ c.kind = "domain" => /\ c.object \in ImportableDomains
                                   /\ c = Command("domain", c.object, Sponsor[c.object])
           /\ c.kind = "link" => /\ c.object \in ImportableLinks
                                 /\ c = Command("link", c.object, Sponsor[c.object[1]])
<1>1. Invalid \cap Nameservers = {}
  BY DepositAssumption
<1>2. ASSUME NEW x \in ImportableContacts, c = Command("contact", x, Sponsor[x])
      PROVE  c.kind = "contact" /\ c.object = x /\ Importable(c)
  BY <1>2 DEF Command, ImportableContacts
<1>3. ASSUME NEW x \in NNDNs \ Invalid, c = Command("nndn", x, NoClID)
      PROVE  c.kind = "nndn" /\ c.object = x /\ ~ Unsendable(c)
  BY <1>3 DEF Command, Unsendable
<1>4. ASSUME c \in ImportableHosts
      PROVE  c.kind = "host" /\ Importable(c)
  BY <1>4 DEF Command, ImportableHosts, HostCommands
<1>5. ASSUME NEW x \in ImportableDomains, c = Command("domain", x, Sponsor[x])
      PROVE  c.kind = "domain" /\ c.object = x /\ Importable(c)
  BY <1>5 DEF Command, ImportableDomains
<1>6. ASSUME NEW l \in ImportableLinks, c = Command("link", l, Sponsor[l[1]])
      PROVE  c.kind = "link" /\ c.object = l /\ l \notin Invalid /\ ~ Unsendable(c)
  BY <1>1, <1>6 DEF Command, ImportableLinks, Unsendable
<1>7. Importable(c) => c.object \notin Invalid /\ ~ Unsendable(c) /\ c.rar \in tool.mapped
  BY DEF Importable
<1> QED
  BY <1>2, <1>3, <1>4, <1>5, <1>6, <1>7 DEF Wanted, Kinds

LEMMA LinksToDomains ==
    ASSUME NEW l \in ImportableLinks
    PROVE  /\ l \in Nameservers /\ l[1] \in Domains /\ l[2] \in Hosts
           /\ Command("domain", l[1], Sponsor[l[1]]) \in Wanted
           /\ Command("host", l[2], Sponsor[l[1]]) \in Wanted
           /\ Cardinality(HostsOf(l[1])) <= MaxHostsPerDomain
  BY DepositAssumption DEF ImportableLinks, ImportableDomains, Wanted

\* A domain within the limit has room for a host it is not linked to.
LEMMA RoomForLink ==
    ASSUME NEW l \in ImportableLinks, <<"link", l>> \notin stored
    PROVE  Cardinality(Linked(l[1])) < MaxHostsPerDomain
<1> DEFINE S == HostsOf(l[1])
<1>1. IsFiniteSet(S)
  <2>1. /\ IsFiniteSet(Contacts \cup Hosts \cup Domains \cup NNDNs \cup Registrars)
        /\ S \subseteq Domains \X Hosts
    BY DepositAssumption DEF HostsOf
  <2>2. IsFiniteSet(Domains) /\ IsFiniteSet(Hosts)
    BY <2>1, FS_Subset
  <2> HIDE DEF S
  <2> QED
    BY <2>1, <2>2, FS_Product, FS_Subset
<1>2. l \in S /\ Linked(l[1]) \subseteq S \ {l} /\ Cardinality(S) <= MaxHostsPerDomain
  BY LinksToDomains DEF Linked, HostsOf
<1> HIDE DEF S
<1>3. /\ IsFiniteSet(S \ {l}) /\ Cardinality(S \ {l}) = Cardinality(S) - 1
  BY <1>1, <1>2, FS_RemoveElement
<1>4. /\ IsFiniteSet(Linked(l[1])) /\ Cardinality(Linked(l[1])) <= Cardinality(S \ {l})
  BY <1>2, <1>3, FS_Subset
<1>5. Cardinality(S) \in Nat /\ Cardinality(Linked(l[1])) \in Nat /\ MaxHostsPerDomain \in Nat
  BY <1>1, <1>4, FS_CardinalityType, DepositAssumption
<1> QED
  BY <1>2, <1>3, <1>4, <1>5

\* Nothing of an earlier batch is pending.
LEMMA EarlierAnswered ==
    ASSUME EscrowInv, ImportInv, tool.whole, tool.answered, NEW c \in Wanted,
           tool.step \in From(c.kind), tool.step # c.kind
    PROVE  RowOf(c) \in stored \/ Excused(c)
<1>1. ~ Pending(c)
  BY DEF EscrowInv, BatchesInv, Pending, Busy
<1> QED
  BY <1>1 DEF ImportInv

\* What is wanted is accepted when its turn comes: what it needs has been
\* stored by the batches before.
LEMMA WantedAcceptable ==
    ASSUME EscrowInv, ImportInv, tool.whole, tool.answered, NEW c \in Wanted,
           tool.step = c.kind
    PROVE  Acceptable(c) \/ Excused(c)
<1> USE DEF From, FromContact, FromNNDN, FromHost, FromDomain, FromLink
<1>1. /\ c.object \notin Invalid /\ c.kind \in Kinds
      /\ c.kind \in {"contact", "host", "domain"} => c.rar \in tool.mapped
  BY WantedKinds
<1>2. CASE c.kind \in {"contact", "nndn", "host"}
  BY <1>1, <1>2 DEF Acceptable, Needs
<1>3. CASE c.kind = "domain"
  <2> DEFINE d == c.object
  <2>1. d \in ImportableDomains
    BY <1>3, WantedKinds
  <2>2. ASSUME NEW x \in ContactsOf[d] PROVE <<"contact", x>> \in stored
    <3> DEFINE e == Command("contact", x, Sponsor[x])
    <3>1. x \in ImportableContacts
      BY <2>1 DEF ImportableDomains
    <3>2. e \in Wanted /\ e.kind = "contact" /\ RowOf(e) = <<"contact", x>>
      BY <3>1 DEF Wanted, Command, RowOf
    <3> QED
      BY <1>3, <3>2, EarlierAnswered DEF Excused
  <2> QED
    BY <1>1, <1>3, <2>2 DEF Acceptable, Needs
<1>4. CASE c.kind = "link"
  <2> DEFINE l == c.object
             e == Command("domain", l[1], Sponsor[l[1]])
             h == Command("host", l[2], Sponsor[l[1]])
  <2>1. l \in ImportableLinks /\ RowOf(c) = <<"link", l>>
    BY <1>4, WantedKinds DEF RowOf
  <2>2. e \in Wanted /\ h \in Wanted
    BY <2>1, LinksToDomains
  <2>3. /\ e.kind = "domain" /\ RowOf(e) = <<"domain", l[1]>>
        /\ h.kind = "host" /\ RowOf(h) = <<"host", l[2], ClIDOf[Sponsor[l[1]]]>>
    BY DEF Command, RowOf
  <2> HIDE DEF e, h
  <2>4. RowOf(e) \in stored /\ RowOf(h) \in stored
    BY <1>4, <2>2, <2>3, EarlierAnswered DEF Excused
  <2>5. Needs(c) \subseteq stored
    BY <1>4, <2>3, <2>4 DEF Needs
  <2>6. RowOf(c) \notin stored => Cardinality(Linked(l[1])) < MaxHostsPerDomain
    BY <2>1, RoomForLink
  <2>7. CASE Unaddressed(l)
    BY <1>4, <2>7 DEF Excused
  <2>8. CASE ~ Unaddressed(l)
    <3>1. l \in InBailiwick => AddressRow(l[2], Sponsor[l[1]]) \in stored
      BY <2>4, <2>8 DEF Unaddressed, h
    <3>2. RowOf(c) \notin stored => MayLink(l)
      BY <2>6, <3>1 DEF MayLink
    <3> QED
      BY <1>1, <1>4, <2>5, <3>2 DEF Acceptable
  <2> QED
    BY <2>7, <2>8
<1> QED
  BY <1>1, <1>2, <1>3, <1>4 DEF Kinds

\* Between two batches, and when one is sent.
LEMMA BetweenBatches ==
    ASSUME EscrowInv, ImportInv, tool.whole, Calm,
           tool' = [tool EXCEPT !.todo = tool'.todo, !.commands = tool'.commands,
                                !.step = tool'.step],
           stored' = stored,
           tool'.step \notin {"load", "ids"},
           tool'.step # "domains truncated" => files'.domains = Domains,
           \A c \in Wanted : tool'.step \in From(c.kind) =>
               tool.step \in From(c.kind) \/ c \in tool'.todo
    PROVE  ImportInv'
<1>1. /\ tool'.doing = tool.doing /\ tool'.used = tool.used
      /\ tool'.mapped = tool.mapped /\ tool'.answered = tool.answered
  BY DEF EscrowInv, ToolTyped
<1>2. Wanted' = Wanted
  BY <1>1, WantedStays
<1>3. ASSUME tool.answered, NEW c \in Wanted, tool'.step \in From(c.kind)
      PROVE  RowOf(c) \in stored \/ c \in tool'.todo \/ Excused(c)
  BY <1>3 DEF ImportInv, Pending, Calm, Busy
<1>4. ASSUME tool'.answered, NEW c \in Wanted, tool'.step \in From(c.kind)
      PROVE  RowOf(c)' \in stored' \/ Pending(c)' \/ Excused(c)'
  <2>1. Excused(c)' = Excused(c)
    BY DEF Excused, Unaddressed, RowOf, AddressRow, Command
  <2> QED
    BY <1>1, <1>3, <1>4, <2>1 DEF RowOf, Pending
<1> QED
  BY <1>1, <1>2, <1>4 DEF ImportInv, UsedContacts

\* A batch that is empty, or skipped, has nothing that is wanted.
LEMMA NothingWanted ==
    ASSUME NEW c \in Wanted
    PROVE  /\ Contacts = {} => c.kind # "contact"
           /\ NNDNs = {} => c.kind # "nndn"
           /\ Hosts = {} => c.kind \notin {"host", "link"}
           /\ Domains = {} => c.kind \notin {"domain", "link"}
<1>1. ImportableContacts \in SUBSET Contacts /\ ImportableDomains \in SUBSET Domains
  BY DepositAssumption DEF ImportableContacts, ImportableDomains
<1>2. Hosts = {} => ImportableHosts = {}
  BY DepositAssumption DEF ImportableHosts, HostCommands
<1> QED
  BY <1>1, <1>2, WantedKinds, LinksToDomains

LEMMA GoToKeepsImport ==
    ASSUME EscrowInv, ImportInv, tool.whole, Calm, stored' = stored,
           NEW s, GoTo(s), s \notin {"load", "ids"},
           s # "domains truncated" => files'.domains = Domains,
           \A c \in Wanted : s \in From(c.kind) => tool.step \in From(c.kind)
    PROVE  ImportInv'
<1>1. /\ tool' = [tool EXCEPT !.todo = tool'.todo, !.commands = tool'.commands,
                              !.step = tool'.step]
      /\ tool'.step = s
  BY DEF GoTo, EscrowInv, ToolTyped
<1> QED
  BY <1>1, BetweenBatches

LEMMA SendKeepsImport ==
    ASSUME EscrowInv, ImportInv, tool.whole, Calm, stored' = stored,
           NEW cmds, NEW s \in Kinds, Send(cmds, s), files'.domains = Domains,
           \A c \in Wanted : s \in From(c.kind) => tool.step \in From(c.kind) \/ c \in cmds
    PROVE  ImportInv'
<1>1. /\ tool' = [tool EXCEPT !.todo = tool'.todo, !.commands = tool'.commands,
                              !.step = tool'.step]
      /\ tool'.step = s /\ tool'.todo = cmds
  BY DEF Send, EscrowInv, ToolTyped
<1>2. s \notin {"load", "ids"}
  BY DEF Kinds
<1> QED
  BY <1>1, <1>2, BetweenBatches

\* The kinds whose batch begins with a step, and those that are passed over.
LEMMA StepsOfKinds ==
    ASSUME NEW k \in Kinds
    PROVE  /\ "contacts" \notin From(k) /\ "contacts truncated" \notin From(k)
           /\ "contact" \in From(k) => k = "contact"
           /\ "nndns" \in From(k) => k = "contact"
           /\ "nndn" \in From(k) => "nndns" \in From(k) \/ k = "nndn"
           /\ "hosts" \in From(k) => "nndns" \in From(k) \/ k = "nndn"
           /\ "host" \in From(k) => "hosts" \in From(k) \/ k = "host"
           /\ "domains" \in From(k) => "hosts" \in From(k) \/ k = "host"
           /\ "domains truncated" \in From(k) <=> "domains" \in From(k)
           /\ "domain" \in From(k) => "domains" \in From(k) \/ k = "domain"
           /\ "links" \in From(k) => "domains" \in From(k) \/ k = "domain"
           /\ "link" \in From(k) => "links" \in From(k) \/ k = "link"
           /\ "save" \in From(k) => "links" \in From(k) \/ k = "link"
           /\ "finished" \in From(k) /\ "save" \in From(k)
           /\ \A j \in Kinds : After(j) \in From(k) => j \in From(k)
  BY DEF From, FromContact, FromNNDN, FromHost, FromDomain, FromLink, After, Kinds

LEMMA ImportStepKeepsImport ==
    ASSUME EscrowInv, ImportInv, tool.whole, ImportStep
    PROVE  ImportInv'
<1>1. /\ tool.step \notin Kinds => Calm
      /\ tool.step \notin {"load", "ids"}
      /\ tool.used = StatusLinked \cap UsedContacts
      /\ tool.step # "domains truncated" => files.domains = Domains
      /\ files = [contacts |-> files.contacts, domains |-> files.domains,
                  analysis |-> files.analysis]
      /\ \A c \in Wanted : c.kind \in Kinds
  BY CalmBetweenBatches, WantedKinds DEF EscrowInv, ImportInv, ToolTyped
<1>2. ASSUME NEW allowed, CheckTLD(allowed) PROVE ImportInv'
  <2>1. Calm /\ files'.domains = Domains /\ stored' = stored
    BY <1>1, <1>2 DEF CheckTLD, At, Kinds
  <2>2. CASE tool' = [Off EXCEPT !.step = "refused"]
    BY <2>2 DEF Off, ImportInv
  <2>3. CASE GoTo("contacts")
    BY <1>1, <2>1, <2>3, StepsOfKinds, GoToKeepsImport
  <2> QED
    BY <1>2, <2>2, <2>3 DEF CheckTLD
<1>3. CASE ExtractContacts
  <2>1. Calm /\ files'.domains = Domains /\ stored' = stored
    BY <1>1, <1>3 DEF ExtractContacts, OpenContacts, At, Kinds
  <2>2. CASE At("import", "contacts truncated")
    <3>1. Send(ContactCommands, "contact")
      BY <1>3, <2>2 DEF ExtractContacts, CreateContacts, At
    <3>2. ASSUME NEW c \in Wanted, "contact" \in From(c.kind) PROVE c \in ContactCommands
      <4>1. /\ c.object \in ImportableContacts
            /\ c = Command("contact", c.object, Sponsor[c.object])
        BY <1>1, <3>2, WantedKinds, StepsOfKinds
      <4> QED
        BY <1>1, <4>1, WantedKinds DEF ImportableContacts, ContactCommands, LinkedContacts
    <3> QED
      BY <2>1, <3>1, <3>2, SendKeepsImport DEF Kinds
  <2>3. CASE At("import", "contacts") /\ OpenContacts
    <3>1. GoTo("contacts truncated")
      BY <2>3 DEF OpenContacts
    <3> QED
      BY <1>1, <2>1, <3>1, StepsOfKinds, GoToKeepsImport
  <2>4. CASE At("import", "contacts") /\ Contacts = {} /\ GoTo("nndns")
    <3>1. \A c \in Wanted : "nndns" \notin From(c.kind)
      BY <1>1, <2>4, NothingWanted, StepsOfKinds
    <3> QED
      BY <2>1, <2>4, <3>1, GoToKeepsImport
  <2> QED
    BY <1>3, <2>2, <2>3, <2>4 DEF ExtractContacts
<1>4. CASE ExtractNNDNS
  <2>1. Calm /\ files'.domains = Domains /\ stored' = stored /\ tool.step = "nndns"
    BY <1>1, <1>4 DEF ExtractNNDNS, At, Kinds
  <2>2. CASE Send(NNDNCommands, "nndn")
    <3>1. ASSUME NEW c \in Wanted, "nndn" \in From(c.kind)
          PROVE  tool.step \in From(c.kind) \/ c \in NNDNCommands
      BY <1>1, <2>1, <3>1, WantedKinds, StepsOfKinds DEF NNDNCommands
    <3> QED
      BY <2>1, <2>2, <3>1, SendKeepsImport DEF Kinds
  <2>3. CASE NNDNs = {} /\ GoTo("hosts")
    <3>1. \A c \in Wanted : "hosts" \in From(c.kind) => tool.step \in From(c.kind)
      BY <1>1, <2>1, <2>3, NothingWanted, StepsOfKinds
    <3> QED
      BY <2>1, <2>3, <3>1, GoToKeepsImport
  <2> QED
    BY <1>4, <2>2, <2>3 DEF ExtractNNDNS, CreateNNDNs
<1>5. CASE ExtractHosts
  <2> DEFINE cmds == DuplicateHostCommands(HostCommands)
  <2>1. Calm /\ files'.domains = Domains /\ stored' = stored /\ tool.step = "hosts"
    BY <1>1, <1>5 DEF ExtractHosts, At, Kinds
  <2>2. CASE Send(cmds, "host")
    <3>1. ASSUME NEW c \in Wanted, "host" \in From(c.kind)
          PROVE  tool.step \in From(c.kind) \/ c \in cmds
      <4>1. CASE c.kind = "host"
        <5>1. c \in ImportableHosts /\ c.object \notin Invalid
          BY <4>1, WantedKinds
        <5>2. CASE c \in HostCommands
          BY <5>2 DEF DuplicateHostCommands
        <5>3. CASE c \notin HostCommands
          <6>1. PICK l \in Nameservers : c = Command("host", l[2], Sponsor[l[1]])
            BY <5>1, <5>3 DEF ImportableHosts
          <6>2. l[1] \in files.domains /\ l[2] \notin Invalid
            BY <1>1, <2>1, <5>1, <6>1, DepositAssumption DEF Command
          <6> QED
            BY <6>1, <6>2 DEF DuplicateHostCommands
        <5> QED
          BY <5>2, <5>3
      <4> QED
        BY <1>1, <2>1, <3>1, <4>1, StepsOfKinds
    <3> HIDE DEF cmds
    <3> QED
      BY <2>1, <2>2, <3>1, SendKeepsImport DEF Kinds
  <2>3. CASE Hosts = {} /\ GoTo("domains")
    <3>1. \A c \in Wanted : "domains" \in From(c.kind) => tool.step \in From(c.kind)
      BY <1>1, <2>1, <2>3, NothingWanted, StepsOfKinds
    <3> QED
      BY <2>1, <2>3, <3>1, GoToKeepsImport
  <2> QED
    BY <1>5, <2>2, <2>3 DEF ExtractHosts, CreateHosts
<1>6. CASE ExtractDomains
  <2>1. Calm /\ stored' = stored
    BY <1>1, <1>6 DEF ExtractDomains, At, Kinds
  <2>2. CASE At("import", "domains truncated")
    <3>1. Send(DomainCommands, "domain") /\ files'.domains = Domains
      BY <1>1, <1>6, <2>2 DEF ExtractDomains, CreateDomains, At
    <3>2. ASSUME NEW c \in Wanted, "domain" \in From(c.kind)
          PROVE  tool.step \in From(c.kind) \/ c \in DomainCommands
      <4>1. CASE c.kind = "domain"
        BY <4>1, WantedKinds DEF DomainCommands, ImportableDomains
      <4> QED
        BY <1>1, <2>2, <3>2, <4>1, StepsOfKinds DEF At
    <3> QED
      BY <2>1, <3>1, <3>2, SendKeepsImport DEF Kinds
  <2>3. CASE At("import", "domains") /\ OpenDomains
    <3>1. GoTo("domains truncated") /\ tool.step = "domains"
      BY <2>3 DEF OpenDomains, At
    <3>2. \A c \in Wanted : "domains truncated" \in From(c.kind) => tool.step \in From(c.kind)
      BY <1>1, <3>1, StepsOfKinds
    <3> QED
      BY <2>1, <3>1, <3>2, GoToKeepsImport
  <2>4. CASE At("import", "domains") /\ Domains = {} /\ GoTo("links") /\ UNCHANGED files
    <3>1. \A c \in Wanted : "links" \in From(c.kind) => tool.step \in From(c.kind)
      BY <1>1, <2>4, NothingWanted, StepsOfKinds DEF At
    <3>2. files'.domains = Domains
      BY <1>1, <2>4 DEF At
    <3> QED
      BY <2>1, <2>4, <3>1, <3>2, GoToKeepsImport
  <2> QED
    BY <1>6, <2>2, <2>3, <2>4 DEF ExtractDomains
<1>7. CASE LinkHostsToDomains
  <2> DEFINE cmds == {Command("link", l, Sponsor[l[1]]) :
                        l \in {m \in Nameservers : m[1] \in files.domains}}
  <2>1. Calm /\ files'.domains = Domains /\ stored' = stored /\ tool.step = "links"
    BY <1>1, <1>7 DEF LinkHostsToDomains, At, Kinds
  <2>2. CASE Send(cmds, "link")
    <3>1. ASSUME NEW c \in Wanted, "link" \in From(c.kind)
          PROVE  tool.step \in From(c.kind) \/ c \in cmds
      <4>1. CASE c.kind = "link"
        <5>1. /\ c.object \in ImportableLinks
              /\ c = Command("link", c.object, Sponsor[c.object[1]])
          BY <4>1, WantedKinds
        <5>2. c.object \in Nameservers /\ c.object[1] \in files.domains
          BY <1>1, <2>1, <5>1, LinksToDomains
        <5> QED
          BY <5>1, <5>2
      <4> QED
        BY <1>1, <2>1, <3>1, <4>1, StepsOfKinds
    <3> HIDE DEF cmds
    <3> QED
      BY <2>1, <2>2, <3>1, SendKeepsImport DEF Kinds
  <2>3. CASE (Domains = {} \/ Hosts = {}) /\ GoTo("save")
    <3>1. \A c \in Wanted : "save" \in From(c.kind) => tool.step \in From(c.kind)
      BY <1>1, <2>1, <2>3, NothingWanted, StepsOfKinds
    <3> QED
      BY <2>1, <2>3, <3>1, GoToKeepsImport
  <2> QED
    BY <1>7, <2>2, <2>3 DEF LinkHostsToDomains
<1>8. CASE SaveImportResult
  <2>1. Calm /\ files'.domains = Domains /\ stored' = stored /\ tool.step = "save"
        /\ GoTo("finished")
    BY <1>1, <1>8 DEF SaveImportResult, At, Kinds
  <2>2. \A c \in Wanted : tool.step \in From(c.kind)
    BY <1>1, <2>1, StepsOfKinds
  <2> QED
    BY <2>1, <2>2, GoToKeepsImport
<1>9. CASE WaitGroupDone
  <2>1. Calm
    BY <1>9 DEF WaitGroupDone, Drained, Calm, Busy
  <2>2. /\ GoTo(After(tool.step)) /\ tool.step \in Kinds /\ stored' = stored
        /\ files'.domains = Domains
    BY <1>1, <1>9 DEF WaitGroupDone, Kinds
  <2>3. After(tool.step) \notin {"load", "ids"}
    BY <2>2 DEF After, Kinds
  <2>4. \A c \in Wanted : After(tool.step) \in From(c.kind) => tool.step \in From(c.kind)
    BY <1>1, <2>2, StepsOfKinds
  <2> QED
    BY <2>1, <2>2, <2>3, <2>4, GoToKeepsImport
<1>10. ~ LoadUniqueContactIDs /\ ~ \E ignore \in BOOLEAN : LoadDepositAnalysis(ignore)
  BY <1>1 DEF LoadUniqueContactIDs, LoadDepositAnalysis, At
<1> QED
  BY <1>2, <1>3, <1>4, <1>5, <1>6, <1>7, <1>8, <1>9, <1>10 DEF ImportStep

\* Once links are made, no host gets an address.
LEMMA ExcusedStays ==
    ASSUME EscrowInv, NEW w \in Workers, WorkerStep(w), ~ (ServerError(w) \/ NoAnswer(w)),
           NEW c, tool.step \in From(c.kind), Excused(c)
    PROVE  Excused(c)'
<1> DEFINE row == AddressRow(c.object[2], Sponsor[c.object[1]])
<1>1. c.kind = "link" /\ row \notin stored
  BY DEF Excused, Unaddressed
<1>2. CASE Reply(w)
  <2> DEFINE d == worker[w].command
  <2>1. d.kind = tool.step /\ d.kind \in Kinds /\ stored' = Stores(d)
    BY <1>2, BusyCommand DEF Reply, Busy
  <2>2. d.kind = "link"
    BY <1>1, <2>1 DEF From, FromLink, Kinds
  <2>3. stored' \subseteq stored \cup {<<"link", d.object>>} /\ stored \subseteq stored'
    BY <2>1, <2>2 DEF Stores, Rows, RowOf
  <2>4. row # <<"link", d.object>>
    BY DEF AddressRow
  <2>5. row \notin stored'
    BY <1>1, <2>3, <2>4
  <2> QED
    BY <2>3, <2>5 DEF Excused, Unaddressed, RowOf, AddressRow, Command
<1>3. CASE ~ Reply(w)
  <2>1. stored' = stored
    BY <1>3 DEF WorkerStep, Take, ReadCounter, WriteCounter
  <2> QED
    BY <2>1 DEF Excused, Unaddressed, RowOf, AddressRow, Command
<1> QED
  BY <1>2, <1>3

\* A worker answers for what it has taken: a wanted command stays pending until
\* its row is stored, unless a call failed.
LEMMA WorkersKeepImport ==
    ASSUME EscrowInv, ToolTyped', ImportInv, tool.whole, NEW w \in Workers, WorkerStep(w)
    PROVE  ImportInv'
<1>1. ToolTyped /\ OthersKeep(w)
  BY WorkerStepShape DEF EscrowInv
<1>2. /\ files' = files /\ tool'.doing = tool.doing /\ tool'.step = tool.step
      /\ tool'.used = tool.used /\ tool'.mapped = tool.mapped /\ stored \subseteq stored'
  BY <1>1 DEF WorkerStep, Take, Reply, ServerError, NoAnswer, Fails, ReadCounter,
              WriteCounter, Stores, Rows, ToolTyped
<1>3. Wanted' = Wanted
  BY <1>2, WantedStays
<1>4. CASE ServerError(w) \/ NoAnswer(w)
  <2>1. tool'.answered = FALSE
    BY <1>1, <1>4 DEF ServerError, NoAnswer, Fails, ToolTyped
  <2>2. ~ tool'.answered
    BY <2>1
  <2> QED
    BY <1>2, <2>2 DEF ImportInv, UsedContacts
<1>5. CASE ~ (ServerError(w) \/ NoAnswer(w))
  <2>1. tool'.answered = tool.answered
    BY <1>1, <1>5 DEF WorkerStep, Take, Reply, ReadCounter, WriteCounter, ToolTyped
  <2>2. ASSUME tool.answered, NEW c \in Wanted, c \in tool.todo
        PROVE  Pending(c)'
    <3>1. CASE c \in tool'.todo
      BY <3>1 DEF Pending
    <3>2. CASE c \notin tool'.todo
      <4>1. ASSUME NEW d, Take(w, d) PROVE d = c
        BY <1>1, <2>2, <3>2, <4>1 DEF Take, ToolTyped
      <4>2. ~ (Reply(w) \/ ReadCounter(w) \/ WriteCounter(w))
        BY <2>2, <3>2 DEF Reply, ReadCounter, WriteCounter
      <4>3. Take(w, c)
        BY <1>5, <4>1, <4>2 DEF WorkerStep
      <4>4. ~ Unsendable(c)
        BY WantedKinds
      <4>5. worker'[w].at = "sent" /\ worker'[w].command = c
        BY <1>1, <4>3, <4>4 DEF Take, ToolTyped, Jobs
      <4> QED
        BY <4>5 DEF Pending
    <3> QED
      BY <3>1, <3>2
  <2>3. ASSUME tool.answered, NEW c \in Wanted, NEW v \in Workers,
               worker[v].at = "sent", worker[v].command = c
        PROVE  RowOf(c) \in stored' \/ Pending(c)' \/ Excused(c)'
    <3>1. CASE v # w
      BY <1>1, <2>3, <3>1 DEF Pending, OthersKeep
    <3>2. CASE v = w
      <4>1. Reply(w)
        BY <1>5, <2>3, <3>2 DEF WorkerStep, Take, ReadCounter, WriteCounter
      <4>2. tool.step = c.kind
        BY <2>3, BusyCommand DEF Busy
      <4>3. Acceptable(c) \/ Excused(c)
        BY <2>3, <4>2, WantedAcceptable
      <4>4. stored' = Stores(c)
        BY <2>3, <3>2, <4>1 DEF Reply
      <4>5. CASE Acceptable(c)
        BY <4>4, <4>5 DEF Stores, Rows
      <4>6. CASE ~ Acceptable(c)
        <5>1. stored' = stored
          BY <4>4, <4>6 DEF Stores
        <5> QED
          BY <4>3, <4>6, <5>1 DEF Excused, Unaddressed, RowOf, AddressRow, Command
      <4> QED
        BY <4>5, <4>6
    <3> QED
      BY <3>1, <3>2
  <2>4. ASSUME tool'.answered, NEW c \in Wanted, tool.step \in From(c.kind)
        PROVE  RowOf(c) \in stored' \/ Pending(c)' \/ Excused(c)'
    <3>1. tool.answered
      BY <2>1, <2>4
    <3>2. RowOf(c) \in stored \/ Pending(c) \/ Excused(c)
      BY <2>4, <3>1 DEF ImportInv
    <3>3. CASE Excused(c)
      BY <1>5, <2>4, <3>3, ExcusedStays
    <3> QED
      BY <1>2, <2>2, <2>3, <3>1, <3>2, <3>3 DEF Pending
  <2>5. ASSUME NEW c PROVE RowOf(c)' = RowOf(c)
    BY DEF RowOf
  <2> QED
    BY <1>2, <1>3, <2>4, <2>5 DEF ImportInv, UsedContacts
<1> QED
  BY <1>4, <1>5

\* A run that begins, ends or is refused has read no files, and an analysis
\* never does.
LEMMA OtherStepsKeepImport ==
    ASSUME EscrowInv, ImportInv,
           StartAnalysis \/ StartImport \/ ToolDies \/ ReadFails \/ AnalysisStep
    PROVE  ImportInv'
<1>1. CASE StartAnalysis \/ StartImport \/ ToolDies \/ ReadFails
  <2>1. tool'.whole = FALSE
    BY <1>1 DEF StartAnalysis, StartImport, StartTool, ToolDies, ReadFails, Off
  <2>2. ~ tool'.whole
    BY <2>1
  <2> QED
    BY <2>2 DEF ImportInv
<1>2. CASE AnalysisStep
  <2>1. tool.doing = "analysis"
    BY <1>2 DEF AnalysisStep, AnalyzeTags, AnalyzeDomains, AnalyzeContacts,
                MapRegistrars, SaveAnalysis, At
  <2>2. tool'.whole = tool.whole
    BY <1>2
       DEF AnalysisStep, AnalyzeTags, AnalyzeDomains, AnalyzeContacts,
           MapRegistrars, SaveAnalysis, GoTo, OpenDomains, OpenContacts,
           EscrowInv, ToolTyped
  <2>3. ~ tool.whole
    BY <2>1 DEF ImportInv
  <2>4. ~ tool'.whole
    BY <2>2, <2>3
  <2> QED
    BY <2>4 DEF ImportInv
<1> QED
  BY <1>1, <1>2

\* An import that has not read its files: it reads them before any batch, and
\* what it finds decides whether they are whole.
LEMMA ReadingFilesKeepsImport ==
    ASSUME EscrowInv, ImportInv, ~ tool.whole, ImportStep
    PROVE  ImportInv'
<1>1. CASE LoadUniqueContactIDs
  <2>1. /\ tool'.doing = "import" /\ tool'.step = "tld" /\ tool'.used = files.contacts
        /\ tool'.whole = (files.contacts = StatusLinked \cap UsedContacts /\ files.domains = Domains)
        /\ files' = files
    BY <1>1 DEF LoadUniqueContactIDs, At, EscrowInv, ToolTyped
  <2>2. ASSUME NEW c \in Wanted' PROVE tool'.step \notin From(c.kind)
    <3>1. c.kind \in Kinds
      BY <2>2 DEF Wanted, ImportableHosts, HostCommands, Command, Kinds
    <3> QED
      BY <2>1, <3>1 DEF From, FromContact, FromNNDN, FromHost, FromDomain, FromLink, Kinds
  <2>3. CASE files.contacts = StatusLinked \cap UsedContacts /\ files.domains = Domains
    BY <2>1, <2>2, <2>3 DEF ImportInv, UsedContacts
  <2>4. CASE ~ (files.contacts = StatusLinked \cap UsedContacts /\ files.domains = Domains)
    <3>1. ~ tool'.whole
      BY <2>1, <2>4
    <3> QED
      BY <3>1 DEF ImportInv
  <2> QED
    BY <2>3, <2>4
<1>2. CASE ~ LoadUniqueContactIDs
  <2>1. tool'.whole = tool.whole \/ tool'.whole = FALSE
    BY <1>2 DEF ImportStep, LoadDepositAnalysis, CheckTLD, ExtractContacts, ExtractNNDNS,
                ExtractHosts, ExtractDomains, LinkHostsToDomains, SaveImportResult,
                WaitGroupDone, OpenContacts, OpenDomains, CreateContacts, CreateNNDNs,
                CreateHosts, CreateDomains, Send, GoTo, Off, EscrowInv, ToolTyped
  <2>2. ~ tool'.whole
    <3>1. CASE tool'.whole = FALSE
      BY <3>1
    <3>2. CASE tool'.whole = tool.whole
      BY <3>2
    <3> QED
      BY <2>1, <3>1, <3>2
  <2> QED
    BY <2>2 DEF ImportInv
<1> QED
  BY <1>1, <1>2
LEMMA ImportStarts == EscrowInit => ImportInv
<1> SUFFICES ASSUME EscrowInit PROVE ImportInv
  OBVIOUS
<1>1. tool.whole = FALSE
  BY DEF EscrowInit, Off
<1>2. ~ tool.whole
  BY <1>1
<1> QED
  BY <1>2 DEF ImportInv

LEMMA ImportSteps ==
    ASSUME EscrowInv, ImportInv, EscrowInv', [EscrowNext]_escrowVars
    PROVE  ImportInv'
<1>1. CASE UNCHANGED escrowVars
  <2>1. Wanted' = Wanted
    BY <1>1, WantedStays DEF escrowVars
  <2>2. ASSUME NEW c
        PROVE  /\ Pending(c)' = Pending(c) /\ RowOf(c)' = RowOf(c)
               /\ Excused(c)' = Excused(c)
    BY <1>1 DEF escrowVars, Pending, RowOf, Excused, Unaddressed, AddressRow, Command
  <2> QED
    BY <1>1, <2>1, <2>2 DEF escrowVars, ImportInv, UsedContacts
<1>2. ASSUME NEW w \in Workers, WorkerStep(w), tool.whole PROVE ImportInv'
  BY <1>2, WorkersKeepImport DEF EscrowInv
<1>3. ASSUME NEW w \in Workers, WorkerStep(w), ~ tool.whole PROVE ImportInv'
  <2>1. tool'.whole = tool.whole
    BY <1>3 DEF WorkerStep, Take, Reply, ServerError, NoAnswer, Fails, ReadCounter,
                WriteCounter, EscrowInv, ToolTyped
  <2>2. ~ tool'.whole
    BY <1>3, <2>1
  <2> QED
    BY <2>2 DEF ImportInv
<1>4. CASE ImportStep
  BY <1>4, ImportStepKeepsImport, ReadingFilesKeepsImport
<1>5. CASE StartAnalysis \/ StartImport \/ ToolDies \/ ReadFails \/ AnalysisStep
  BY <1>5, OtherStepsKeepImport
<1> QED
  BY <1>1, <1>2, <1>3, <1>4, <1>5 DEF EscrowNext, ToolStep

LEMMA FinishedIsComplete == EscrowInv /\ ImportInv => CleanImportCompletes
<1> SUFFICES ASSUME EscrowInv, ImportInv, At("import", "finished"), tool.whole, tool.answered
             PROVE  /\ \A c \in ImportableContacts : <<"contact", c>> \in stored
                    /\ \A n \in NNDNs \ Invalid : <<"nndn", n>> \in stored
                    /\ \A c \in ImportableHosts : RowOf(c) \in stored
                    /\ \A d \in ImportableDomains : <<"domain", d>> \in stored
                    /\ \A l \in ImportableLinks : <<"link", l>> \in stored \/ Unaddressed(l)
  BY DEF CleanImportCompletes
<1>1. ASSUME NEW c \in Wanted PROVE RowOf(c) \in stored \/ Excused(c)
  <2>1. tool.step = "finished" /\ c.kind \in Kinds
    BY WantedKinds DEF At
  <2>2. tool.step \in From(c.kind) /\ tool.step # c.kind
    BY <2>1, StepsOfKinds DEF Kinds
  <2> QED
    BY <2>2, EarlierAnswered
<1>2. ASSUME NEW c \in ImportableContacts PROVE <<"contact", c>> \in stored
  <2>1. /\ Command("contact", c, Sponsor[c]) \in Wanted
        /\ RowOf(Command("contact", c, Sponsor[c])) = <<"contact", c>>
    BY DEF Wanted, RowOf, Command
  <2> QED
    BY <1>1, <2>1 DEF Excused, Command
<1>3. ASSUME NEW n \in NNDNs \ Invalid PROVE <<"nndn", n>> \in stored
  <2>1. /\ Command("nndn", n, NoClID) \in Wanted
        /\ RowOf(Command("nndn", n, NoClID)) = <<"nndn", n>>
    BY DEF Wanted, RowOf, Command
  <2> QED
    BY <1>1, <2>1 DEF Excused, Command
<1>4. ASSUME NEW d \in ImportableDomains PROVE <<"domain", d>> \in stored
  <2>1. /\ Command("domain", d, Sponsor[d]) \in Wanted
        /\ RowOf(Command("domain", d, Sponsor[d])) = <<"domain", d>>
    BY DEF Wanted, RowOf, Command
  <2> QED
    BY <1>1, <2>1 DEF Excused, Command
<1>5. ASSUME NEW l \in ImportableLinks PROVE <<"link", l>> \in stored \/ Unaddressed(l)
  <2>1. /\ Command("link", l, Sponsor[l[1]]) \in Wanted
        /\ RowOf(Command("link", l, Sponsor[l[1]])) = <<"link", l>>
    BY DEF Wanted, RowOf, Command
  <2> QED
    BY <1>1, <2>1 DEF Excused, Command
<1>6. ASSUME NEW c \in ImportableHosts PROVE RowOf(c) \in stored
  <2>1. c \in Wanted /\ c.kind = "host"
    BY DEF Wanted, ImportableHosts, HostCommands, Command
  <2> QED
    BY <1>1, <2>1 DEF Excused
<1> QED
  BY <1>2, <1>3, <1>4, <1>5, <1>6

-----------------------------------------------------------------------------

\* What a run of the escrow tool keeps in every state: what it has sent and who
\* works on it, the counters below what is stored, and, of the batches up to the
\* one at work, every command that is sent and accepted either stored or still
\* on its way, but for links to hosts without the address that AddHost asks for
\* (escrow_service.go).
THEOREM EscrowInvariant == EscrowSpec => [](EscrowInv /\ ImportInv)
<1>1. EscrowInit => EscrowInv /\ ImportInv
  BY EscrowStarts, ImportStarts
<1>2. EscrowInv /\ ImportInv /\ [EscrowNext]_escrowVars => (EscrowInv /\ ImportInv)'
  BY EscrowSteps, ImportSteps
<1> QED
  BY <1>1, <1>2, PTL DEF EscrowSpec

\* The counters of the result file never exceed what is in the registry, for
\* any deposit and any number of workers that share them without a lock
\* (escrow_service.go, createContact to createNNDN).
THEOREM CountsAreStored == EscrowSpec => []CountedAreStored
<1>1. EscrowInv => CountedAreStored
  BY CountedIsStored
<1> QED
  BY <1>1, EscrowInvariant, PTL

\* An import that found whole files, had every call answered and finished has
\* brought in all that the tool sends and the API accepts, delegations included,
\* for any deposit and any number of workers, but for the delegations to a host
\* below the domain that is in the registry without its address
\* (escrow_service.go, ExtractContacts to LinkHostsToDomains; Domain.AddHost).
THEOREM CleanImportsComplete == EscrowSpec => []CleanImportCompletes
<1>1. EscrowInv /\ ImportInv => CleanImportCompletes
  BY FinishedIsComplete
<1> QED
  BY <1>1, EscrowInvariant, PTL
\* The tool: domains.csv is empty or complete, what is mapped are registrars,
\* a free worker holds nothing, and calls and runs are bounded.
FilesTyped ==
    /\ files.domains \in {{}, Domains}
    /\ files.analysis.mapped \subseteq Registrars
    /\ tool.mapped \subseteq Registrars

FreeHoldNothing ==
    \A w \in Workers : worker[w].at = "free" => worker[w] = FreeWorkers[w]

WithinBounds == faults \in 0 .. MaxFaults /\ runs \in 0 .. MaxRuns

\* What a step of a worker does to its job.
LEMMA WorkersFreed ==
    ASSUME ToolTyped, FreeHoldNothing, NEW w \in Workers, WorkerStep(w)
    PROVE  FreeHoldNothing' /\ files' = files /\ tool'.mapped = tool.mapped
<1>1. worker \in [Workers -> Jobs]
  BY DEF ToolTyped
<1>2. ASSUME NEW job, worker' = [worker EXCEPT ![w] = job],
             job = FreeWorkers[w] \/ job.at # "free"
      PROVE  FreeHoldNothing'
  <2> SUFFICES ASSUME NEW v \in Workers, worker'[v].at = "free"
               PROVE  worker'[v] = FreeWorkers[v]
    BY DEF FreeHoldNothing, FreeWorkers
  <2>1. CASE v = w
    BY <1>1, <1>2, <2>1
  <2>2. CASE v # w
    BY <1>1, <1>2, <2>2 DEF FreeHoldNothing
  <2> QED
    BY <2>1, <2>2
<1>3. \A c, o : Counting(w, c, o) = FreeWorkers[w] \/ Counting(w, c, o).at # "free"
  BY DEF Counting
<1>4. tool'.mapped = tool.mapped /\ files' = files
  BY DEF WorkerStep, Take, Reply, Fails, ServerError, NoAnswer, ReadCounter, WriteCounter,
         ToolTyped
<1>5. CASE \E c \in tool.todo : Take(w, c)
  <2>1. PICK c \in tool.todo : Take(w, c)
    BY <1>5
  <2> DEFINE job == IF Unsendable(c) THEN Counting(w, c, "failed")
                    ELSE [worker[w] EXCEPT !.at = "sent", !.command = c]
  <2>2. worker' = [worker EXCEPT ![w] = job]
    BY <1>1, <2>1 DEF Take
  <2>3. job = FreeWorkers[w] \/ job.at # "free"
    BY <1>1, <1>3 DEF Jobs
  <2> HIDE DEF job
  <2> QED
    BY <1>2, <1>4, <2>2, <2>3
<1>6. CASE Reply(w) \/ ServerError(w) \/ NoAnswer(w)
  <2>1. \E o : worker' = [worker EXCEPT ![w] = Counting(w, worker[w].command, o)]
    BY <1>6 DEF Reply, ServerError, NoAnswer, Fails
  <2> QED
    BY <1>2, <1>3, <1>4, <2>1
<1>7. CASE ReadCounter(w)
  <2> DEFINE job == [worker[w] EXCEPT !.at = "counting",
                       !.read = counted[worker[w].command.kind][worker[w].outcome]]
  <2>1. worker' = [worker EXCEPT ![w] = job]
    BY <1>1, <1>7 DEF ReadCounter
  <2>2. job.at = "counting"
    BY <1>1 DEF Jobs
  <2> HIDE DEF job
  <2> QED
    BY <1>2, <1>4, <2>1, <2>2
<1>8. CASE WriteCounter(w)
  BY <1>2, <1>4, <1>8 DEF WriteCounter
<1> QED
  BY <1>5, <1>6, <1>7, <1>8 DEF WorkerStep

LEMMA OthersFreed ==
    ASSUME FreeHoldNothing, EscrowNext, ~ \E w \in Workers : WorkerStep(w)
    PROVE  FreeHoldNothing'
<1>1. worker' \in {worker, FreeWorkers}
  BY DEF EscrowNext, ToolStep, AnalysisStep, ImportStep, StartAnalysis, StartImport, StartTool,
         ToolDies, ReadFails, AnalyzeTags, AnalyzeDomains, AnalyzeContacts, SaveAnalysis,
         MapRegistrars, LoadDepositAnalysis, LoadUniqueContactIDs, CheckTLD, ExtractContacts,
         ExtractNNDNS, ExtractHosts, ExtractDomains, LinkHostsToDomains, SaveImportResult,
         WaitGroupDone
<1> QED
  BY <1>1 DEF FreeHoldNothing

LEMMA FilesStayTyped ==
    ASSUME ToolTyped, FilesTyped, EscrowNext, ~ \E w \in Workers : WorkerStep(w)
    PROVE  FilesTyped'
<1> DEFINE Shape(f) == f = [contacts |-> f.contacts, domains |-> f.domains,
                            analysis |-> f.analysis]
<1>1. ASSUME NEW s, GoTo(s) PROVE tool'.mapped = tool.mapped
  BY <1>1 DEF GoTo, ToolTyped
<1>2. ASSUME NEW s, NEW cmds, Send(cmds, s) PROVE tool'.mapped = tool.mapped
  BY <1>2 DEF Send, ToolTyped
<1>3. ASSUME NEW m \in SUBSET Registrars, tool'.mapped = m, files'.domains \in {{}, Domains},
             files'.analysis.mapped \subseteq Registrars
      PROVE  FilesTyped'
  BY <1>3 DEF FilesTyped
<1>4. CASE \/ StartAnalysis \/ StartImport \/ ToolDies \/ ReadFails
  <2>1. tool'.mapped = {}
    BY <1>4 DEF StartAnalysis, StartImport, StartTool, ToolDies, ReadFails, Off
  <2>2. files'.domains = files.domains /\ files'.analysis = files.analysis
    BY <1>4 DEF StartAnalysis, StartImport, StartTool, ToolDies, ReadFails, ToolTyped
  <2> QED
    BY <2>1, <2>2 DEF FilesTyped
<1>5. CASE AnalyzeTags \/ SaveImportResult \/ WaitGroupDone
  BY <1>1, <1>5 DEF AnalyzeTags, SaveImportResult, WaitGroupDone, FilesTyped
<1>6. CASE AnalyzeDomains
  BY <1>1, <1>6 DEF AnalyzeDomains, OpenDomains, ToolTyped, FilesTyped
<1>7. CASE AnalyzeContacts
  BY <1>1, <1>7 DEF AnalyzeContacts, OpenContacts, ToolTyped, FilesTyped
<1>8. CASE SaveAnalysis
  BY <1>1, <1>8 DEF SaveAnalysis, ToolTyped, FilesTyped
<1>9. ASSUME NEW asked \in BOOLEAN, NEW unanswered \in SUBSET Listed,
             MapRegistrars(asked, unanswered)
      PROVE  FilesTyped'
  <2>1. files' = files /\ tool'.mapped \subseteq Registrars
    BY <1>9, DepositAssumption DEF MapRegistrars, ToolTyped
  <2> QED
    BY <2>1 DEF FilesTyped
<1>10. ASSUME NEW ignore \in BOOLEAN, LoadDepositAnalysis(ignore) PROVE FilesTyped'
  <2>1. files' = files /\ tool'.mapped \in {{}, files.analysis.mapped}
    BY <1>10 DEF LoadDepositAnalysis, ToolTyped, Off
  <2> QED
    BY <2>1 DEF FilesTyped
<1>11. CASE LoadUniqueContactIDs
  BY <1>11 DEF LoadUniqueContactIDs, ToolTyped, FilesTyped
<1>12. ASSUME NEW allowed \in BOOLEAN, CheckTLD(allowed) PROVE FilesTyped'
  <2>1. files' = files /\ tool'.mapped \in {{}, tool.mapped}
    BY <1>1, <1>12 DEF CheckTLD, Off
  <2> QED
    BY <2>1 DEF FilesTyped
<1>13. CASE ExtractContacts \/ ExtractDomains
  <2>1. tool'.mapped = tool.mapped
    BY <1>1, <1>2, <1>13
       DEF ExtractContacts, ExtractDomains, OpenContacts, OpenDomains, CreateContacts,
           CreateDomains
  <2>2. files'.domains \in {files.domains, {}, Domains} /\ files'.analysis = files.analysis
    BY <1>13 DEF ExtractContacts, ExtractDomains, OpenContacts, OpenDomains, ToolTyped
  <2> QED
    BY <2>1, <2>2 DEF FilesTyped
<1>14. CASE ExtractNNDNS \/ ExtractHosts \/ LinkHostsToDomains
  <2>1. tool'.mapped = tool.mapped /\ files' = files
    BY <1>1, <1>2, <1>14
       DEF ExtractNNDNS, ExtractHosts, LinkHostsToDomains, CreateNNDNs, CreateHosts
  <2> QED
    BY <2>1 DEF FilesTyped
<1> QED
  BY <1>4, <1>5, <1>6, <1>7, <1>8, <1>9, <1>10, <1>11, <1>12, <1>13, <1>14
     DEF EscrowNext, ToolStep, AnalysisStep, ImportStep

LEMMA BoundsKept ==
    ASSUME WithinBounds, EscrowNext
    PROVE  WithinBounds'
<1>1. MaxRuns \in Nat /\ MaxFaults \in Nat
  BY DepositAssumption
<1>2. \/ faults' = faults
      \/ faults < MaxFaults /\ faults' = faults + 1
      \/ \E u \in SUBSET Listed :
           Cardinality(u) <= MaxFaults - faults /\ faults' = faults + Cardinality(u)
  BY DEF EscrowNext, ToolStep, AnalysisStep, ImportStep, StartAnalysis, StartImport, StartTool,
         ToolDies, ReadFails, AnalyzeTags, AnalyzeDomains, AnalyzeContacts, SaveAnalysis,
         MapRegistrars, LoadDepositAnalysis, LoadUniqueContactIDs, CheckTLD, ExtractContacts,
         ExtractNNDNS, ExtractHosts, ExtractDomains, LinkHostsToDomains, SaveImportResult,
         WaitGroupDone, WorkerStep, Take, Reply, Fails, ServerError, NoAnswer, ReadCounter,
         WriteCounter
<1>3. runs' = runs \/ (runs < MaxRuns /\ runs' = runs + 1)
  BY DEF EscrowNext, ToolStep, AnalysisStep, ImportStep, StartAnalysis, StartImport, StartTool,
         ToolDies, ReadFails, AnalyzeTags, AnalyzeDomains, AnalyzeContacts, SaveAnalysis,
         MapRegistrars, LoadDepositAnalysis, LoadUniqueContactIDs, CheckTLD, ExtractContacts,
         ExtractNNDNS, ExtractHosts, ExtractDomains, LinkHostsToDomains, SaveImportResult,
         WaitGroupDone, WorkerStep, Take, Reply, Fails, ServerError, NoAnswer, ReadCounter,
         WriteCounter
<1>4. \A u \in SUBSET Listed : Cardinality(u) \in Nat
  <2>1. IsFiniteSet(Listed)
    BY DepositAssumption, FS_Subset
  <2> QED
    BY <2>1, FS_Subset, FS_CardinalityType
<1> QED
  BY <1>1, <1>2, <1>3, <1>4 DEF WithinBounds

EscrowBounds == FilesTyped /\ FreeHoldNothing /\ WithinBounds

LEMMA EscrowBoundsStart == EscrowInit => EscrowBounds
  BY DepositAssumption
     DEF EscrowInit, EscrowBounds, FilesTyped, FreeHoldNothing, WithinBounds, NoAnalysis, Off,
         FreeWorkers

LEMMA EscrowBoundsStay ==
    ASSUME ToolTyped, EscrowBounds, [EscrowNext]_escrowVars
    PROVE  EscrowBounds'
<1>1. CASE UNCHANGED escrowVars
  BY <1>1 DEF escrowVars, EscrowBounds, FilesTyped, FreeHoldNothing, WithinBounds
<1>2. CASE EscrowNext
  <2>1. WithinBounds'
    BY <1>2, BoundsKept DEF EscrowBounds
  <2>2. ASSUME NEW w \in Workers, WorkerStep(w) PROVE FilesTyped' /\ FreeHoldNothing'
    BY <2>2, WorkersFreed DEF EscrowBounds, FilesTyped
  <2> QED
    BY <1>2, <2>1, <2>2, OthersFreed, FilesStayTyped DEF EscrowBounds
<1> QED
  BY <1>1, <1>2

LEMMA EscrowTyped == EscrowInv /\ EscrowBounds => EscrowTypeOK
  BY DEF EscrowInv, ToolTyped, BatchesInv, EscrowBounds, FilesTyped, FreeHoldNothing,
         WithinBounds, EscrowTypeOK

-----------------------------------------------------------------------------
(* THE REMOVAL OF ALL HOSTS                                                *)

(* The array that a call starts with.                                      *)

Enumerates(A, S) ==
    /\ A \in [1 .. Cardinality(S) -> S]
    /\ \A p, q \in 1 .. Cardinality(S) : A[p] = A[q] => p = q
    /\ \A h \in S : \E p \in 1 .. Cardinality(S) : A[p] = h

LEMMA HostsFinite ==
    ASSUME NEW S \in SUBSET (1 .. MaxHosts)
    PROVE  /\ IsFiniteSet(S) /\ Cardinality(S) \in Nat
           /\ \A T \in SUBSET S : IsFiniteSet(T) /\ Cardinality(T) \in Nat
                                  /\ Cardinality(T) <= Cardinality(S)
                                  /\ (T # S => Cardinality(T) < Cardinality(S))
<1>1. IsFiniteSet(S)
  <2>1. IsFiniteSet(1 .. MaxHosts)
    BY DetachAssumption, FS_Interval
  <2> QED
    BY <2>1, FS_Subset
<1>2. Cardinality(S) \in Nat
  BY <1>1, FS_CardinalityType
<1>3. ASSUME NEW T \in SUBSET S
      PROVE  IsFiniteSet(T) /\ Cardinality(T) \in Nat /\ Cardinality(T) <= Cardinality(S)
             /\ (T # S => Cardinality(T) < Cardinality(S))
  <2>1. IsFiniteSet(T) /\ Cardinality(T) <= Cardinality(S)
        /\ (Cardinality(S) = Cardinality(T) => S = T)
    BY <1>1, FS_Subset
  <2>2. Cardinality(T) \in Nat
    BY <2>1, FS_CardinalityType
  <2> QED
    BY <1>2, <2>1, <2>2
<1> QED
  BY <1>1, <1>2, <1>3

\* The rank of a host tells it from the others, and every rank is taken.
LEMMA AscendingEnumerates ==
    ASSUME NEW S \in SUBSET (1 .. MaxHosts)
    PROVE  Enumerates(Ascending(S), S)
<1> DEFINE k == Cardinality(S)
           below(h) == {g \in S : g <= h}
           rank == [h \in S |-> Cardinality(below(h))]
<1>1. IsFiniteSet(S) /\ k \in Nat
  BY HostsFinite
<1>2. ASSUME NEW h \in S PROVE rank[h] \in 1 .. k
  <2>1. below(h) \in SUBSET S /\ h \in below(h)
    BY DetachAssumption
  <2>2. IsFiniteSet(below(h)) /\ Cardinality(below(h)) \in Nat /\ Cardinality(below(h)) <= k
    BY <2>1, HostsFinite
  <2>3. Cardinality(below(h)) # 0
    BY <2>1, <2>2, FS_EmptySet
  <2> QED
    BY <1>1, <2>2, <2>3
<1>3. ASSUME NEW g \in S, NEW h \in S, g < h PROVE rank[g] < rank[h]
  <2>1. \A x \in S : x \in Nat
    BY DetachAssumption
  <2>2. below(h) \in SUBSET (1 .. MaxHosts)
    OBVIOUS
  <2>3. h \in below(h) /\ h \notin below(g)
    BY <1>3, <2>1
  <2>4. \A x \in below(g) : x \in below(h)
    BY <1>3, <2>1
  <2>5. below(g) \in SUBSET below(h) /\ below(g) # below(h)
    BY <2>3, <2>4
  <2> HIDE DEF below
  <2>6. Cardinality(below(g)) < Cardinality(below(h))
    BY <2>2, <2>5, HostsFinite
  <2> QED
    BY <2>6
<1>4. ASSUME NEW g \in S, NEW h \in S, rank[g] = rank[h] PROVE g = h
  <2>1. g \in Nat /\ h \in Nat /\ rank[g] \in Nat /\ rank[h] \in Nat
    BY <1>1, <1>2, DetachAssumption
  <2>2. ~ (g < h) /\ ~ (h < g)
    BY <1>3, <1>4, <2>1
  <2> QED
    BY <2>1, <2>2
<1> HIDE DEF rank
<1>5. rank \in [S -> 1 .. k]
  <2>1. rank = [h \in S |-> rank[h]]
    BY DEF rank
  <2> QED
    BY <1>2, <2>1
<1>6. rank \in Injection(S, 1 .. k)
  BY <1>4, <1>5 DEF Injection, IsInjective
<1>7. IsFiniteSet(1 .. k) /\ Cardinality(1 .. k) = k
  BY <1>1, FS_Interval
<1>8. rank \in Surjection(S, 1 .. k)
  BY <1>6, <1>7, FS_Injection
<1>9. \A p \in 1 .. k : \E h \in S : rank[h] = p
  BY <1>8 DEF Surjection
<1>10. \A h \in S : rank[h] = Cardinality({g \in S : g <= h})
  BY DEF rank
<1>11. ASSUME NEW p \in 1 .. k
       PROVE  Ascending(S)[p] \in S /\ rank[Ascending(S)[p]] = p
  <2>1. \E h \in S : Cardinality({g \in S : g <= h}) = p
    BY <1>9, <1>10
  <2>2. Ascending(S)[p] = CHOOSE h \in S : Cardinality({g \in S : g <= h}) = p
    BY DEF Ascending
  <2> QED
    BY <1>10, <2>1, <2>2
<1>12. ASSUME NEW h \in S PROVE Ascending(S)[rank[h]] = h /\ rank[h] \in 1 .. k
  BY <1>2, <1>4, <1>11
<1>13. Ascending(S) \in [1 .. k -> S]
  <2>1. Ascending(S) = [p \in 1 .. k |-> Ascending(S)[p]]
    BY DEF Ascending
  <2> QED
    BY <1>11, <2>1
<1> QED
  BY <1>11, <1>12, <1>13 DEF Enumerates

LEMMA Lengths ==
    ASSUME NEW n \in Nat, NEW S, NEW A \in [1 .. n -> S]
    PROVE  A \in Seq(S) /\ Len(A) = n
  OBVIOUS

LEMMA ReverseEnumerates ==
    ASSUME NEW S \in SUBSET (1 .. MaxHosts), NEW A, Enumerates(A, S)
    PROVE  Enumerates(Reverse(A), S)
<1> DEFINE k == Cardinality(S)
<1>1. k \in Nat /\ A \in [1 .. k -> S] /\ Len(A) = k
  BY HostsFinite, Lengths DEF Enumerates
<1>2. Reverse(A) = [p \in 1 .. k |-> A[(k - p) + 1]]
  BY <1>1 DEF Reverse
<1>3. Reverse(A) \in [1 .. k -> S]
  BY <1>1, <1>2
<1>4. ASSUME NEW p \in 1 .. k, NEW q \in 1 .. k, Reverse(A)[p] = Reverse(A)[q]
      PROVE  p = q
  <2>1. A[(k - p) + 1] = A[(k - q) + 1]
    BY <1>2, <1>4
  <2> QED
    BY <1>1, <2>1 DEF Enumerates
<1>5. ASSUME NEW h \in S PROVE \E p \in 1 .. k : Reverse(A)[p] = h
  <2>1. PICK q \in 1 .. k : A[q] = h
    BY DEF Enumerates
  <2>2. (k - q) + 1 \in 1 .. k /\ (k - ((k - q) + 1)) + 1 = q
    BY <1>1
  <2> QED
    BY <1>2, <2>1, <2>2
<1> QED
  BY <1>3, <1>4, <1>5 DEF Enumerates

-----------------------------------------------------------------------------
(* The array after m iterations: they have removed the hosts in the odd    *)
(* places of the array A they started with, so that the even ones are in   *)
(* front; the rest of A is behind them, and its last host fills the end.   *)

Least(p, k) == IF p <= k THEN p ELSE k
Source(p, m, k) == IF p <= m THEN Least(2 * p, k) ELSE Least(p + m, k)

Shifted(A, m, k) ==
    /\ array \in [1 .. k -> loaded]
    /\ \A p \in 1 .. k : array[p] = A[Source(p, m, k)]

LoopInv(k) ==
    /\ i \in 1 .. k + 1 /\ length = k - (i - 1)
    /\ \E A : Enumerates(A, loaded) /\ Shifted(A, i - 1, k)
    /\ links = {array[p] : p \in 1 .. length}
    /\ i - 1 <= Detached(k)
    /\ phase = "failed" => i - 1 = Detached(k) /\ DetachFails(k)
    /\ phase = "done" => i = k + 1

DetachInv ==
    /\ links \in SUBSET (1 .. MaxHosts) /\ loaded \in SUBSET (1 .. MaxHosts)
    /\ phase \in {"call", "loop", "done", "failed"}
    /\ phase # "call" => LoopInv(Cardinality(loaded))

LEMMA SourceTyped ==
    ASSUME NEW k \in Nat, NEW m \in 0 .. k, NEW p \in 1 .. k
    PROVE  Source(p, m, k) \in 1 .. k
  BY DEF Source, Least

\* The hosts in front of the first length places are different ones.
LEMMA PlacesDiffer ==
    ASSUME NEW k \in Nat, NEW m \in 0 .. k, NEW A, Enumerates(A, loaded),
           Cardinality(loaded) = k, Shifted(A, m, k),
           NEW p \in 1 .. k - m, NEW q \in 1 .. k - m, array[p] = array[q]
    PROVE  p = q
<1>1. p \in 1 .. k /\ q \in 1 .. k
  OBVIOUS
<1>2. A[Source(p, m, k)] = A[Source(q, m, k)]
  BY <1>1 DEF Shifted
<1>3. Source(p, m, k) \in 1 .. k /\ Source(q, m, k) \in 1 .. k
  BY <1>1, SourceTyped
<1>4. Source(p, m, k) = Source(q, m, k)
  BY <1>2, <1>3 DEF Enumerates
<1> QED
  BY <1>4 DEF Source, Least

\* Where the host at hand is found.
LEMMA FoundWhere ==
    ASSUME NEW k \in Nat, NEW m \in 0 .. k - 1, NEW A, Enumerates(A, loaded),
           Cardinality(loaded) = k, Shifted(A, m, k), NEW p \in 1 .. k - m
    PROVE  array[p] = array[m + 1] <=>
               \/ p = m + 1 /\ 2 * m + 1 <= k
               \/ p = m /\ k = 2 * m
<1>1. p \in 1 .. k /\ m + 1 \in 1 .. k /\ m \in 0 .. k
  OBVIOUS
<1>2. array[p] = array[m + 1] <=> A[Source(p, m, k)] = A[Source(m + 1, m, k)]
  BY <1>1 DEF Shifted
<1>4. Source(p, m, k) \in 1 .. k /\ Source(m + 1, m, k) \in 1 .. k
  BY <1>1, SourceTyped
<1>5. A[Source(p, m, k)] = A[Source(m + 1, m, k)] <=> Source(p, m, k) = Source(m + 1, m, k)
  BY <1>4 DEF Enumerates
<1>3. Source(p, m, k) = Source(m + 1, m, k) <=>
               \/ p = m + 1 /\ 2 * m + 1 <= k
               \/ p = m /\ k = 2 * m
  BY DEF Source, Least
<1> QED
  BY <1>2, <1>3, <1>5

\* What the shift of one iteration does to the places.
LEMMA ShiftOnce ==
    ASSUME NEW k \in Nat, NEW m \in 0 .. k - 1, NEW index \in 1 .. k - m,
           \/ index = m + 1 /\ 2 * m + 1 <= k
           \/ index = m /\ k = 2 * m,
           NEW p \in 1 .. k
    PROVE  Source(p, m + 1, k) =
              IF p \in index .. (k - m) - 1 THEN Source(p + 1, m, k) ELSE Source(p, m, k)
  BY DEF Source, Least

LEMMA DetachedBy ==
    ASSUME NEW k \in Nat, NEW m \in 0 .. k
    PROVE  /\ 2 * m + 1 <= k => m + 1 <= Detached(k)
           /\ k = 2 * m /\ m # 0 => m + 1 <= Detached(k)
           /\ k < 2 * m /\ m <= Detached(k) => m = Detached(k)
           /\ k < 2 * m /\ m < k => DetachFails(k)
           /\ k <= Detached(k) => ~ DetachFails(k) /\ Detached(k) = k
           /\ 0 <= Detached(k)
  BY DEF Detached, DetachFails
-----------------------------------------------------------------------------
(* The steps.                                                              *)

LEMMA CallKeepsInv == ASSUME DetachInv, Call PROVE DetachInv'
<1> DEFINE k == Cardinality(links)
<1>1. /\ links \in SUBSET (1 .. MaxHosts) /\ phase' = "loop"
      /\ loaded' = links /\ links' = links /\ length' = k /\ i' = 1
  BY DEF DetachInv, Call
<1>2. k \in Nat
  BY <1>1, HostsFinite
<1>3. Enumerates(array', links)
  BY <1>1, AscendingEnumerates, ReverseEnumerates DEF Call
<1>4. array' \in [1 .. k -> links]
  BY <1>3 DEF Enumerates
<1>5. ASSUME NEW p \in 1 .. k PROVE Source(p, 0, k) = p
  BY <1>2 DEF Source, Least
<1>6. links = {array'[p] : p \in 1 .. k}
  BY <1>3 DEF Enumerates
<1> HIDE DEF k
<1>7. \E A : /\ Enumerates(A, links) /\ array' \in [1 .. k -> links]
             /\ \A p \in 1 .. k : array'[p] = A[Source(p, i' - 1, k)]
  BY <1>1, <1>2, <1>3, <1>4, <1>5
<1>8. i' \in 1 .. k + 1 /\ length' = k - (i' - 1) /\ i' - 1 <= Detached(k)
  BY <1>1, <1>2, DetachedBy
<1>9. LoopInv(k)'
  BY <1>1, <1>6, <1>7, <1>8 DEF LoopInv, Shifted, k
<1> QED
  BY <1>1, <1>9 DEF DetachInv, k
LEMMA RemovalKeepsInv == ASSUME DetachInv, RemoveHost PROVE DetachInv'
<1> DEFINE k == Cardinality(loaded)
           m == i - 1
<1>1. /\ loaded \in SUBSET (1 .. MaxHosts) /\ phase = "loop" /\ i <= Len(array)
      /\ phase' = "loop" /\ loaded' = loaded /\ length' = length - 1 /\ i' = i + 1
      /\ LoopInv(k)
  BY DEF DetachInv, RemoveHost
<1>2. k \in Nat
  BY <1>1, HostsFinite
<1>3. PICK A : Enumerates(A, loaded) /\ Shifted(A, m, k)
  BY <1>1 DEF LoopInv
<1>4. array \in [1 .. k -> loaded] /\ Len(array) = k
  BY <1>2, <1>3, Lengths DEF Shifted
<1>5. m \in 0 .. k - 1 /\ i = m + 1 /\ length = k - m
  BY <1>1, <1>2, <1>4 DEF LoopInv
<1>6. PICK index \in Found(array[i]) :
         array' = Compacted(index) /\ links' = links \ {array[i]}
  BY DEF RemoveHost
<1> HIDE DEF k, m
<1>7. index \in 1 .. k - m /\ array[index] = array[m + 1]
  BY <1>5, <1>6 DEF Found
<1>8. \/ index = m + 1 /\ 2 * m + 1 <= k
      \/ index = m /\ k = 2 * m
  BY <1>2, <1>3, <1>5, <1>7, FoundWhere DEF k
<1>9. ASSUME NEW p \in 1 .. k
      PROVE  array'[p] = IF p \in index .. (k - m) - 1 THEN array[p + 1] ELSE array[p]
  BY <1>4, <1>5, <1>6 DEF Compacted
<1>10. array' = [p \in 1 .. k |-> array'[p]]
  BY <1>4, <1>6 DEF Compacted
<1>11. ASSUME NEW p \in 1 .. k
       PROVE  array'[p] \in loaded /\ array'[p] = A[Source(p, m + 1, k)]
  <2>1. p \in index .. (k - m) - 1 => p + 1 \in 1 .. k
    BY <1>2, <1>5
  <2>2. /\ array[p] = A[Source(p, m, k)]
        /\ p + 1 \in 1 .. k => array[p + 1] = A[Source(p + 1, m, k)]
    BY <1>3 DEF Shifted
  <2>3. Source(p, m + 1, k) =
           IF p \in index .. (k - m) - 1 THEN Source(p + 1, m, k) ELSE Source(p, m, k)
    BY <1>2, <1>5, <1>7, <1>8, ShiftOnce
  <2> QED
    BY <1>4, <1>9, <2>1, <2>2, <2>3
<1>12. array' \in [1 .. k -> loaded]
  BY <1>10, <1>11
<1>13. links' = {array'[p] : p \in 1 .. (k - m) - 1}
  <2>1. links = {array[p] : p \in 1 .. k - m}
    BY <1>1, <1>5 DEF LoopInv
  <2>2. \A p \in 1 .. k - m : array[p] = array[index] => p = index
    BY <1>2, <1>3, <1>5, <1>7, PlacesDiffer DEF k
  <2>3. ASSUME NEW h \in links' PROVE h \in {array'[p] : p \in 1 .. (k - m) - 1}
    <3>1. PICK p \in 1 .. k - m : array[p] = h
      BY <1>6, <2>1, <2>3
    <3>2. p # index
      BY <1>5, <1>6, <1>7, <2>3, <3>1
    <3>3. CASE p < index
      <4>1. p \in 1 .. (k - m) - 1 /\ array'[p] = h
        BY <1>2, <1>5, <1>7, <1>9, <3>1, <3>3
      <4> QED
        BY <4>1
    <3>4. CASE p > index
      <4>1. p - 1 \in 1 .. (k - m) - 1 /\ p - 1 \in index .. (k - m) - 1
            /\ p - 1 \in 1 .. k /\ (p - 1) + 1 = p
        BY <1>2, <1>5, <1>7, <3>4
      <4>2. array'[p - 1] = h
        BY <1>9, <3>1, <4>1
      <4> QED
        BY <4>1, <4>2
    <3> QED
      BY <1>2, <1>5, <1>7, <3>2, <3>3, <3>4
  <2>4. ASSUME NEW p \in 1 .. (k - m) - 1 PROVE array'[p] \in links'
    <3>1. PICK q \in 1 .. k - m : array'[p] = array[q] /\ q # index
      <4>1. p \in 1 .. k /\ p \in 1 .. k - m /\ p + 1 \in 1 .. k - m
        BY <1>2, <1>5
      <4>2. CASE p \in index .. (k - m) - 1
        <5>1. array'[p] = array[p + 1] /\ p + 1 # index
          BY <1>7, <1>9, <4>1, <4>2
        <5> QED
          BY <4>1, <5>1
      <4>3. CASE p \notin index .. (k - m) - 1
        <5>1. array'[p] = array[p] /\ p # index
          BY <1>5, <1>7, <1>9, <4>1, <4>3
        <5> QED
          BY <4>1, <5>1
      <4> QED
        BY <4>2, <4>3
    <3>2. array[q] \in links /\ array[q] # array[index]
      BY <2>1, <2>2, <3>1
    <3> QED
      BY <1>5, <1>6, <1>7, <3>1, <3>2
  <2> QED
    BY <2>3, <2>4
<1>14. i' \in 1 .. k + 1 /\ i' - 1 = m + 1 /\ length' = k - (i' - 1)
       /\ length' = (k - m) - 1
  BY <1>1, <1>2, <1>5
<1>15. m + 1 <= Detached(k)
  BY <1>2, <1>5, <1>7, <1>8, DetachedBy
<1>16. \E B : /\ Enumerates(B, loaded) /\ array' \in [1 .. k -> loaded]
              /\ \A p \in 1 .. k : array'[p] = B[Source(p, i' - 1, k)]
  BY <1>3, <1>11, <1>12, <1>14
<1>17. links' = {array'[p] : p \in 1 .. length'}
  BY <1>13, <1>14
<1>18. i' - 1 <= Detached(k)
  BY <1>14, <1>15
<1>19. LoopInv(k)'
  BY <1>1, <1>14, <1>16, <1>17, <1>18 DEF LoopInv, Shifted, k
<1>20. links' \in SUBSET (1 .. MaxHosts)
  BY <1>6 DEF DetachInv
<1> QED
  BY <1>1, <1>19, <1>20 DEF DetachInv, k
LEMMA SearchFailsKeepsInv == ASSUME DetachInv, HostNotFound PROVE DetachInv'
<1> DEFINE k == Cardinality(loaded)
           m == i - 1
<1>1. /\ loaded \in SUBSET (1 .. MaxHosts) /\ phase = "loop" /\ i <= Len(array)
      /\ phase' = "failed" /\ Found(array[i]) = {} /\ LoopInv(k)
      /\ UNCHANGED <<links, loaded, array, length, i>>
  BY DEF DetachInv, HostNotFound
<1>2. k \in Nat
  BY <1>1, HostsFinite
<1>3. PICK A : Enumerates(A, loaded) /\ Shifted(A, m, k)
  BY <1>1 DEF LoopInv
<1>4. array \in [1 .. k -> loaded] /\ Len(array) = k
  BY <1>2, <1>3, Lengths DEF Shifted
<1>5. m \in 0 .. k - 1 /\ i = m + 1 /\ length = k - m
  BY <1>1, <1>2, <1>4 DEF LoopInv
<1> HIDE DEF k, m
<1>6. \A p \in 1 .. k - m : array[p] # array[m + 1]
  BY <1>1, <1>5 DEF Found
<1>7. k < 2 * m
  <2>1. ASSUME 2 * m + 1 <= k PROVE FALSE
    <3>1. m + 1 \in 1 .. k - m
      BY <1>2, <1>5, <2>1
    <3> QED
      BY <1>6, <3>1
  <2>2. ASSUME k = 2 * m PROVE FALSE
    <3>1. m \in 1 .. k - m
      BY <1>2, <1>5, <2>2
    <3>2. array[m] = array[m + 1]
      BY <1>2, <1>3, <1>5, <2>2, <3>1, FoundWhere DEF k
    <3> QED
      BY <1>6, <3>1, <3>2
  <2> QED
    BY <1>2, <1>5, <2>1, <2>2
<1>8. m <= Detached(k)
  BY <1>1 DEF LoopInv, m
<1>9. m = Detached(k) /\ DetachFails(k)
  BY <1>2, <1>5, <1>7, <1>8, DetachedBy
<1>10. LoopInv(k)'
  BY <1>1, <1>9 DEF LoopInv, Shifted, k, m
<1> QED
  BY <1>1, <1>10 DEF DetachInv, k

LEMMA DetachSteps ==
    ASSUME DetachInv, [Next]_vars
    PROVE  DetachInv'
<1>1. CASE UNCHANGED vars
  BY <1>1 DEF vars, DetachInv, LoopInv, Shifted
<1>2. CASE SaveDomain
  <2> DEFINE k == Cardinality(loaded)
  <2>1. /\ loaded \in SUBSET (1 .. MaxHosts) /\ phase = "loop" /\ i > Len(array)
        /\ phase' = "done" /\ LoopInv(k)
        /\ UNCHANGED <<links, loaded, array, length, i>>
    BY <1>2 DEF DetachInv, SaveDomain
  <2>2. Len(array) = k /\ k \in Nat
    BY <2>1, HostsFinite, Lengths DEF LoopInv, Shifted
  <2>3. i = k + 1
    BY <2>1, <2>2 DEF LoopInv
  <2>4. LoopInv(k)'
    BY <2>1, <2>3 DEF LoopInv, Shifted
  <2> QED
    BY <2>1, <2>4 DEF DetachInv
<1>3. CASE Retry
  BY <1>3 DEF Retry, DetachInv
<1> QED
  BY <1>1, <1>2, <1>3, CallKeepsInv, RemovalKeepsInv, SearchFailsKeepsInv DEF Next

LEMMA DetachStarts == Init => DetachInv
  BY DEF Init, DetachInv

\* What has been removed is counted by the iterations.
LEMMA InvSummarises == DetachInv => LoopSummary
<1> SUFFICES ASSUME DetachInv, phase # "call" PROVE LoopSummary
  BY DEF LoopSummary, Returned
<1> DEFINE k == Cardinality(loaded)
           m == i - 1
<1>1. loaded \in SUBSET (1 .. MaxHosts) /\ LoopInv(k)
  BY DEF DetachInv
<1>2. k \in Nat
  BY <1>1, HostsFinite
<1>3. PICK A : Enumerates(A, loaded) /\ Shifted(A, m, k)
  BY <1>1 DEF LoopInv
<1>4. m \in 0 .. k /\ length = k - m /\ links = {array[p] : p \in 1 .. length}
  BY <1>1, <1>2 DEF LoopInv
<1>5. array \in [1 .. k -> loaded]
  BY <1>3 DEF Shifted
<1> HIDE DEF k, m
<1>6. links \in SUBSET loaded /\ IsFiniteSet(loaded) /\ IsFiniteSet(links)
  <2>1. links \in SUBSET loaded
    BY <1>2, <1>4, <1>5
  <2> QED
    BY <1>1, <2>1, HostsFinite
<1>7. Cardinality(links) = k - m
  <2> DEFINE f == [p \in 1 .. k - m |-> array[p]]
  <2>1. f \in [1 .. k - m -> links]
    BY <1>4
  <2>2. \A p, q \in 1 .. k - m : f[p] = f[q] => p = q
    BY <1>2, <1>3, <1>4, PlacesDiffer DEF k
  <2>3. \A h \in links : \E p \in 1 .. k - m : f[p] = h
    BY <1>4
  <2> HIDE DEF f
  <2>4. f \in Injection(1 .. k - m, links) /\ f \in Surjection(1 .. k - m, links)
    BY <2>1, <2>2, <2>3 DEF Injection, IsInjective, Surjection
  <2>5. Cardinality(1 .. k - m) = Cardinality(links)
    BY <1>6, <2>4, FS_Injection
  <2>6. Cardinality(1 .. k - m) = k - m
    BY <1>2, <1>4, FS_Interval
  <2> QED
    BY <2>5, <2>6
<1>8. Cardinality(loaded \ links) = m
  <2>1. loaded \cap links = links
    BY <1>6
  <2>2. Cardinality(loaded \ links) = k - (k - m)
    BY <1>6, <1>7, <2>1, FS_Difference DEF k
  <2> QED
    BY <1>2, <1>4, <2>2
<1>9. Returned => m = Detached(k) /\ (phase = "failed" <=> DetachFails(k))
  <2>1. CASE phase = "failed"
    BY <1>1, <2>1 DEF LoopInv, m
  <2>2. CASE phase = "done"
    <3>1. m = k /\ m <= Detached(k)
      BY <1>1, <1>2, <2>2 DEF LoopInv, m
    <3>2. ~ DetachFails(k) /\ Detached(k) = k
      BY <1>2, <1>4, <3>1, DetachedBy
    <3> QED
      BY <2>2, <3>1, <3>2
  <2> QED
    BY <2>1, <2>2 DEF Returned
<1> QED
  BY <1>4, <1>8, <1>9 DEF LoopSummary, k

\* However many hosts a domain has and in whichever order the database lists
\* them, the loop that walks the array which RemoveHost shifts under it removes
\* as many as HostRemoval says and fails exactly when HostRemoval says
\* (DomainService.RemoveAllDomainHosts, Domain.RemoveHost).
THEOREM LoopIsSummarised == Spec => []LoopSummary
<1>1. Init => DetachInv
  BY DetachStarts
<1>2. DetachInv /\ [Next]_vars => DetachInv'
  BY DetachSteps
<1>3. DetachInv => LoopSummary
  BY InvSummarises
<1> QED
  BY <1>1, <1>2, <1>3, PTL DEF Spec

-----------------------------------------------------------------------------
(* THE STATUS OF AN IMPORTED OBJECT                                        *)

Said == ToSet(deposit.said)

\* The fix of a pending delete that is prohibited.
Fix == deposit.kind = "domain" /\ deposit.future /\ Said \cap DeleteProhibitions # {}
Fixed == IF Fix THEN Said \ {"pendingDelete"} ELSE Said

\* What each kind of object is like before and after its links are made.
DomainArrives ==
    /\ status \in SUBSET Flags /\ Validate(status)
    /\ stage \in {"command", "stored"} => "inactive" \in status
    /\ stage = "linked" => /\ "inactive" \notin status
                           /\ "ok" \in status <=> Own(status) = {}

HostArrives ==
    /\ status \in SUBSET HostFlags /\ HostStatusValid(status)
    /\ stage = "linked" => "linked" \in status

ContactArrives ==
    /\ status \in SUBSET ContactFlags /\ IsValidContactStatus(status)
    /\ stage # "linked"

DepositInv ==
    /\ deposit.kind \in {"domain", "host", "contact"}
    /\ stage \in {"deposit", "command", "stored", "linked", "refused"}
    /\ stage = "refused" => Contradictory(Fixed) \/ ~ Said \subseteq Known[deposit.kind]
    /\ stage \in {"command", "stored", "linked"} =>
          /\ Own(status) = Own(Fixed)
          /\ deposit.kind = "domain" => DomainArrives
          /\ deposit.kind = "host" => HostArrives
          /\ deposit.kind = "contact" => ContactArrives

LEMMA PendingsFinite ==
    ASSUME NEW S, NEW T \in SUBSET S, NEW p \in T \cap Pendings, NEW q \in S \cap Pendings, p # q
    PROVE  Cardinality(S \cap Pendings) > 1
<1> DEFINE A == S \cap Pendings
<1>1. IsFiniteSet(Pendings)
  <2>1. \A B, x : IsFiniteSet(B) => IsFiniteSet(B \cup {x})
    BY FS_AddElement
  <2>2. IsFiniteSet({"pendingCreate"} \cup {"pendingRenew"} \cup {"pendingTransfer"})
    BY <2>1, FS_Singleton
  <2>3. IsFiniteSet({"pendingCreate"} \cup {"pendingRenew"} \cup {"pendingTransfer"}
                    \cup {"pendingUpdate"} \cup {"pendingRestore"} \cup {"pendingDelete"})
    BY <2>1, <2>2
  <2>4. Pendings = {"pendingCreate"} \cup {"pendingRenew"} \cup {"pendingTransfer"}
                    \cup {"pendingUpdate"} \cup {"pendingRestore"} \cup {"pendingDelete"}
    BY DEF Pendings
  <2> QED
    BY <2>3, <2>4
<1>2. IsFiniteSet(A)
  BY <1>1, FS_Subset
<1>3. Cardinality(A) \in Nat
  BY <1>2, FS_CardinalityType
<1>4. Cardinality(A) # 0
  BY <1>2, FS_EmptySet
<1>5. Cardinality(A) # 1
  <2>1. p \in A /\ q \in A
    OBVIOUS
  <2> HIDE DEF A
  <2>2. ~ \E x : A = {x}
    BY <2>1
  <2> QED
    BY <1>2, <2>2, FS_Singleton
<1> QED
  BY <1>3, <1>4, <1>5

\* The flags of a set that are an object's own.
LEMMA OwnFlags ==
    ASSUME NEW s
    PROVE  /\ s \in SUBSET Flags => Own(s) = s \cap (Prohibitions \cup Pendings)
           /\ Own(s \cup {"ok"}) = Own(s) /\ Own(s \ {"ok"}) = Own(s)
           /\ Own(s \cup {"inactive"}) = Own(s) /\ Own(s \ {"inactive"}) = Own(s)
           /\ Own(s \cup {"linked"}) = Own(s) /\ Own(s \ {"linked"}) = Own(s)
<1>1. s \in SUBSET Flags => Own(s) = s \cap (Prohibitions \cup Pendings)
  BY DEF Own, Flags, Prohibitions, Pendings
<1>2. /\ Own(s \cup {"ok"}) = Own(s) /\ Own(s \ {"ok"}) = Own(s)
      /\ Own(s \cup {"inactive"}) = Own(s) /\ Own(s \ {"inactive"}) = Own(s)
      /\ Own(s \cup {"linked"}) = Own(s) /\ Own(s \ {"linked"}) = Own(s)
  BY DEF Own
<1> QED
  BY <1>1, <1>2

-----------------------------------------------------------------------------
(* From the deposit to the command.                                        *)

\* A domain becomes what it says, fixed and inactive, if that is valid.
LEMMA DomainBecomes ==
    ASSUME deposit.kind = "domain"
    PROVE  RDEDomainToEntity(deposit.said) =
              {s \in {Fixed \cup {"inactive"}} :
                  Validate(s) /\ Said \subseteq Known["domain"]}
<1> DEFINE g == Said \cup {"inactive"}
           E == RDEDomainToEntity(deposit.said)
<1>1. E = {s \in {IF Validate(g) THEN g ELSE FixCNIC01(g)} :
              Validate(s) /\ Said \subseteq Known["domain"]}
  <2>1. Known["domain"] = Flags \ {"pendingRestore"}
    BY DEF Known
  <2>2. CASE Said \subseteq Flags \ {"pendingRestore"}
    <3>1. GetDomainStatusFromRDEDomainStatus(deposit.said) = {Said}
      BY <2>2 DEF GetDomainStatusFromRDEDomainStatus, Said
    <3>2. {SetUnsetInactiveStatus(s, FALSE) : s \in {Said}} = {g}
      BY DEF SetUnsetInactiveStatus
    <3> HIDE DEF g
    <3>3. E = {s \in {IF Validate(h) THEN h ELSE FixCNIC01(h) : h \in {g}} : Validate(s)}
      BY <3>1, <3>2 DEF RDEDomainToEntity
    <3> QED
      BY <2>1, <2>2, <3>3
  <2>3. CASE ~ Said \subseteq Flags \ {"pendingRestore"}
    <3>1. GetDomainStatusFromRDEDomainStatus(deposit.said) = {}
      BY <2>3 DEF GetDomainStatusFromRDEDomainStatus, Said
    <3>2. E = {}
      BY <3>1 DEF RDEDomainToEntity
    <3> QED
      BY <2>1, <2>3, <3>2
  <2> QED
    BY <2>2, <2>3
<1>2. (IF Validate(g) THEN g ELSE FixCNIC01(g)) = Fixed \cup {"inactive"}
  <2>1. "pendingDelete" \in g <=> "pendingDelete" \in Said
    OBVIOUS
  <2>2. g \cap DeleteProhibitions = Said \cap DeleteProhibitions
    BY DEF DeleteProhibitions
  <2>3. Validate(g) => "pendingDelete" \notin Said \/ Said \cap DeleteProhibitions = {}
    BY <2>1, <2>2 DEF Validate, Consistent, PendingNotProhibited
  <2>4. FixCNIC01(g) = IF "pendingDelete" \in Said /\ Fix THEN g \ {"pendingDelete"} ELSE g
    BY <2>1, <2>2, Zenon DEF FixCNIC01, Fix
  <2>5. Fix => Said \cap DeleteProhibitions # {}
    BY DEF Fix
  <2> HIDE DEF Fix
  <2> QED
    BY <2>3, <2>4, <2>5 DEF Fixed
<1> QED
  BY <1>1, <1>2
LEMMA DomainRefusedRightly ==
    ASSUME deposit.kind = "domain", Said \subseteq Known["domain"],
           ~ Validate(Fixed \cup {"inactive"})
    PROVE  Contradictory(Fixed)
<1> DEFINE s == Fixed \cup {"inactive"}
<1>1. Fixed \in SUBSET Flags
  BY DEF Fixed, Known
<1>2. s \cap Pendings = Fixed \cap Pendings /\ s \cap Prohibitions = Fixed \cap Prohibitions
  BY DEF Pendings, Prohibitions
<1>3. CASE ~ OKStandsAlone(s)
  <2>1. "ok" \in Fixed /\ Fixed \cap (Prohibitions \cup Pendings) # {}
    BY <1>2, <1>3 DEF OKStandsAlone, HasPendings, HasProhibitions
  <2>2. Own(Fixed) # {}
    BY <1>1, <2>1, OwnFlags
  <2> QED
    BY <2>1, <2>2 DEF Contradictory
<1>4. CASE ~ PendingNotProhibited(s)
  <2>1. \E p \in Fixed \cap Pendings : Fixed \cap Prohibiting(p) # {}
    BY <1>4
       DEF PendingNotProhibited, Prohibiting, Pendings, UpdateProhibitions,
           DeleteProhibitions, RenewProhibitions, TransferProhibitions
  <2> QED
    BY <2>1 DEF Contradictory
<1>5. CASE ~ AtMostOnePending(s)
  <2>1. PICK p \in Fixed \cap Pendings, q \in Fixed \cap Pendings : p # q
    BY <1>2, <1>5 DEF AtMostOnePending
  <2>2. Cardinality(Fixed \cap Pendings) > 1
    BY <2>1, PendingsFinite
  <2> QED
    BY <2>2 DEF Contradictory
<1> QED
  BY <1>3, <1>4, <1>5 DEF Validate, IsNil, Consistent

LEMMA HostRefusedRightly ==
    ASSUME deposit.kind = "host", Said \subseteq HostFlags,
           ~ HostStatusValid(HostSetOKIfNeeded(Said))
    PROVE  Contradictory(Said)
<1> DEFINE s == HostSetOKIfNeeded(Said)
<1>1. /\ s \cap HostPendings = Said \cap HostPendings
      /\ s \cap HostUpdateProhibitions = Said \cap HostUpdateProhibitions
      /\ s \cap HostDeleteProhibitions = Said \cap HostDeleteProhibitions
      /\ s \cap HostRestrictions = Said \cap HostRestrictions
      /\ "pendingUpdate" \in s <=> "pendingUpdate" \in Said
      /\ "pendingDelete" \in s <=> "pendingDelete" \in Said
  BY DEF HostSetOKIfNeeded, HostPendings, HostUpdateProhibitions,
         HostDeleteProhibitions, HostRestrictions
<1>2. "ok" \in s <=> "ok" \in Said \/ Said \cap HostRestrictions = {}
  BY DEF HostSetOKIfNeeded
<1> HIDE DEF s
<1>3. CASE "ok" \in Said /\ Said \cap HostRestrictions # {}
  <2>1. Own(Said) # {}
    BY <1>3 DEF Own, HostRestrictions, HostPendings, HostUpdateProhibitions,
                HostDeleteProhibitions
  <2> QED
    BY <1>3, <2>1 DEF Contradictory
<1>4. CASE "pendingUpdate" \in Said /\ Said \cap HostUpdateProhibitions # {}
  <2>1. "pendingUpdate" \in Said \cap Pendings /\ Said \cap Prohibiting("pendingUpdate") # {}
    BY <1>4 DEF Pendings, Prohibiting, UpdateProhibitions, HostUpdateProhibitions
  <2> QED
    BY <2>1 DEF Contradictory
<1>5. CASE "pendingDelete" \in Said /\ Said \cap HostDeleteProhibitions # {}
  <2>1. "pendingDelete" \in Said \cap Pendings /\ Said \cap Prohibiting("pendingDelete") # {}
    BY <1>5 DEF Pendings, Prohibiting, DeleteProhibitions, HostDeleteProhibitions
  <2> QED
    BY <2>1 DEF Contradictory
<1>6. CASE ~ (Cardinality(Said \cap HostPendings) <= 1)
  <2> DEFINE A == Said \cap HostPendings
  <2>1. HostPendings \in SUBSET Pendings
    BY DEF HostPendings, Pendings
  <2>2. \E p, q \in A : p # q
    <3>1. ASSUME \A p, q \in A : p = q PROVE FALSE
      <4>1. A = {} \/ \E p : A = {p}
        BY <3>1
      <4> HIDE DEF A
      <4>2. Cardinality(A) \in {0, 1}
        BY <4>1, FS_EmptySet, FS_Singleton
      <4> QED
        BY <1>6, <4>2 DEF A
    <3> QED
      BY <3>1
  <2>3. PICK p \in Said \cap Pendings, q \in Said \cap Pendings : p # q
    BY <2>1, <2>2
  <2>4. Cardinality(Said \cap Pendings) > 1
    BY <2>3, PendingsFinite
  <2> QED
    BY <2>4 DEF Contradictory
<1>7. \/ ~ (Cardinality(Said \cap HostPendings) <= 1)
      \/ "pendingUpdate" \in Said /\ Said \cap HostUpdateProhibitions # {}
      \/ "pendingDelete" \in Said /\ Said \cap HostDeleteProhibitions # {}
      \/ "ok" \in Said /\ Said \cap HostRestrictions # {}
  BY <1>1, <1>2 DEF HostStatusValid, s
<1> QED
  BY <1>3, <1>4, <1>5, <1>6, <1>7

LEMMA Reached ==
    ASSUME NEW next, NEW S, Reach(next, S), next # "refused"
    PROVE  /\ deposit' = deposit /\ Said' = Said /\ Fixed' = Fixed
           /\ \/ S = {} /\ stage' = "refused"
              \/ stage' = next /\ status' \in S
  BY DEF Reach, Said, Fixed, Fix

\* What the objects are to be does not change.
LEMMA ContradictoryStays ==
    ASSUME deposit' = deposit, NEW s
    PROVE  Contradictory(s)' <=> Contradictory(s)
  BY DEF Contradictory

LEMMA HostCommand ==
    ASSUME NEW t \in SUBSET HostFlags, HostStatusValid(t)
    PROVE  /\ HostStatusValid(t \ {"linked"}) /\ t \ {"linked"} # {}
           /\ HostStatusValid(t \cup {"linked"})
           /\ HostUnsetOKIfNeeded(t \cup {"linked"}) = t \cup {"linked"}
<1>1. /\ (t \ {"linked"}) \cap HostPendings = t \cap HostPendings
      /\ (t \cup {"linked"}) \cap HostPendings = t \cap HostPendings
      /\ (t \ {"linked"}) \cap HostRestrictions = t \cap HostRestrictions
      /\ (t \cup {"linked"}) \cap HostRestrictions = t \cap HostRestrictions
      /\ (t \ {"linked"}) \cap HostUpdateProhibitions = t \cap HostUpdateProhibitions
      /\ (t \cup {"linked"}) \cap HostUpdateProhibitions = t \cap HostUpdateProhibitions
      /\ (t \ {"linked"}) \cap HostDeleteProhibitions = t \cap HostDeleteProhibitions
      /\ (t \cup {"linked"}) \cap HostDeleteProhibitions = t \cap HostDeleteProhibitions
  BY DEF HostPendings, HostRestrictions, HostUpdateProhibitions, HostDeleteProhibitions
<1>2. HostStatusValid(t \ {"linked"}) /\ HostStatusValid(t \cup {"linked"})
  BY <1>1 DEF HostStatusValid
<1>3. t \ {"linked"} # {}
  <2>1. "ok" \in t \/ \E x \in t : x \in HostRestrictions
    BY DEF HostStatusValid
  <2>2. "linked" \notin HostRestrictions
    BY DEF HostRestrictions, HostPendings, HostUpdateProhibitions, HostDeleteProhibitions
  <2> QED
    BY <2>1, <2>2
<1>4. HostUnsetOKIfNeeded(t \cup {"linked"}) = t \cup {"linked"}
  BY <1>2 DEF HostUnsetOKIfNeeded, HostStatusValid
<1> QED
  BY <1>2, <1>3, <1>4

LEMMA FromRdeKeepsInv == ASSUME DepositInv, FromRde PROVE DepositInv'
<1>1. deposit.kind \in {"domain", "host", "contact"}
  BY DEF DepositInv
<1>2. CASE deposit.kind = "domain"
  <2>1. Reach("command", RDEDomainToEntity(deposit.said))
    BY <1>2 DEF FromRde
  <2> DEFINE S == {s \in {Fixed \cup {"inactive"}} :
                       Validate(s) /\ Said \subseteq Known["domain"]}
  <2>2. Reach("command", S)
    BY <1>2, <2>1, DomainBecomes
  <2> HIDE DEF S
  <2>3. /\ deposit' = deposit /\ Said' = Said /\ Fixed' = Fixed
        /\ \/ S = {} /\ stage' = "refused"
           \/ stage' = "command" /\ status' \in S
    BY <2>2, Reached
  <2>4. CASE S = {} /\ stage' = "refused"
    <3>1. Contradictory(Fixed) \/ ~ Said \subseteq Known[deposit.kind]
      BY <1>2, <2>4, DomainRefusedRightly DEF S
    <3> QED
      BY <1>1, <2>3, <2>4, <3>1, ContradictoryStays DEF DepositInv
  <2>5. CASE stage' = "command" /\ status' \in S
    <3>1. status' = Fixed \cup {"inactive"} /\ Validate(status') /\ Said \subseteq Flags
      BY <2>5 DEF S, Known
    <3>2. Own(status') = Own(Fixed) /\ status' \in SUBSET Flags
      BY <3>1, OwnFlags DEF Fixed, Flags
    <3> QED
      BY <1>2, <2>3, <2>5, <3>1, <3>2 DEF DepositInv, DomainArrives
  <2> QED
    BY <2>3, <2>4, <2>5
<1>3. CASE deposit.kind = "host"
  <2> DEFINE S == RDEHostToEntity(deposit.said)
             t == HostSetOKIfNeeded(Said)
  <2>1. Reach("command", S) /\ Fixed = Said
    BY <1>3 DEF FromRde, Fixed, Fix
  <2>2. /\ deposit' = deposit /\ Said' = Said /\ Fixed' = Fixed
        /\ \/ S = {} /\ stage' = "refused"
           \/ stage' = "command" /\ status' \in S
    BY <2>1, Reached
  <2>3. \A s : s \in S <=> /\ s = t \ {"linked"} /\ HostStatusValid(t)
                           /\ Said \subseteq HostFlags
    BY DEF RDEHostToEntity, GetHostStatusFromRDEHostStatus, Said
  <2> HIDE DEF S
  <2>4. CASE S = {} /\ stage' = "refused"
    <3>1. Known[deposit.kind] = HostFlags
      BY <1>3 DEF Known
    <3>2. ~ HostStatusValid(t) \/ ~ Said \subseteq HostFlags
      BY <2>3, <2>4
    <3> HIDE DEF t
    <3>3. Contradictory(Said) \/ ~ Said \subseteq Known[deposit.kind]
      BY <1>3, <3>1, <3>2, HostRefusedRightly DEF t
    <3> QED
      BY <1>1, <2>1, <2>2, <2>4, <3>3, ContradictoryStays DEF DepositInv
  <2>5. CASE stage' = "command" /\ status' \in S
    <3>1. status' = t \ {"linked"} /\ HostStatusValid(t) /\ Said \subseteq HostFlags
      BY <2>3, <2>5
    <3>2. t \in SUBSET HostFlags /\ Own(t) = Own(Said)
      BY <3>1, OwnFlags DEF HostSetOKIfNeeded, HostFlags
    <3>3. HostStatusValid(status') /\ status' \in SUBSET HostFlags /\ Own(status') = Own(Said)
      BY <3>1, <3>2, HostCommand, OwnFlags
    <3> QED
      BY <1>3, <2>1, <2>2, <2>5, <3>3 DEF DepositInv, HostArrives
  <2> QED
    BY <2>2, <2>4, <2>5
<1>4. CASE deposit.kind = "contact"
  <2> DEFINE S == RDEContactToEntity(deposit.said)
             t == IF Said \cap ContactRestrictions = {} THEN Said \cup {"ok"} ELSE Said
  <2>1. Reach("command", S) /\ Fixed = Said
    BY <1>4 DEF FromRde, Fixed, Fix
  <2>2. /\ deposit' = deposit /\ Said' = Said /\ Fixed' = Fixed
        /\ \/ S = {} /\ stage' = "refused"
           \/ stage' = "command" /\ status' \in S
    BY <2>1, Reached
  <2>3. \A s : s \in S <=> s = t /\ IsValidContactStatus(t) /\ Said \subseteq ContactFlags
    BY DEF RDEContactToEntity, GetContactStatusFromRDEContactStatus, Said
  <2> HIDE DEF S
  <2>4. CASE S = {} /\ stage' = "refused"
    <3>1. ASSUME ~ IsValidContactStatus(t) PROVE Contradictory(Said)
      <4>1. "ok" \in Said /\ Said \cap ContactRestrictions # {}
        BY <3>1 DEF IsValidContactStatus, ContactRestrictions, ContactPendings,
                    ContactProhibitions, ContactUpdateProhibitions
      <4>2. Own(Said) # {}
        BY <4>1 DEF Own, ContactRestrictions, ContactPendings,
                    ContactProhibitions, ContactUpdateProhibitions
      <4> QED
        BY <4>1, <4>2 DEF Contradictory
    <3>2. Contradictory(Said) \/ ~ Said \subseteq Known[deposit.kind]
      BY <1>4, <2>3, <2>4, <3>1 DEF Known
    <3> QED
      BY <1>1, <2>1, <2>2, <2>4, <3>2, ContradictoryStays DEF DepositInv
  <2>5. CASE stage' = "command" /\ status' \in S
    <3>1. status' = t /\ IsValidContactStatus(t) /\ Said \subseteq ContactFlags
      BY <2>3, <2>5
    <3>2. t \in SUBSET ContactFlags /\ Own(t) = Own(Said)
      BY <3>1, OwnFlags DEF ContactFlags
    <3> QED
      BY <1>4, <2>1, <2>2, <2>5, <3>1, <3>2 DEF DepositInv, ContactArrives
  <2> QED
    BY <2>2, <2>4, <2>5
<1> QED
  BY <1>1, <1>2, <1>3, <1>4
-----------------------------------------------------------------------------
(* From the command to the stored object, and to its links.                *)

LEMMA CreateKeepsInv == ASSUME DepositInv, Create PROVE DepositInv'
<1>1. /\ deposit.kind \in {"domain", "host", "contact"} /\ stage = "command"
      /\ Own(status) = Own(Fixed)
      /\ deposit.kind = "domain" => DomainArrives
      /\ deposit.kind = "host" => HostArrives
      /\ deposit.kind = "contact" => ContactArrives
  BY DEF DepositInv, Create
<1>2. CASE deposit.kind = "domain"
  <2> DEFINE S == {s \in {status} : Validate(s)}
  <2>1. Reach("stored", S) /\ S = {status}
    BY <1>1, <1>2 DEF Create, DomainArrives
  <2> HIDE DEF S
  <2>2. deposit' = deposit /\ Fixed' = Fixed /\ stage' = "stored" /\ status' = status
    BY <2>1, Reached
  <2> QED
    BY <1>1, <1>2, <2>2 DEF DepositInv, DomainArrives
<1>3. CASE deposit.kind = "host"
  <2> DEFINE S == {s \in {IF status = {} THEN {"ok"} ELSE status} : HostStatusValid(s)}
  <2>1. Reach("stored", S) /\ HostStatusValid(status) /\ status \in SUBSET HostFlags
    BY <1>1, <1>3 DEF Create, HostArrives
  <2>2. status # {}
    BY <2>1 DEF HostStatusValid
  <2>3. S = {status}
    BY <2>1, <2>2
  <2> HIDE DEF S
  <2>4. deposit' = deposit /\ Fixed' = Fixed /\ stage' = "stored" /\ status' = status
    BY <2>1, <2>3, Reached
  <2> QED
    BY <1>1, <1>3, <2>4 DEF DepositInv, HostArrives
<1>4. CASE deposit.kind = "contact"
  <2> DEFINE S == SetFullContactStatus(status)
             t == ContactWithOK(status)
  <2>1. Reach("stored", S) /\ IsValidContactStatus(status) /\ status \in SUBSET ContactFlags
    BY <1>1, <1>4 DEF Create, ContactArrives
  <2>2. S = {t}
    BY <2>1 DEF SetFullContactStatus
  <2>3. t \in SUBSET ContactFlags /\ Own(t) = Own(status)
    BY <2>1, OwnFlags DEF ContactWithOK, ContactFlags
  <2>4. IsValidContactStatus(t)
    BY DEF ContactWithOK, IsValidContactStatus, ContactRestrictions, ContactPendings,
           ContactProhibitions, ContactUpdateProhibitions
  <2> HIDE DEF S, t
  <2>5. deposit' = deposit /\ Fixed' = Fixed /\ stage' = "stored" /\ status' = t
    BY <2>1, <2>2, Reached
  <2> QED
    BY <1>1, <1>4, <2>3, <2>4, <2>5 DEF DepositInv, ContactArrives
<1> QED
  BY <1>1, <1>2, <1>3, <1>4

LEMMA LinkKeepsInv == ASSUME DepositInv, Link PROVE DepositInv'
<1>1. /\ deposit.kind \in {"domain", "host"} /\ stage = "stored"
      /\ Own(status) = Own(Fixed)
      /\ deposit.kind = "domain" => DomainArrives
      /\ deposit.kind = "host" => HostArrives
  BY DEF DepositInv, Link
<1>2. CASE deposit.kind = "domain"
  <2> DEFINE u == status \ {"inactive"}
             t == SetOKStatusIfNeeded(u)
  <2>1. Reach("linked", {t})
    BY <1>2 DEF Link, SetUnsetInactiveStatus
  <2>2. deposit' = deposit /\ Fixed' = Fixed /\ stage' = "linked" /\ status' = t
    BY <2>1, Reached
  <2>3. status \in SUBSET Flags /\ Consistent(status) /\ u \in SUBSET Flags
    BY <1>1, <1>2 DEF DomainArrives, Validate
  <2>4. u \cap Pendings = status \cap Pendings /\ u \cap Prohibitions = status \cap Prohibitions
    BY DEF Pendings, Prohibitions
  <2>5. Own(status) = status \cap (Prohibitions \cup Pendings) /\ Own(u) = Own(status)
    BY <2>3, OwnFlags
  <2>6. t = IF Own(status) = {} THEN u \cup {"ok"} ELSE u
    BY <2>4, <2>5 DEF SetOKStatusIfNeeded, HasPendings, HasProhibitions
  <2>7. t \in SUBSET Flags /\ Own(t) = Own(Fixed) /\ "inactive" \notin t
    <3>1. Own(u \cup {"ok"}) = Own(u)
      BY OwnFlags
    <3>2. t = u \cup {"ok"} \/ t = u
      BY <2>6
    <3>3. "ok" \in Flags
      BY DEF Flags
    <3> HIDE DEF t
    <3> QED
      BY <1>1, <2>3, <2>5, <3>1, <3>2, <3>3
  <2>8. "ok" \in status => Own(status) = {}
    BY <2>3, <2>5 DEF Consistent, OKStandsAlone, HasPendings, HasProhibitions
  <2>9. "ok" \in t <=> Own(t) = {}
    BY <1>1, <2>6, <2>7, <2>8
  <2>10. Validate(t)
    <3>1. /\ t \cap Pendings = status \cap Pendings
          /\ t \cap Prohibitions = status \cap Prohibitions
      BY <2>4, <2>6 DEF Pendings, Prohibitions
    <3>2. t # {}
      <4>1. Own(t) # {} => t # {}
        BY DEF Own
      <4> QED
        BY <2>9, <4>1
    <3> HIDE DEF t
    <3>3. OKStandsAlone(t)
      BY <1>1, <2>5, <2>7, <2>9, <3>1 DEF OKStandsAlone, HasPendings, HasProhibitions
    <3>4. AtMostOnePending(t)
      BY <2>3, <3>1 DEF Consistent, AtMostOnePending
    <3>5. PendingNotProhibited(t)
      <4>1. /\ t \cap DeleteProhibitions = status \cap DeleteProhibitions
            /\ t \cap RenewProhibitions = status \cap RenewProhibitions
            /\ t \cap TransferProhibitions = status \cap TransferProhibitions
            /\ t \cap UpdateProhibitions = status \cap UpdateProhibitions
        BY <3>1 DEF Prohibitions, DeleteProhibitions, RenewProhibitions,
                    TransferProhibitions, UpdateProhibitions
      <4>2. \A p \in Pendings : p \in t <=> p \in status
        BY <3>1
      <4> QED
        BY <2>3, <4>1, <4>2 DEF Consistent, PendingNotProhibited, Pendings
    <3> QED
      BY <3>2, <3>3, <3>4, <3>5 DEF Validate, IsNil, Consistent
  <2> HIDE DEF t
  <2> QED
    BY <1>1, <1>2, <2>2, <2>7, <2>9, <2>10 DEF DepositInv, DomainArrives
<1>3. CASE deposit.kind = "host"
  <2> DEFINE t == status \cup {"linked"}
             S == HostSetStatus(status, "linked")
  <2>1. Reach("linked", S) /\ HostStatusValid(status) /\ status \in SUBSET HostFlags
    BY <1>1, <1>3 DEF Link, HostArrives
  <2>2. HostStatusValid(t) /\ HostUnsetOKIfNeeded(t) = t
    BY <2>1, HostCommand
  <2>3. S = {t}
    BY <2>2 DEF HostSetStatus
  <2>4. t \in SUBSET HostFlags /\ Own(t) = Own(status) /\ "linked" \in t
    BY <2>1, OwnFlags DEF HostFlags
  <2> HIDE DEF S, t
  <2>5. deposit' = deposit /\ Fixed' = Fixed /\ stage' = "linked" /\ status' = t
    BY <2>1, <2>3, Reached
  <2> QED
    BY <1>1, <1>3, <2>2, <2>4, <2>5 DEF DepositInv, HostArrives
<1> QED
  BY <1>1, <1>2, <1>3

LEMMA DepositSteps ==
    ASSUME DepositInv, [DepositNext]_depositVars
    PROVE  DepositInv'
<1>1. CASE UNCHANGED depositVars
  BY <1>1 DEF depositVars, DepositInv, DomainArrives, HostArrives, ContactArrives,
              Fixed, Fix, Said, Contradictory
<1> QED
  BY <1>1, FromRdeKeepsInv, CreateKeepsInv, LinkKeepsInv DEF DepositNext

LEMMA DepositStarts == DepositInit => DepositInv
<1> SUFFICES ASSUME DepositInit PROVE DepositInv
  OBVIOUS
<1>1. PICK kind \in DOMAIN SaidFlags, future \in BOOLEAN :
         \E said \in BoundedSeq(SaidFlags[kind], MaxSaid) :
            deposit = [kind |-> kind, said |-> said, future |-> future]
  BY DEF DepositInit
<1>2. deposit.kind \in {"domain", "host", "contact"} /\ stage = "deposit"
  BY <1>1, DepositStatusAssumption DEF DepositInit
<1> QED
  BY <1>2 DEF DepositInv

LEMMA ArrivesAsSaid == DepositInv => ImportKeepsStatus
<1> SUFFICES ASSUME DepositInv PROVE ImportKeepsStatus
  OBVIOUS
<1> DEFINE fixed == IF deposit.kind = "domain" /\ deposit.future
                         /\ Said \cap DeleteProhibitions # {}
                      THEN Said \ {"pendingDelete"} ELSE Said
<1>1. fixed = Fixed
  BY DEF Fixed, Fix
<1>2. stage = "refused" => Contradictory(Fixed) \/ ~ Said \subseteq Known[deposit.kind]
  BY DEF DepositInv
<1>3. stage \in {"stored", "linked"} => Own(status) = Own(Fixed)
  BY DEF DepositInv
<1>4. stage = "linked" =>
        /\ "ok" \in status <=> Own(status) = {}
        /\ "inactive" \notin status
        /\ deposit.kind = "host" => "linked" \in status
  <2>1. CASE stage = "linked" /\ deposit.kind = "domain"
    BY <2>1 DEF DepositInv, DomainArrives
  <2>2. CASE stage = "linked" /\ deposit.kind = "host"
    <3>1. status \in SUBSET HostFlags /\ HostStatusValid(status) /\ "linked" \in status
      BY <2>2 DEF DepositInv, HostArrives
    <3>2. Own(status) = status \cap HostRestrictions /\ "inactive" \notin status
      BY <3>1 DEF Own, HostFlags, HostRestrictions, HostPendings, HostUpdateProhibitions,
                  HostDeleteProhibitions
    <3> QED
      BY <3>1, <3>2 DEF HostStatusValid
  <2>3. ~ (stage = "linked" /\ deposit.kind = "contact")
    BY DEF DepositInv, ContactArrives
  <2> QED
    BY <2>1, <2>2, <2>3 DEF DepositInv
<1> HIDE DEF fixed
<1> QED
  BY <1>1, <1>2, <1>3, <1>4 DEF ImportKeepsStatus, Said, fixed

-----------------------------------------------------------------------------

\* An object of a deposit is refused only for what it says and arrives with its
\* own flags, for any number of <status> elements in any order, known or not
\* (RDEDomain.ToEntity and its twins, the create commands of the API,
\* Domain.AddHost).
THEOREM StatusesArrive == DepositSpec => []ImportKeepsStatus
<1>1. DepositInit => DepositInv
  BY DepositStarts
<1>2. DepositInv /\ [DepositNext]_depositVars => DepositInv'
  BY DepositSteps
<1>3. DepositInv => ImportKeepsStatus
  BY ArrivesAsSaid
<1> QED
  BY <1>1, <1>2, <1>3, PTL DEF DepositSpec

\* The <status> elements of an object are a sequence.
LEMMA DepositSaid == DepositInit => deposit.said \in Seq(SaidFlags[deposit.kind])
<1> SUFFICES ASSUME DepositInit PROVE deposit.said \in Seq(SaidFlags[deposit.kind])
  OBVIOUS
<1>1. PICK kind \in DOMAIN SaidFlags, future \in BOOLEAN :
         \E said \in BoundedSeq(SaidFlags[kind], MaxSaid) :
            deposit = [kind |-> kind, said |-> said, future |-> future]
  BY DEF DepositInit
<1> PICK said \in BoundedSeq(SaidFlags[kind], MaxSaid) :
           deposit = [kind |-> kind, said |-> said, future |-> future]
  BY <1>1
<1>2. \E m \in 0 .. MaxSaid : said \in [1 .. m -> SaidFlags[kind]]
  BY DepositStatusAssumption DEF BoundedSeq, SeqOf
<1>3. said \in Seq(SaidFlags[kind])
  BY <1>2, DepositStatusAssumption
<1> QED
  BY <1>3

\* The statuses that are said do not change; there is none before the command.
StatusBounds ==
    /\ deposit.said \in Seq(SaidFlags[deposit.kind])
    /\ stage \in {"deposit", "refused"} => status = {}

LEMMA StatusBoundsStay ==
    ASSUME StatusBounds, [DepositNext]_depositVars
    PROVE  StatusBounds'
<1>1. ASSUME NEW next, NEW S, Reach(next, S), next \notin {"deposit", "refused"}
      PROVE  StatusBounds'
  BY <1>1 DEF Reach, StatusBounds
<1>2. CASE UNCHANGED depositVars
  BY <1>2 DEF depositVars, StatusBounds
<1>3. CASE FromRde
  <2>1. \E S : Reach("command", S)
    BY <1>3 DEF FromRde
  <2> QED
    BY <1>1, <2>1
<1>4. CASE Create
  <2>1. \E S : Reach("stored", S)
    BY <1>4 DEF Create
  <2> QED
    BY <1>1, <2>1
<1>5. CASE Link
  <2>1. \E S : Reach("linked", S)
    BY <1>5 DEF Link
  <2> QED
    BY <1>1, <2>1
<1> QED
  BY <1>2, <1>3, <1>4, <1>5 DEF DepositNext

LEMMA DepositTyped == DepositInv /\ StatusBounds => DepositTypeOK
<1> SUFFICES ASSUME DepositInv, StatusBounds PROVE DepositTypeOK
  OBVIOUS
<1>1. CASE stage \in {"command", "stored", "linked"}
  BY <1>1 DEF DepositInv, DomainArrives, HostArrives, ContactArrives, StatusBounds, DepositTypeOK
<1>2. CASE stage \in {"deposit", "refused"}
  BY <1>2 DEF StatusBounds, DepositTypeOK
<1> QED
  BY <1>1, <1>2 DEF DepositInv

-----------------------------------------------------------------------------
(* THE REGISTRAR SYNC                                                      *)

\* The workflow waits for an attempt of its own.
AttemptTyped ==
    /\ sync = [step |-> sync.step, attempt |-> sync.attempt, page |-> sync.page,
               list |-> sync.list, first |-> sync.first]
    /\ sync.attempt \in Attempts

\* The workflow and the requests beside it touch the table by the steps of
\* the refreshes only.
LEMMA SyncRefreshes ==
    ASSUME AttemptTyped, SyncNext
    PROVE  [RefreshNext]_refreshVars
<1>1. Attempts \subseteq Refreshes /\ 1 \in Refreshes
  BY SyncAssumption DEF Attempts
<1>2. CASE StartSync
  BY <1>1, <1>2 DEF StartSync, RefreshNext
<1>3. CASE SyncIana
  <2>1. Answered(sync.attempt)
    BY <1>3 DEF SyncIana, Answered, InState
  <2> QED
    BY <1>1, <2>1 DEF AttemptTyped, RefreshNext
<1>4. CASE SyncIanaAgain
  <2>1. sync.attempt + 1 \in Attempts /\ Requested(sync.attempt + 1)
    BY <1>4, SyncAssumption DEF SyncIanaAgain, AttemptTyped, Attempts
  <2> QED
    BY <1>1, <2>1 DEF RefreshNext
<1>5. CASE \/ SyncIanaFails \/ CountRegistrars \/ GetIANARegistrars \/ NullPage
           \/ PageLost \/ BulkCreateRegistrars \/ \E k \in Published[1] : AdminCreates(k)
  BY <1>5 DEF SyncIanaFails, CountRegistrars, GetIANARegistrars, NullPage, PageLost,
              BulkCreateRegistrars, AdminCreates, refreshVars
<1>6. ASSUME NEW r \in Refreshes,
             RequestStep(r) \/ RequestOver(r) \/ AdminCalls(r) \/ RequestDies(r)
      PROVE  RefreshNext
  BY <1>6 DEF RequestStep, RequestOver, AdminCalls, RefreshNext
<1>7. CASE Publish
  BY <1>7 DEF RefreshNext
<1> QED
  BY <1>2, <1>3, <1>4, <1>5, <1>6, <1>7 DEF SyncNext, SyncStep

LEMMA AttemptsStay ==
    ASSUME AttemptTyped, [SyncNext]_syncVars
    PROVE  AttemptTyped'
<1>1. ASSUME NEW step, Activity(step) PROVE AttemptTyped'
  <2>1. 1 \in Attempts
    BY SyncAssumption DEF Attempts
  <2>2. sync' = [step |-> step, attempt |-> 1, page |-> FirstRequest,
                 list |-> sync.list, first |-> sync.first]
    BY <1>1 DEF AttemptTyped, Activity
  <2> QED
    BY <2>1, <2>2 DEF AttemptTyped
<1>2. ASSUME sync' = [sync EXCEPT !.attempt = sync.attempt + 1],
             sync.attempt < SyncAttempts
      PROVE  AttemptTyped'
  BY <1>2, SyncAssumption DEF AttemptTyped, Attempts
<1>3. CASE CountRegistrars \/ GetIANARegistrars
  BY <1>3 DEF CountRegistrars, GetIANARegistrars, AttemptTyped
<1>4. CASE sync' = ListAgain
  <2>1. CASE sync.attempt < SyncAttempts
    <3>1. sync' = [step |-> sync.step, attempt |-> sync.attempt + 1,
                   page |-> FirstRequest, list |-> sync.list, first |-> sync.first]
      BY <1>4, <2>1 DEF ListAgain, AttemptTyped
    <3>2. sync.attempt + 1 \in Attempts
      BY <2>1, SyncAssumption DEF AttemptTyped, Attempts
    <3> QED
      BY <3>1, <3>2 DEF AttemptTyped
  <2>2. CASE ~ (sync.attempt < SyncAttempts)
    BY <1>4, <2>2 DEF ListAgain, AttemptTyped
  <2> QED
    BY <2>1, <2>2
<1>5. CASE UNCHANGED sync
  BY <1>5 DEF AttemptTyped
<1>6. SyncNext => \/ \E step : Activity(step)
                  \/ SyncIanaAgain \/ CountRegistrars \/ GetIANARegistrars
                  \/ sync' = ListAgain \/ UNCHANGED sync
  BY DEF SyncNext, SyncStep, AdminCreates, RequestStep, RequestOver, AdminCalls,
         StartSync, SyncIana, SyncIanaFails, BulkCreateRegistrars, NullPage, PageLost
<1>7. CASE SyncIanaAgain
  BY <1>2, <1>7 DEF SyncIanaAgain
<1> QED
  BY <1>1, <1>3, <1>4, <1>5, <1>6, <1>7 DEF syncVars

\* Published lists are finite, so that their pages have a last row.
LEMMA LargestExists ==
    ASSUME NEW S \in SUBSET Nat, IsFiniteSet(S), S # {}
    PROVE  Max(S) \in S /\ \A y \in S : y <= Max(S)
<1> DEFINE Topless(T) == T \in SUBSET Nat /\ IsFiniteSet(T) /\ T # {}
                           /\ ~ \E x \in T : \A y \in T : x >= y
           Sizes == {n \in Nat : \E T : Topless(T) /\ Cardinality(T) = n}
<1>1. Sizes = {}
  <2> SUFFICES ASSUME Sizes # {} PROVE FALSE
    OBVIOUS
  <2>1. PICK n \in Sizes : \A m \in Sizes : n <= m
    BY LeastExists
  <2>2. PICK T : Topless(T) /\ Cardinality(T) = n
    BY <2>1
  <2>3. PICK x \in T : TRUE
    BY <2>2
  <2> DEFINE U == T \ {x}
  <2>4. U \in SUBSET Nat /\ IsFiniteSet(U) /\ Cardinality(U) = n - 1 /\ n \in Nat
    BY <2>1, <2>2, <2>3, FS_RemoveElement
  <2>5. Cardinality(U) \in Nat
    BY <2>4, FS_CardinalityType
  <2>6. ~ Topless(U)
    <3>1. Topless(U) => n - 1 \in Sizes
      BY <2>4, <2>5
    <3> QED
      BY <2>1, <2>4, <3>1
  <2>7. CASE U = {}
    <3>1. \A y \in T : y = x
      BY <2>7
    <3> QED
      BY <2>2, <2>3, <3>1
  <2>8. CASE U # {}
    <3>1. PICK u \in U : \A y \in U : u >= y
      BY <2>4, <2>6, <2>8
    <3>2. u \in T /\ u \in Nat /\ x \in Nat
      BY <2>2, <2>3, <3>1
    <3>3. (\A y \in T : u >= y) \/ (\A y \in T : x >= y)
      <4>1. \A y \in T : y = x \/ u >= y
        BY <3>1
      <4>2. CASE u >= x
        BY <4>1, <4>2
      <4>3. CASE x >= u
        <5>1. \A y \in T : y \in Nat
          BY <2>2
        <5> QED
          BY <3>2, <4>1, <4>3, <5>1
      <4> QED
        BY <3>2, <4>2, <4>3
    <3> QED
      BY <2>2, <2>3, <3>2, <3>3
  <2> QED
    BY <2>7, <2>8
<1>2. Cardinality(S) \in Nat
  BY FS_CardinalityType
<1>3. ~ Topless(S)
  BY <1>1, <1>2
<1>4. PICK x \in S : \A y \in S : x >= y
  BY <1>3
<1>5. Max(S) \in S /\ \A y \in S : Max(S) >= y
  BY <1>4 DEF Max
<1> QED
  BY <1>5

ListedNumbers == UNION {Published[n] : n \in DOMAIN Published}

\* The workflow has no list, and asks for pages that follow a row of the list.
SyncBounds ==
    /\ registrars \subseteq ListedNumbers
    /\ sync.step \in SyncSteps
    /\ sync.page.after \in {NoCursor} \cup ListedNumbers
    /\ sync.page.size \in {BatchSize, DefaultPageSize}
    /\ sync.list = {}
    /\ sync.first \in BOOLEAN

LEMMA SyncBoundsStart == SyncInit => SyncBounds
  BY DEF SyncInit, SyncBounds, SyncSteps, FirstRequest, NoCursor

\* A page of the table that has a row ends with one.
LEMMA SyncPageEnds ==
    ASSUME RefreshInv, SyncPage.keys # {}
    PROVE  SyncPage.cursor \in ListedNumbers
<1> DEFINE q == [after |-> sync.page.after, size |-> sync.page.size, wanted |-> table]
           T == Smallest(q.size, Matching(table, q))
<1>1. SyncPage = LastRow(Page(T, NoCursor))
  BY DEF SyncPage, IANARegistrarsPage, ListIANARegistrars, PageOnly
<1>2. T \subseteq table
  BY DEF Smallest, Matching
<1>3. PICK n \in DOMAIN Published : table = Published[n] \/ table = {}
  BY FirstPublished DEF RefreshInv, Lists
<1> HIDE DEF T
<1>4. T # {} /\ SyncPage.cursor = Max(T)
  BY <1>1 DEF LastRow, Page
<1>5. table = Published[n] /\ table \in SUBSET Nat /\ IsFiniteSet(table)
  BY <1>2, <1>3, <1>4, PublishedAssumption
<1>6. Max(T) \in T
  BY <1>2, <1>4, <1>5, LargestExists, FS_Subset
<1> QED
  BY <1>2, <1>4, <1>5, <1>6 DEF ListedNumbers

LEMMA SyncBoundsStay ==
    ASSUME RefreshInv, AttemptTyped, SyncBounds, [SyncNext]_syncVars
    PROVE  SyncBounds'
<1>1. ASSUME NEW step \in SyncSteps, Activity(step), UNCHANGED registrars
      PROVE  SyncBounds'
  <2>1. /\ sync'.step = step /\ sync'.page = FirstRequest
        /\ sync'.list = sync.list /\ sync'.first = sync.first
    BY <1>1 DEF Activity, AttemptTyped
  <2> QED
    BY <1>1, <2>1 DEF SyncBounds, FirstRequest
<1>2. ASSUME UNCHANGED registrars, sync'.step \in SyncSteps,
             sync'.page \in {sync.page, FirstRequest},
             sync'.list = sync.list, sync'.first = sync.first
      PROVE  SyncBounds'
  BY <1>2 DEF SyncBounds, FirstRequest
<1>3. CASE StartSync \/ SyncIana \/ SyncIanaFails
  BY <1>1, <1>3 DEF StartSync, SyncIana, SyncIanaFails, SyncSteps
<1>4. CASE SyncIanaAgain
  <2>1. /\ sync'.step = sync.step /\ sync'.page = sync.page
        /\ sync'.list = sync.list /\ sync'.first = sync.first
    BY <1>4 DEF SyncIanaAgain, AttemptTyped
  <2> QED
    BY <1>2, <1>4, <2>1 DEF SyncIanaAgain, SyncBounds
<1>5. CASE CountRegistrars
  <2>1. UNCHANGED registrars
    BY <1>5 DEF CountRegistrars
  <2>2. CASE sync' = [sync EXCEPT !.step = "list", !.first = registrars = {}]
    <3>1. /\ sync'.step = "list" /\ sync'.page = sync.page /\ sync'.list = sync.list
          /\ sync'.first = (registrars = {})
      BY <2>2 DEF AttemptTyped
    <3>2. sync'.first \in BOOLEAN
      BY <3>1, Zenon
    <3> QED
      BY <2>1, <3>1, <3>2 DEF SyncBounds, SyncSteps
  <2>3. CASE sync' = [sync EXCEPT !.step = "failed"]
    BY <1>2, <2>1, <2>3 DEF AttemptTyped, SyncSteps
  <2> QED
    BY <1>5, <2>2, <2>3 DEF CountRegistrars
<1>6. CASE GetIANARegistrars
  <2>1. /\ sync'.page = [after |-> SyncPage.cursor, size |-> DefaultPageSize]
        /\ sync'.step = sync.step /\ sync'.list = sync.list /\ sync'.first = sync.first
        /\ registrars' = registrars /\ SyncPage.keys # {}
    BY <1>6 DEF GetIANARegistrars, AttemptTyped
  <2>2. SyncPage.cursor \in ListedNumbers
    BY <2>1, SyncPageEnds
  <2> QED
    BY <2>1, <2>2 DEF SyncBounds
<1>7. ASSUME sync' = ListAgain, UNCHANGED registrars PROVE SyncBounds'
  <2>1. /\ sync'.page = FirstRequest
        /\ sync'.list = sync.list /\ sync'.first = sync.first
        /\ sync'.step \in {sync.step, "create", "failed"}
    BY <1>7 DEF ListAgain, Unlisted, AttemptTyped
  <2> QED
    BY <1>2, <1>7, <2>1 DEF SyncBounds, SyncSteps
<1>8. CASE BulkCreateRegistrars
  <2>1. CreateCommands(sync.list) = {} /\ UNCHANGED registrars /\ Activity("done")
    BY <1>8 DEF BulkCreateRegistrars, CreateCommands, SyncBounds
  <2> QED
    BY <1>1, <2>1 DEF SyncSteps
<1>9. ASSUME NEW k \in Published[1], AdminCreates(k) PROVE SyncBounds'
  BY <1>9, FirstPublished DEF AdminCreates, SyncBounds, ListedNumbers
<1>10. CASE UNCHANGED <<registrars, sync>>
  BY <1>10 DEF SyncBounds
<1>11. SyncNext => \/ StartSync \/ SyncIana \/ SyncIanaFails \/ SyncIanaAgain
                   \/ CountRegistrars \/ GetIANARegistrars
                   \/ sync' = ListAgain /\ UNCHANGED registrars
                   \/ BulkCreateRegistrars
                   \/ \E k \in Published[1] : AdminCreates(k)
                   \/ UNCHANGED <<registrars, sync>>
  BY DEF SyncNext, SyncStep, RequestStep, RequestOver, AdminCalls, NullPage, PageLost
<1> QED
  BY <1>3, <1>4, <1>5, <1>6, <1>7, <1>8, <1>9, <1>10, <1>11 DEF syncVars

LEMMA SyncTyped == RefreshInv /\ AttemptTyped /\ SyncBounds => SyncTypeOK
<1> SUFFICES ASSUME RefreshInv, AttemptTyped, SyncBounds PROVE SyncTypeOK
  OBVIOUS
<1>1. table \in SUBSET ListedNumbers
  BY DEF RefreshInv, Lists, ListedNumbers
<1>2. RefreshTypeOK
  BY <1>1 DEF RefreshInv, RefreshTypeOK, Lists, ListedNumbers
<1> QED
  BY <1>2 DEF SyncTypeOK, AttemptTyped, SyncBounds, ListedNumbers

-----------------------------------------------------------------------------
(* THE JOBS TOGETHER                                                       *)

\* A step of the composition is a step of each job or leaves it alone.
LEMMA BatchParts ==
    ASSUME [BatchNext]_batchVars
    PROVE  /\ [Next]_vars
           /\ [ListingNext]_listVars
           /\ [SyncNext]_syncVars
           /\ [EscrowNext]_escrowVars
           /\ [DepositNext]_depositVars
  BY DEF BatchNext, batchVars

\* A purge that is over has removed no more than a domain without hosts has.
LEMMA PurgeOverStarts == PurgeOver => DetachInv
<1> SUFFICES ASSUME PurgeOver PROVE DetachInv
  OBVIOUS
<1>1. /\ links = {} /\ loaded = {} /\ array = << >> /\ length = 0 /\ i = 1
      /\ phase = "done"
  BY DEF PurgeOver
<1>2. Cardinality({}) = 0
  BY FS_EmptySet
<1>3. Enumerates(array, {}) /\ array \in [1 .. 0 -> {}]
  BY <1>1, <1>2 DEF Enumerates
<1>4. LoopInv(0)
  <2>1. Enumerates(array, loaded) /\ Shifted(array, i - 1, 0)
    BY <1>1, <1>3 DEF Shifted
  <2>2. links = {array[p] : p \in 1 .. length}
    BY <1>1
  <2> QED
    BY <1>1, <2>1, <2>2 DEF LoopInv, Detached, DetachFails
<1> QED
  BY <1>1, <1>2, <1>4 DEF DetachInv

LEMMA BatchStarts ==
    ASSUME BatchInit
    PROVE  DetachInv /\ ListingInit /\ RefreshInit /\ EscrowInit /\ AttemptTyped /\ DepositInit
  BY SyncAssumption, DetachStarts, PurgeOverStarts
     DEF BatchInit, SyncInit, AttemptTyped, Attempts

\* The jobs run together as each runs alone; the table of the IANA registrars,
\* too, sees no steps but those of its refreshes, whoever requests them: the
\* attempts of the workflow (syncRegistrars.go) or an administrator.
THEOREM JobsRunAlone == BatchSpec => ListingSpec /\ RefreshSpec /\ EscrowSpec /\ DepositSpec
<1>1. BatchInit => ListingInit /\ RefreshInit /\ EscrowInit /\ AttemptTyped /\ DepositInit
  BY BatchStarts
<1>2. [BatchNext]_batchVars =>
         [ListingNext]_listVars /\ [EscrowNext]_escrowVars /\ [DepositNext]_depositVars
  BY BatchParts
<1>3. AttemptTyped /\ [BatchNext]_batchVars => AttemptTyped' /\ [RefreshNext]_refreshVars
  <2>1. ASSUME AttemptTyped, [SyncNext]_syncVars PROVE [RefreshNext]_refreshVars
    BY <2>1, SyncRefreshes DEF syncVars, refreshVars
  <2> QED
    BY <2>1, BatchParts, AttemptsStay
<1> QED
  BY <1>1, <1>2, <1>3, PTL DEF BatchSpec, ListingSpec, RefreshSpec, EscrowSpec, DepositSpec

\* In the composition, too, a purge removes what HostRemoval says, lists are
\* complete and name nothing twice (but for the exceptions of NothingMissed and
\* NothingTwice), the table of the IANA registrars is one list or none, what is
\* counted is stored, an import that went well has brought in what the tool
\* sends and the API accepts, but for delegations to unaddressed hosts, and
\* objects arrive with the status that they said.
THEOREM JobsKeepTheirPromises ==
    BatchSpec => /\ []LoopSummary /\ []ListingComplete /\ TableIsOneList
                 /\ []CountedAreStored /\ []CleanImportCompletes /\ []ImportKeepsStatus
<1>1. BatchInit => DetachInv
  BY BatchStarts
<1>2. DetachInv /\ [BatchNext]_batchVars => DetachInv'
  BY BatchParts, DetachSteps
<1>3. DetachInv => LoopSummary
  BY InvSummarises
<1>4. BatchSpec => []LoopSummary
  BY <1>1, <1>2, <1>3, PTL DEF BatchSpec
<1> QED
  BY <1>4, JobsRunAlone, ListingsComplete, RefreshesImplementTable, CountsAreStored,
     CleanImportsComplete, StatusesArrive, PTL

\* Every variable of the jobs has its type, for any constants.
THEOREM BatchTypeCorrect == BatchSpec => []BatchTypeOK
<1> DEFINE Bounds == ListingBounds /\ SyncBounds /\ EscrowBounds /\ StatusBounds
           Invs == ListingInv /\ RefreshInv /\ AttemptTyped /\ EscrowInv /\ DepositInv
<1>1. BatchInit => Invs /\ Bounds
  <2> SUFFICES ASSUME BatchInit PROVE Invs /\ Bounds
    OBVIOUS
  <2>1. ListingInit /\ SyncInit /\ RefreshInit /\ EscrowInit /\ AttemptTyped /\ DepositInit
    BY BatchStarts DEF BatchInit
  <2>2. ListingBounds
    BY <2>1, ListingAssumption DEF ListingInit, ListingBounds
  <2>3. StatusBounds
    BY <2>1, DepositSaid DEF DepositInit, StatusBounds
  <2> QED
    BY <2>1, <2>2, <2>3, ListingStarts, RefreshInitially, EscrowStarts, DepositStarts,
       SyncBoundsStart, EscrowBoundsStart
<1>2. Invs /\ Bounds /\ [BatchNext]_batchVars => Invs' /\ Bounds'
  <2> SUFFICES ASSUME Invs, Bounds, [BatchNext]_batchVars PROVE Invs' /\ Bounds'
    OBVIOUS
  <2>1. /\ [ListingNext]_listVars /\ [SyncNext]_syncVars
        /\ [EscrowNext]_escrowVars /\ [DepositNext]_depositVars
    BY BatchParts
  <2>2. [RefreshNext]_refreshVars
    BY <2>1, SyncRefreshes DEF syncVars, refreshVars
  <2>3. Invs'
    BY <2>1, <2>2, ListingSteps, RefreshInductive, AttemptsStay, EscrowSteps, DepositSteps
  <2>4. ListingBounds' /\ SyncBounds'
    BY <2>1, ListingBoundsStay, SyncBoundsStay
  <2>5. EscrowBounds' /\ StatusBounds'
    BY <2>1, EscrowBoundsStay, StatusBoundsStay DEF EscrowInv
  <2> QED
    BY <2>3, <2>4, <2>5
<1>3. Invs /\ Bounds => BatchTypeOK
  BY ListingTyped, SyncTyped, EscrowTyped, DepositTyped DEF BatchTypeOK
<1> QED
  BY <1>1, <1>2, <1>3, PTL DEF BatchSpec
=============================================================================
