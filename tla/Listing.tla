------------------------------ MODULE Listing ------------------------------
(***************************************************************************)
(* A client that reads a list endpoint to its end by the next links, while *)
(* other requests insert and delete rows of the table.  NNDNs stand for    *)
(* the rows: their creation and deletion are single statements.            *)
(***************************************************************************)
EXTENDS Paging

CONSTANTS MaxKey,      \* bound: the keys are 1 .. MaxKey
          PageSizes,   \* values of the pagesize parameter
          Filters,     \* sets of keys that a filter lets through
          MaxChanges   \* bound: rows inserted or deleted while it reads

Keys == 1 .. MaxKey

ASSUME ListingAssumption ==
    /\ MaxKey \in Nat /\ MaxChanges \in Nat
    /\ PageSizes \subseteq Nat
    /\ Filters \subseteq SUBSET Keys

VARIABLES
    rows,      \* the table
    listing,   \* endpoint, next request, filter asked, rows read, state
    steady,    \* the rows that were there all the time since it began
    changes    \* changes since it began

listVars == <<rows, listing, steady, changes>>

Requests == [after : 0 .. MaxKey, size : PageSizes, wanted : SUBSET Keys]

NoListing == [endpoint |-> "none", q |-> [after |-> NoCursor, size |-> 1,
              wanted |-> {}], asked |-> {}, got |-> {}, twice |-> FALSE,
              state |-> "idle"]

ListingInit ==
    /\ rows \in SUBSET Keys
    /\ listing = NoListing
    /\ steady = {}
    /\ changes = 0

\* A duplicate is refused by the primary key.
CreateNNDN(k) ==
    /\ k \notin rows
    /\ listing.state = "open"
    /\ changes < MaxChanges
    /\ rows' = rows \cup {k}
    /\ changes' = changes + 1
    /\ UNCHANGED <<listing, steady>>

DeleteNNDN(k) ==
    /\ k \in rows
    /\ listing.state = "open"
    /\ changes < MaxChanges
    /\ rows' = rows \ {k}
    /\ steady' = steady \ {k}
    /\ changes' = changes + 1
    /\ UNCHANGED listing

StartListing(endpoint, size, filter) ==
    /\ listing.state = "idle"
    /\ listing' = [endpoint |-> endpoint,
                   q |-> [after |-> NoCursor, size |-> size,
                          wanted |-> filter],
                   asked |-> filter, got |-> {}, twice |-> FALSE,
                   state |-> "open"]
    /\ steady' = rows
    /\ UNCHANGED <<rows, changes>>

\* The cursor of a page decides whether there is a next request; a link that
\* cannot be read is answered with a status of 400.
GoOn(page, q, endpoint) ==
    IF ~page.ok THEN [q |-> q, state |-> "failed"]
    ELSE IF page.cursor = NoCursor THEN [q |-> q, state |-> "complete"]
    ELSE [q |-> NextRequest(endpoint, q, page.cursor, Keys),
          state |-> IF LinkReadable(endpoint, q, Keys) THEN "open"
                    ELSE "failed"]

FetchPage ==
    /\ listing.state = "open"
    /\ LET page == AnswerOf(listing.endpoint, rows, listing.q)
           next == GoOn(page, listing.q, listing.endpoint)
       IN  listing' = [listing EXCEPT !.q = next.q,
                                      !.state = next.state,
                                      !.got = @ \cup page.keys,
                                      !.twice = @ \/ page.keys \cap listing.got # {}]
    /\ UNCHANGED <<rows, steady, changes>>

ListingNext ==
    \/ \E k \in Keys : CreateNNDN(k) \/ DeleteNNDN(k)
    \/ \E e \in Endpoints, n \in PageSizes, F \in Filters : StartListing(e, n, F)
    \/ FetchPage

ListingSpec == ListingInit /\ [][ListingNext]_listVars

-----------------------------------------------------------------------------
ListingTypeOK ==
    /\ rows \subseteq Keys
    /\ steady \subseteq rows
    /\ changes \in 0 .. MaxChanges
    /\ listing = NoListing
       \/ /\ listing.endpoint \in Endpoints
          /\ listing.q \in Requests
          /\ listing.asked \in SUBSET Keys
          /\ listing.got \in SUBSET Keys
          /\ listing.twice \in BOOLEAN
          /\ listing.state \in {"open", "complete", "failed"}

\* A listing that came to its end has every matching row that was there from
\* the first page to the last, whatever was inserted and deleted meanwhile.
\* Not so with a page size of 0, which ends on an empty page at once, and not
\* for the active phases, where a page without an active one ends the listing.
NothingMissed ==
    listing.state = "complete" /\ listing.q.size > 0
        /\ listing.endpoint # "active"
      => steady \cap listing.asked \subseteq listing.got

\* Nothing is listed twice, not even a row deleted and inserted again.  Not so
\* for the purgeable domains: their cursor is not looked at (see PurgeableOnce).
NothingTwice == listing.endpoint # "purgeable" => ~listing.twice

\* The list endpoints answer with complete lists (ListNNDNs and the like).
ListingComplete == NothingMissed /\ NothingTwice

\* The next link of a page of purgeable domains leads to the page behind it
\* (ListItemResult.SetMeta, DomainController.ListPurgeableDomains).  It leads to
\* the first page again.
PurgeableOnce == listing.endpoint = "purgeable" => ~listing.twice
=============================================================================
