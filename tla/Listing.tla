------------------------------ MODULE Listing ------------------------------
(***************************************************************************)
(* Paging through a project's resources while others are created and       *)
(* deleted: TopicStore::list, SnapshotStore::list, SubscriptionStore::list *)
(* and the gRPC List handlers in front of them.  Names are numbers in the  *)
(* order of the strings; the token is the last name of a page.  A list     *)
(* that meets a deletion half-way fails as a whole and is tried again.     *)
(***************************************************************************)
EXTENDS Integers, SequencesExt

CONSTANTS None,
          NameCount,            \* the project's possible names are 1..NameCount
          DEFAULT_PAGE_SIZE,
          PageSizes,            \* the page sizes clients ask for; 0 is unset
          MaxChanges            \* bound on the creations and deletions

VARIABLES names,    \* the names present
          steady,   \* those present ever since the listing began
          page_token, got,  \* the client: its token and the names received
          size,     \* the page size the client asks for
          listing,  \* "topics" and "snapshots", or "subscriptions"
          done, changes

listingVars == <<names, steady, page_token, got, size, listing, done, changes>>

sorted == SetToSortSeq(names, <)
after(ns, token) == SelectSeq(ns, LAMBDA n : n > token)

\* Mutant: the token names the first resource of the next page.
page_token_ahead(rest, limit) ==
    IF Len(rest) <= limit THEN [page |-> rest, next |-> None]
    ELSE [page |-> SubSeq(rest, 1, limit), next |-> rest[limit + 1]]

\* A page and the token of the next, None when nothing remains.
page(rest, limit) ==
    IF Len(rest) <= limit THEN [page |-> rest, next |-> None]
    ELSE [page |-> SubSeq(rest, 1, limit),
          next |-> IF limit = 0 THEN None ELSE rest[limit]]

\* Topics and snapshots: the records from the partition point on.
list(token, limit) == page(IF token = None THEN sorted ELSE after(sorted, token), limit)

\* Subscriptions: a limit of 0 is none at all.
list_subscriptions(token, limit) ==
    page(IF token = None THEN sorted ELSE after(sorted, token),
         IF limit = 0 THEN Len(sorted) ELSE limit)

\* The gRPC handlers put a default in place of an unset page size.
page_size(asked) == IF asked > 0 THEN asked ELSE DEFAULT_PAGE_SIZE

ListPage ==
    LET p == IF listing = "subscriptions"
             THEN list_subscriptions(page_token, page_size(size))
             ELSE list(page_token, page_size(size))
    IN  /\ ~ done
        /\ got' = got \o p.page
        /\ page_token' = p.next
        /\ done' = (p.next = None)
        /\ UNCHANGED <<names, steady, size, listing, changes>>

Change(ns) ==
    /\ changes < MaxChanges
    /\ changes' = changes + 1
    /\ names' = ns
    /\ steady' = steady \cap ns
    /\ UNCHANGED <<page_token, got, size, listing, done>>

Created(n) == n \notin names /\ Change(names \cup {n})
Deleted(n) == n \in names /\ Change(names \ {n})

ListingInit ==
    /\ names \in SUBSET (1..NameCount)
    /\ steady = names
    /\ page_token = None /\ got = <<>> /\ done = FALSE /\ changes = 0
    /\ size \in PageSizes
    /\ listing \in {"topics", "subscriptions"}

ListingNext == \/ ListPage
               \/ \E n \in 1..NameCount : Created(n) \/ Deleted(n)

ListingSpec == ListingInit /\ [][ListingNext]_listingVars

(* A listing is complete and repeats nothing: when it ends, each resource  *)
(* that was there all along has been returned, and the names came in       *)
(* order, whatever was created and deleted between the pages.              *)
ListingIsComplete ==
    /\ done => \A n \in steady : Contains(got, n)
    /\ \A i \in 1..(Len(got) - 1) : got[i] < got[i + 1]
=============================================================================
