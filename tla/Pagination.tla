----------------------------- MODULE Pagination -----------------------------
(***************************************************************************)
(* Scoped::fetch_all of redmine-client (client.rs): the walk over every    *)
(* page of a Redmine collection, against a collection that other users     *)
(* change between two pages.  Redmine (external) answers a page request    *)
(* from the collection of that moment, with at most its own page-size      *)
(* limit of items; a misbehaving proxy may answer an empty page or echo an *)
(* offset that was not asked for.                                          *)
(***************************************************************************)
EXTENDS Naturals, Sequences, SequencesExt

CONSTANTS
    Items,                            \* what the collection may hold
    PageSizes, MaxPages, MaxItems,  \* the Limits a client may be built with
    ServerMax,                      \* Redmine's own cap on `limit`
    Inserts, Deletes                \* changes made during a walk (model bounds)

ASSUME PaginationAssumption ==
    /\ PageSizes \cup MaxPages \cup MaxItems \cup {ServerMax} \subseteq Nat \ {0}
    /\ Inserts \in Nat /\ Deletes \in Nat
    /\ IsFiniteSet(Items)

VARIABLES
    limits,        \* Inner.limits
    honest,        \* Redmine (external): whether pages are what was asked for
    rows,          \* the collection, in the order Redmine lists it
    changes,       \* how many inserts and deletes have happened
    initial,       \* history: the items when the walk began
    items, offset, total_count, pages_fetched, truncated,  \* locals of fetch_all
    result         \* "walking", "page" (Ok) or "error" (Err)

config == <<limits, honest>>
walkVars == <<config, rows, changes, initial, items, offset, total_count, pages_fetched, truncated, result>>

Changes == [inserted: 0..Inserts, deleted: 0..Deletes]

Limits == [page_size: PageSizes, max_pages: MaxPages, max_items: MaxItems]

WalkTypeOK ==
    /\ limits \in Limits /\ honest \in BOOLEAN
    /\ rows \in Seq(Items) /\ items \in Seq(Items) /\ initial \subseteq Items
    /\ changes \in Changes
    /\ offset \in Nat /\ total_count \in Nat /\ pages_fetched \in 0..limits.max_pages
    /\ truncated \in BOOLEAN /\ result \in {"walking", "page", "error"}

------------------------------------------------------------------------------

Capped(n, cap) == IF n > cap THEN cap ELSE n

\* Redmine's answer to limit=page_size&offset=o, or one it should not give.
HonestPage(o) ==
    [items |-> SubSeq(rows, o + 1, Capped(o + Capped(limits.page_size, ServerMax), Len(rows))),
     offset |-> o, total_count |-> Len(rows)]

Pages(o) ==
    IF honest THEN {HonestPage(o)}
    ELSE {[items |-> p, offset |-> e, total_count |-> Len(rows)] :
             e \in 0..o, p \in {<<>>, HonestPage(o).items}}

Walking == result = "walking"

Stop(cut) == result' = "page" /\ truncated' = cut

PagesSpent == pages_fetched >= limits.max_pages

\* The pages cap is looked at before a request.
OutOfPages ==
    /\ Walking /\ PagesSpent
    /\ Stop(offset < total_count)
    /\ UNCHANGED <<config, rows, changes, initial, items, offset, total_count, pages_fetched>>

\* Mutant: the cursor moves by the page size asked for.
NextOffsetBySize(page) == page.offset + limits.page_size

\* The cursor moves by what the page really held.
NextOffset(page) == page.offset + Len(page.items)

\* Mutant: an offset that does not advance is believed.
NoProgressIgnored(page) == FALSE

NoProgress(page) == NextOffset(page) <= offset

\* Mutant: the item cap is looked at first.
OutcomeCapFirst(page) ==
    IF Len(items) + Len(page.items) >= limits.max_items THEN "cut"
    ELSE IF NextOffset(page) >= page.total_count THEN "complete"
    ELSE "more"

\* After a page that advanced: everything collected, a cap, or another page.
Outcome(page) ==
    IF NextOffset(page) >= page.total_count THEN "complete"
    ELSE IF Len(items) + Len(page.items) >= limits.max_items THEN "cut"
    ELSE "more"

\* One trip through the loop: a page is requested and its answer applied.
FetchPage ==
    /\ Walking /\ ~PagesSpent
    /\ \E page \in Pages(offset) :
         /\ total_count' = page.total_count
         /\ pages_fetched' = pages_fetched + 1
         /\ items' = items \o page.items
         /\ \/ /\ page.items = <<>>
               /\ Stop(offset < page.total_count)
               /\ UNCHANGED offset
            \/ /\ page.items # <<>> /\ NoProgress(page)
               /\ Stop(TRUE)
               /\ UNCHANGED offset
            \/ /\ page.items # <<>> /\ ~NoProgress(page)
               /\ offset' = NextOffset(page)
               /\ CASE Outcome(page) = "complete" -> Stop(FALSE)
                    [] Outcome(page) = "cut" -> Stop(TRUE)
                    [] OTHER -> UNCHANGED <<truncated, result>>
    /\ UNCHANGED <<config, rows, changes, initial>>

\* A page request failed for good: the walk answers the error, no items.
PageFails ==
    /\ Walking /\ ~PagesSpent
    /\ result' = "error" /\ items' = <<>>
    /\ UNCHANGED <<config, rows, changes, initial, offset, total_count, pages_fetched, truncated>>

\* Redmine (external): someone adds an item; lists show the newest first.
Insert ==
    /\ Walking /\ changes.inserted < Inserts
    /\ \E x \in Items \ ToSet(rows) : rows' = <<x>> \o rows
    /\ changes' = [changes EXCEPT !.inserted = @ + 1]
    /\ UNCHANGED <<config, initial, items, offset, total_count, pages_fetched, truncated, result>>

\* Redmine (external): someone deletes an item.
Delete ==
    /\ Walking /\ changes.deleted < Deletes
    /\ \E i \in DOMAIN rows : rows' = RemoveAt(rows, i)
    /\ changes' = [changes EXCEPT !.deleted = @ + 1]
    /\ UNCHANGED <<config, initial, items, offset, total_count, pages_fetched, truncated, result>>

WalkInit ==
    /\ limits \in Limits /\ honest \in BOOLEAN
    /\ \E S \in SUBSET Items : rows \in SetToSeqs(S) /\ initial = S
    /\ changes = [inserted |-> 0, deleted |-> 0]
    /\ items = <<>> /\ offset = 0 /\ total_count = 0 /\ pages_fetched = 0
    /\ truncated = FALSE /\ result = "walking"

WalkNext == OutOfPages \/ FetchPage \/ PageFails \/ Insert \/ Delete

WalkSpec == WalkInit /\ [][WalkNext]_walkVars

------------------------------------------------------------------------------
(* Properties *)

\* Against a collection nobody deletes from, an answer that does not say it was cut
\* short holds every item that was there when the walk began: items added meanwhile
\* may repeat others but hide none (fetch_all, Page::truncated).
NothingHidden ==
    result = "page" /\ ~truncated /\ honest /\ changes.deleted = 0 => initial \subseteq ToSet(items)

\* Against a collection nobody changes, the answer is a prefix of the list, in order
\* and without repeats, and it says it was cut short exactly when it is shorter
\* (fetch_all; a collection of more than the cap of items is not mistaken for whole).
TruncatedIsHonest ==
    honest /\ changes = [inserted |-> 0, deleted |-> 0] =>
        /\ IsPrefix(items, rows)
        /\ result = "page" => (truncated <=> Len(items) < Len(rows))

\* Every page but the last brings the walk forward: a server that answers empty
\* pages or offsets that do not advance costs one request, not max_pages of them
\* (fetch_all's zero-progress case).
NoWastedPages == pages_fetched <= Cardinality(Items) + 1
=============================================================================
