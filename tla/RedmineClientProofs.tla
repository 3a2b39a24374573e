-------------------------- MODULE RedmineClientProofs --------------------------
(***************************************************************************)
(* Theorems about the HTTP client: RequestRetry, for every retry policy,   *)
(* timeout and Retry-After, and Pagination, for every finite set of items, *)
(* page size and cap.                                                      *)
(*                                                                         *)
(* That a write takes effect once rests on two facts of different kinds:   *)
(* Redmine performs no more attempts than have left (Delivered), and a     *)
(* write never gets to a second attempt (WritesGoOnce).  That the caller   *)
(* waits at most two timeouts rests on how the clock stands to the attempt *)
(* or sleep under way (OnTime).                                            *)
(*                                                                         *)
(* The walk's properties speak of its end.  Their invariants say what the  *)
(* offset means on the way: everything of the start that lies before it    *)
(* has been collected (Collected), in an unchanged collection exactly that *)
(* and in order (InOrder), and each page moved it (Counted).               *)
(***************************************************************************)
EXTENDS RequestRetry, Pagination, FiniteSetTheorems, TLAPS

\* Redmine performs only what was sent, and the loop sends at most max_retries
\* attempts after the first.
Delivered ==
    /\ performed <= Sent
    /\ attempt <= max_retries
    /\ pc = "sleep" => attempt < max_retries

\* Only a GET or a HEAD sleeps and is sent again.
WritesGoOnce == ~MethodIsRetryable(method) => attempt = 0 /\ pc # "sleep"

\* An attempt starts by the deadline and lasts a timeout; a sleep ends by the
\* deadline.
OnTime ==
    /\ deadline = total_timeout
    /\ pc = "send" => now <= deadline
    /\ pc = "wait" => sent_at <= deadline /\ now <= sent_at + total_timeout
    /\ pc = "sleep" => now <= wake_at /\ wake_at <= deadline
    /\ now <= 2 * total_timeout

RetryInv == TypeOK /\ Delivered /\ WritesGoOnce /\ OnTime

\* A backoff is a natural number, whatever Redmine's Retry-After says
\* (RetryPolicy::backoff).
LEMMA BackoffType ==
    ASSUME NEW err \in Errors, NEW d \in Backoffs(err)
    PROVE  d \in Nat
<1>1. CASE err.retry_after # None
  <2>1. err.retry_after \in RetryAfters
    BY <1>1 DEF Errors
  <2>2. d = AtMost(err.retry_after, max_backoff)
    BY <1>1 DEF Backoffs
  <2> QED
    BY <2>1, <2>2, RetryAssumption DEF AtMost
<1>2. CASE err.retry_after = None
  BY <1>2 DEF Backoffs
<1> QED
  BY <1>1, <1>2

\* The sleep of send_with_retry ends after it starts and by the deadline.
LEMMA SleepInTime ==
    ASSUME TypeOK, NEW d \in Nat, now < deadline
    PROVE  /\ now + Sleep(d) \in Nat
           /\ now <= now + Sleep(d) /\ now + Sleep(d) <= deadline
BY DEF TypeOK, Sleep, AtMost

\* Every step of the loop, of Redmine and of the clock preserves RetryInv.
LEMMA RetryStep == RetryInv /\ [Next]_vars => RetryInv'
<1> SUFFICES ASSUME RetryInv, [Next]_vars PROVE RetryInv'
  OBVIOUS
<1> USE RetryAssumption DEF RetryInv, TypeOK, Delivered, WritesGoOnce, OnTime, Sent
<1>1. CASE Send
  BY <1>1 DEF Send
<1>2. CASE Perform
  BY <1>2 DEF Perform
<1>3. CASE Success
  BY <1>3 DEF Success
<1>4. CASE Failure
  <2>1. PICK err \in Errors :
          \/ /\ CanRetry(err)
             /\ \E d \in Backoffs(err) : wake_at' = now + Sleep(d)
             /\ pc' = "sleep"
          \/ pc' = "failed" /\ wake_at' = wake_at
    BY <1>4 DEF Failure
  <2>2. /\ pc = "wait"
        /\ UNCHANGED <<now, method, credential, attempt, sent_at, deadline, performed>>
    BY <1>4 DEF Failure
  <2>3. CASE pc' = "failed" /\ wake_at' = wake_at
    BY <2>2, <2>3
  <2>4. CASE /\ CanRetry(err)
             /\ \E d \in Backoffs(err) : wake_at' = now + Sleep(d)
             /\ pc' = "sleep"
    <3>1. PICK d \in Backoffs(err) : wake_at' = now + Sleep(d)
      BY <2>4
    <3>2. MethodIsRetryable(method) /\ attempt < max_retries /\ now < deadline
      BY <2>4 DEF CanRetry, AttemptsLeft
    <3>3. wake_at' \in Nat /\ now <= wake_at' /\ wake_at' <= deadline
      BY <3>1, <3>2, BackoffType, SleepInTime
    <3> QED
      BY <2>2, <2>4, <3>2, <3>3
  <2> QED
    BY <2>1, <2>3, <2>4
<1>5. CASE Wake
  BY <1>5 DEF Wake
<1>6. CASE Tick
  BY <1>6 DEF Tick
<1>7. CASE UNCHANGED vars
  BY <1>7 DEF vars, MethodIsRetryable
<1> QED
  BY <1>1, <1>2, <1>3, <1>4, <1>5, <1>6, <1>7 DEF Next

\* RetryInv holds of every reachable state.
THEOREM RetryInvariant == Spec => []RetryInv
<1>1. Init => RetryInv
  BY RetryAssumption DEF Init, RetryInv, TypeOK, Delivered, WritesGoOnce, OnTime, Sent
<1> QED
  BY <1>1, RetryStep, PTL DEF Spec

\* A POST, PUT or DELETE takes effect at most once, for every policy: the retry
\* loop of send_with_retry never sends a write again, and Redmine performs only
\* what it was sent, however late.
THEOREM WriteSafety == Spec => []WritesAtMostOnce
<1>1. RetryInv => WritesAtMostOnce
  BY DEF RetryInv, TypeOK, Delivered, WritesGoOnce, MethodIsRetryable, Sent, WritesAtMostOnce
<1> QED
  BY <1>1, RetryInvariant, PTL

\* The caller of send_with_retry is answered within twice the configured timeout,
\* whatever the policy and the Retry-After headers say.
THEOREM BoundedWait == Spec => []AnswersWithinTwiceTheTimeout
<1>1. RetryInv => AnswersWithinTwiceTheTimeout
  BY DEF RetryInv, OnTime, AnswersWithinTwiceTheTimeout
<1> QED
  BY <1>1, RetryInvariant, PTL

------------------------------------------------------------------------------
(* The walk over a collection's pages *)

\* A collection lists an item once.
Distinct == \A i, j \in 1..Len(rows) : rows[i] = rows[j] => i = j

\* Each page but the last moved the offset, which never passes the items there are.
Counted ==
    /\ offset <= Cardinality(Items)
    /\ pages_fetched <= offset + 1
    /\ Walking => pages_fetched <= offset

\* A walk that goes on has fetched nothing, or knows that there is more.
Begun == Walking => (pages_fetched = 0 /\ offset = 0) \/ offset < total_count

\* What was there at the start and lies before the offset has been collected; new
\* items only push it back over the offset, to be collected again.
Collected ==
    Walking /\ honest /\ changes.deleted = 0 =>
        /\ initial \subseteq ToSet(rows)
        /\ \A j \in 1..Len(rows) : j <= offset /\ rows[j] \in initial => rows[j] \in ToSet(items)

\* Of a collection nobody changes, exactly what lies before the offset.
InOrder ==
    honest /\ changes = [inserted |-> 0, deleted |-> 0] =>
        /\ Len(items) <= Len(rows)
        /\ \A i \in 1..Len(items) : items[i] = rows[i]
        /\ Walking => Len(items) = offset /\ (pages_fetched = 0 \/ total_count = Len(rows))
        /\ result = "page" => (truncated <=> Len(items) < Len(rows))

WalkInv == WalkTypeOK /\ Distinct /\ Counted /\ Begun /\ Collected /\ InOrder /\ NothingHidden

\* What a page is, asked for at the offset: rows from there on, or none.
LEMMA PageFacts ==
    ASSUME WalkTypeOK, NEW page \in Pages(offset)
    PROVE  /\ page.items \in Seq(Items) /\ page.offset \in 0..offset
           /\ page.total_count = Len(rows)
           /\ page.items # <<>> => offset + Len(page.items) <= Len(rows)
           /\ \A i \in 1..Len(page.items) : page.items[i] = rows[offset + i]
           /\ honest => page.offset = offset
           /\ honest /\ page.items = <<>> => offset >= Len(rows)
<1> DEFINE m == Capped(offset + Capped(limits.page_size, ServerMax), Len(rows))
<1>0. /\ limits.page_size \in Nat \ {0} /\ ServerMax \in Nat \ {0}
      /\ offset \in Nat /\ rows \in Seq(Items) /\ Len(rows) \in Nat
  BY PaginationAssumption DEF WalkTypeOK, Limits
<1>1. m \in Nat /\ m <= Len(rows) /\ (offset < Len(rows) => offset < m)
  BY <1>0 DEF Capped
<1> HIDE DEF m
<1> DEFINE s == SubSeq(rows, offset + 1, m)
<1>2. /\ s \in Seq(Items)
      /\ Len(s) = IF offset < m THEN m - offset ELSE 0
      /\ \A i \in 1..Len(s) : s[i] = rows[offset + i]
  BY <1>0, <1>1
<1>3. /\ HonestPage(offset).items = s /\ HonestPage(offset).offset = offset
      /\ HonestPage(offset).total_count = Len(rows)
  BY DEF HonestPage, m
<1> HIDE DEF s
<1>4. CASE honest
  <2>1. page = HonestPage(offset)
    BY <1>4 DEF Pages
  <2> QED BY <1>0, <1>1, <1>2, <1>3, <2>1
<1>5. CASE ~honest
  <2>1. PICK e \in 0..offset, p \in {<<>>, HonestPage(offset).items} :
          page = [items |-> p, offset |-> e, total_count |-> Len(rows)]
    BY <1>5 DEF Pages
  <2>2. page.offset = e /\ page.items = p /\ page.total_count = Len(rows)
    BY <2>1
  <2>3. p = <<>> \/ p = s
    BY <1>3, Zenon
  <2>a. p \in Seq(Items)
    <3>1. <<>> \in Seq(Items)
      OBVIOUS
    <3> QED BY <1>2, <2>3, <3>1, Zenon
  <2>4. p # <<>> => offset + Len(p) <= Len(rows)
    BY <1>0, <1>1, <1>2, <2>3
  <2>5. \A i \in 1..Len(p) : p[i] = rows[offset + i]
    BY <1>2, <2>3
  <2> QED BY <1>5, <2>2, <2>a, <2>4, <2>5
<1> QED BY <1>4, <1>5

\* A list of different items is no longer than there are items.
LEMMA DistinctIsShort == ASSUME WalkTypeOK, Distinct PROVE Len(rows) <= Cardinality(Items)
<1>1. rows \in Injection(1..Len(rows), Items)
  BY DEF WalkTypeOK, Distinct, Injection, IsInjective
<1>2. Cardinality(1..Len(rows)) <= Cardinality(Items)
  BY <1>1, PaginationAssumption, FS_Injection
<1>3. Len(rows) \in Nat
  BY DEF WalkTypeOK
<1>4. Cardinality(1..Len(rows)) = Len(rows)
  BY <1>3, FS_Interval, SMTT(30)
<1> QED BY <1>2, <1>4

\* A listing of a set of items holds each of them.
LEMMA ListingIsWhole ==
    ASSUME NEW S \in SUBSET Items, NEW s \in SetToSeqs(S)
    PROVE  /\ s \in Seq(Items)
           /\ \A i, j \in 1..Len(s) : s[i] = s[j] => i = j
           /\ S \subseteq ToSet(s)
<1>1. IsFiniteSet(S) /\ Cardinality(S) \in Nat
  BY PaginationAssumption, FS_Subset, FS_CardinalityType
<1>2. s \in [1..Cardinality(S) -> S] /\ \A i, j \in 1..Cardinality(S) : i # j => s[i] # s[j]
  BY DEF SetToSeqs
<1>3. s \in Seq(Items) /\ Len(s) = Cardinality(S)
  BY <1>1, <1>2
<1>4. s \in Injection(1..Cardinality(S), S)
  BY <1>2 DEF Injection, IsInjective
<1>5. Cardinality(1..Cardinality(S)) = Cardinality(S)
  BY <1>1, FS_Interval
<1>6. s \in Surjection(1..Cardinality(S), S)
  BY <1>1, <1>4, <1>5, FS_Injection
<1>7. S \subseteq ToSet(s)
  BY <1>2, <1>6 DEF Surjection, ToSet
<1> QED BY <1>2, <1>3, <1>7

\* Collecting a page adds its items to those collected.
LEMMA ToSetConcat ==
    ASSUME NEW S, NEW s \in Seq(S), NEW t \in Seq(S)
    PROVE  /\ ToSet(s) \subseteq ToSet(s \o t)
           /\ \A i \in 1..Len(t) : t[i] \in ToSet(s \o t)
<1>1. /\ s \o t \in Seq(S) /\ Len(s \o t) = Len(s) + Len(t) /\ Len(s) \in Nat /\ Len(t) \in Nat
      /\ \A i \in 1..Len(s) : (s \o t)[i] = s[i]
      /\ \A i \in 1..Len(t) : (s \o t)[Len(s) + i] = t[i]
  OBVIOUS
<1>2. DOMAIN s = 1..Len(s) /\ DOMAIN (s \o t) = 1..Len(s \o t)
  BY <1>1
<1>3. ASSUME NEW i \in 1..Len(s) PROVE s[i] \in ToSet(s \o t)
  <2>1. i \in DOMAIN (s \o t)
    BY <1>1, <1>2
  <2> QED BY <1>1, <2>1 DEF ToSet
<1>4. ASSUME NEW i \in 1..Len(t) PROVE t[i] \in ToSet(s \o t)
  <2>1. Len(s) + i \in DOMAIN (s \o t)
    BY <1>1, <1>2
  <2> QED BY <1>1, <2>1 DEF ToSet
<1> QED BY <1>2, <1>3, <1>4 DEF ToSet

\* A page's effect on the walk, by the three outcomes of fetch_all's loop.
LEMMA FetchCases ==
    ASSUME WalkTypeOK, NEW page \in Pages(offset),
           \/ /\ page.items = <<>>
              /\ Stop(offset < page.total_count)
              /\ UNCHANGED offset
           \/ /\ page.items # <<>> /\ NoProgress(page)
              /\ Stop(TRUE)
              /\ UNCHANGED offset
           \/ /\ page.items # <<>> /\ ~NoProgress(page)
              /\ offset' = NextOffset(page)
              /\ CASE Outcome(page) = "complete" -> Stop(FALSE)
                   [] Outcome(page) = "cut" -> Stop(TRUE)
                   [] OTHER -> UNCHANGED <<truncated, result>>
    PROVE  \/ /\ page.items = <<>> /\ offset' = offset
              /\ result' = "page"
              /\ \/ offset < Len(rows) /\ truncated' = TRUE
                 \/ offset >= Len(rows) /\ truncated' = FALSE
           \/ /\ page.items # <<>> /\ ~honest /\ offset' = offset
              /\ result' = "page" /\ truncated' = TRUE
           \/ /\ page.items # <<>> /\ offset' = page.offset + Len(page.items) /\ offset' > offset
              /\ \/ offset' >= Len(rows) /\ result' = "page" /\ truncated' = FALSE
                 \/ offset' < Len(rows) /\ result' = "page" /\ truncated' = TRUE
                 \/ offset' < Len(rows) /\ UNCHANGED <<truncated, result>>
<1>0. /\ page.items \in Seq(Items) /\ page.offset \in 0..offset /\ page.total_count = Len(rows)
      /\ honest => page.offset = offset
      /\ offset \in Nat /\ Len(rows) \in Nat /\ Len(page.items) \in Nat
  BY PageFacts DEF WalkTypeOK
<1>1. CASE page.items = <<>> /\ Stop(offset < page.total_count) /\ UNCHANGED offset
  <2>1. CASE offset < Len(rows)
    <3>1. truncated' = (offset < page.total_count) /\ offset < page.total_count
      BY <1>0, <1>1, <2>1 DEF Stop
    <3> QED BY <1>1, <2>1, <3>1 DEF Stop
  <2>2. CASE offset >= Len(rows)
    <3>1. truncated' = (offset < page.total_count) /\ ~(offset < page.total_count)
      BY <1>0, <1>1, <2>2 DEF Stop
    <3>a. (offset < page.total_count) = FALSE
      BY <3>1
    <3>2. truncated' = FALSE
      BY <3>1, <3>a
    <3>3. result' = "page"
      BY <1>1 DEF Stop
    <3> QED BY <1>1, <2>2, <3>2, <3>3
  <2>3. offset < Len(rows) \/ offset >= Len(rows)
    BY <1>0
  <2> QED BY <2>1, <2>2, <2>3
<1>2. CASE page.items # <<>> /\ NoProgress(page) /\ Stop(TRUE) /\ UNCHANGED offset
  <2>1. Len(page.items) > 0
    BY <1>0, <1>2
  <2>2. ~honest
    BY <1>0, <1>2, <2>1 DEF NoProgress, NextOffset
  <2> QED BY <1>2, <2>2 DEF Stop
<1>3. CASE /\ page.items # <<>> /\ ~NoProgress(page)
           /\ offset' = NextOffset(page)
           /\ CASE Outcome(page) = "complete" -> Stop(FALSE)
                [] Outcome(page) = "cut" -> Stop(TRUE)
                [] OTHER -> UNCHANGED <<truncated, result>>
  <2>1. offset' = page.offset + Len(page.items) /\ offset' > offset
    BY <1>0, <1>3 DEF NoProgress, NextOffset
  <2>2. CASE Outcome(page) = "complete"
    <3>1. NextOffset(page) >= page.total_count
      BY <2>2 DEF Outcome
    <3> QED BY <1>0, <1>3, <2>1, <2>2, <3>1 DEF Stop
  <2>3. CASE Outcome(page) = "cut"
    <3>1. ~(NextOffset(page) >= page.total_count)
      BY <2>3 DEF Outcome
    <3>2. Stop(TRUE)
      BY <1>3, <2>3
    <3>3. offset' < Len(rows)
      BY <1>0, <1>3, <2>1, <3>1
    <3>4. result' = "page" /\ truncated' = TRUE
      BY <3>2 DEF Stop
    <3> QED BY <1>3, <2>1, <3>3, <3>4
  <2>4. CASE Outcome(page) = "more"
    <3>1. ~(NextOffset(page) >= page.total_count)
      BY <2>4 DEF Outcome
    <3> QED BY <1>0, <1>3, <2>1, <2>4, <3>1
  <2> QED BY <2>2, <2>3, <2>4 DEF Outcome
<1> QED BY <1>1, <1>2, <1>3

\* One page keeps the walk's invariant.
LEMMA FetchKeeps == ASSUME WalkInv, FetchPage PROVE WalkInv'
<1>0. PICK page \in Pages(offset) :
        /\ total_count' = page.total_count
        /\ pages_fetched' = pages_fetched + 1
        /\ items' = items \o page.items
        /\ \/ /\ page.items = <<>> /\ offset' = offset
              /\ result' = "page"
              /\ \/ offset < Len(rows) /\ truncated' = TRUE
                 \/ offset >= Len(rows) /\ truncated' = FALSE
           \/ /\ page.items # <<>> /\ ~honest /\ offset' = offset
              /\ result' = "page" /\ truncated' = TRUE
           \/ /\ page.items # <<>> /\ offset' = page.offset + Len(page.items) /\ offset' > offset
              /\ \/ offset' >= Len(rows) /\ result' = "page" /\ truncated' = FALSE
                 \/ offset' < Len(rows) /\ result' = "page" /\ truncated' = TRUE
                 \/ offset' < Len(rows) /\ UNCHANGED <<truncated, result>>
  BY FetchCases DEF FetchPage, WalkInv
<1>1. /\ UNCHANGED <<limits, honest, rows, changes, initial>> /\ Walking /\ ~PagesSpent
  BY DEF FetchPage, config
<1>2. /\ page.items \in Seq(Items) /\ page.offset \in 0..offset /\ page.total_count = Len(rows)
      /\ page.items # <<>> => offset + Len(page.items) <= Len(rows)
      /\ \A i \in 1..Len(page.items) : page.items[i] = rows[offset + i]
      /\ honest => page.offset = offset
      /\ honest /\ page.items = <<>> => offset >= Len(rows)
  BY PageFacts DEF WalkInv
<1>3. /\ rows \in Seq(Items) /\ items \in Seq(Items) /\ offset \in Nat /\ Len(rows) \in Nat
      /\ Len(page.items) \in Nat /\ limits \in Limits /\ pages_fetched \in 0..limits.max_pages
      /\ limits.max_pages \in Nat
  BY <1>2, PaginationAssumption DEF WalkInv, WalkTypeOK, Limits
<1>4. Len(rows) <= Cardinality(Items) /\ Cardinality(Items) \in Nat
  BY DistinctIsShort, PaginationAssumption, FS_CardinalityType DEF WalkInv
<1>5. WalkTypeOK'
  <2>1. offset' \in Nat /\ total_count' \in Nat /\ pages_fetched' \in 0..limits.max_pages
    BY <1>0, <1>1, <1>2, <1>3, SMTT(30) DEF PagesSpent
  <2>2. items' \in Seq(Items)
    BY <1>0, <1>2, <1>3
  <2>3. truncated' \in BOOLEAN /\ result' \in {"walking", "page", "error"}
    BY <1>0 DEF WalkInv, WalkTypeOK
  <2> QED BY <1>1, <2>1, <2>2, <2>3 DEF WalkInv, WalkTypeOK
<1>6. Distinct'
  BY <1>1 DEF WalkInv, Distinct
<1>7. Counted'
  <2>1. CASE offset' = offset /\ result' = "page"
    BY <1>0, <1>1, <1>3, <2>1 DEF WalkInv, Counted, Walking
  <2>2. CASE page.items # <<>> /\ offset' = page.offset + Len(page.items) /\ offset' > offset
    BY <1>0, <1>1, <1>2, <1>3, <1>4, <2>2, SMTT(30) DEF WalkInv, Counted, Walking
  <2> QED BY <1>0, <2>1, <2>2
<1>8. Begun'
  BY <1>0, <1>1, <1>2 DEF Begun, Walking
<1>9. honest /\ changes.deleted = 0 =>
        \A j \in 1..Len(rows) : j <= offset' /\ rows[j] \in initial => rows[j] \in ToSet(items')
  <2> SUFFICES ASSUME honest, changes.deleted = 0, NEW j \in 1..Len(rows), j <= offset',
                      rows[j] \in initial
               PROVE  rows[j] \in ToSet(items')
    OBVIOUS
  <2>1. CASE j <= offset
    BY <1>0, <1>1, <1>2, <1>3, <2>1, ToSetConcat DEF WalkInv, Collected
  <2>2. CASE j > offset
    <3>1. offset' = offset + Len(page.items)
      BY <1>0, <1>2, <1>3, <2>2
    <3>2. j - offset \in 1..Len(page.items) /\ offset + (j - offset) = j
      BY <1>3, <2>2, <3>1
    <3>3. page.items[j - offset] = rows[j]
      BY <1>2, <3>2
    <3> QED BY <1>0, <1>2, <1>3, <3>2, <3>3, ToSetConcat
  <2> QED BY <1>3, <2>1, <2>2
<1>10. Collected' /\ NothingHidden'
  <2>1. Collected'
    BY <1>1, <1>9 DEF WalkInv, Collected, Walking
  <2>2. ASSUME result' = "page", ~truncated', honest, changes.deleted = 0
        PROVE  initial \subseteq ToSet(items')
    <3>0. truncated' # TRUE
      BY <2>2, Zenon
    <3>1. offset' >= Len(rows)
      BY <1>0, <1>1, <1>2, <1>3, <2>2, <3>0 DEF Walking
    <3>2. initial \subseteq ToSet(rows)
      BY <1>1, <2>2 DEF WalkInv, Collected
    <3>3. \A j \in 1..Len(rows) : rows[j] \in initial => rows[j] \in ToSet(items')
      BY <1>3, <1>5, <1>9, <2>2, <3>1 DEF WalkTypeOK
    <3>4. DOMAIN rows = 1..Len(rows)
      BY <1>3
    <3> QED BY <3>2, <3>3, <3>4 DEF ToSet
  <2> QED BY <1>1, <2>1, <2>2 DEF NothingHidden
<1>11. InOrder'
  <2> SUFFICES ASSUME honest, changes = [inserted |-> 0, deleted |-> 0]
               PROVE  /\ Len(items') <= Len(rows)
                      /\ \A i \in 1..Len(items') : items'[i] = rows[i]
                      /\ Walking' => /\ Len(items') = offset'
                                     /\ pages_fetched' = 0 \/ total_count' = Len(rows)
                      /\ result' = "page" => (truncated' <=> Len(items') < Len(rows))
    BY <1>1 DEF InOrder
  <2>1. Len(items) = offset /\ \A i \in 1..Len(items) : items[i] = rows[i] /\ Len(items) <= Len(rows)
    BY <1>1 DEF WalkInv, InOrder
  <2>a. Len(items) <= Len(rows)
    BY <1>1 DEF WalkInv, InOrder
  <2>2. Len(items') = offset + Len(page.items)
    BY <1>0, <1>2, <1>3, <2>1
  <2>3. \A i \in 1..Len(items') : items'[i] = rows[i]
    <3>1. ASSUME NEW i \in 1..Len(items') PROVE items'[i] = rows[i]
      <4>1. CASE i <= offset
        BY <1>0, <1>2, <1>3, <2>1, <2>2, <4>1
      <4>2. CASE i > offset
        <5>1. i - offset \in 1..Len(page.items) /\ offset + (i - offset) = i
          BY <1>3, <2>2, <4>2
        <5>2. items'[i] = page.items[i - offset]
          BY <1>0, <1>2, <1>3, <2>1, <5>1, SMTT(30)
        <5> QED BY <1>2, <5>1, <5>2
      <4> QED BY <1>3, <2>2, <4>1, <4>2
    <3> QED BY <3>1
  <2>4. Len(items') <= Len(rows)
    <3>1. CASE page.items = <<>>
      BY <1>3, <2>1, <2>2, <2>a, <3>1
    <3>2. CASE page.items # <<>>
      BY <1>2, <2>2, <3>2
    <3> QED BY <3>1, <3>2
  <2>5. offset' = Len(items')
    <3>1. CASE page.items = <<>>
      BY <1>0, <1>3, <2>2, <3>1
    <3>2. CASE page.items # <<>>
      BY <1>0, <1>2, <2>2, <3>2
    <3> QED BY <3>1, <3>2
  <2>6. result' = "page" => (truncated' <=> offset' < Len(rows))
    BY <1>0, <1>1, <1>2, <1>3, <2>5, <2>2 DEF Walking
  <2> QED BY <1>0, <1>2, <2>3, <2>4, <2>5, <2>6
<1> QED BY <1>5, <1>6, <1>7, <1>8, <1>10, <1>11 DEF WalkInv

\* Where the collection is left alone, so are the facts about it.
LEMMA StandingStill ==
    ASSUME WalkInv, UNCHANGED <<limits, honest, rows, changes, initial, items, offset,
                                total_count, pages_fetched>>,
           \/ UNCHANGED <<truncated, result>>
           \/ Walking /\ PagesSpent /\ Stop(offset < total_count)
    PROVE  WalkInv'
<1>1. CASE UNCHANGED <<truncated, result>>
  <2>1. WalkTypeOK' /\ Distinct' /\ Counted' /\ Begun'
    BY <1>1 DEF WalkInv, WalkTypeOK, Distinct, Counted, Begun, Walking
  <2>2. Collected' /\ InOrder' /\ NothingHidden'
    BY <1>1 DEF WalkInv, Collected, InOrder, NothingHidden, Walking
  <2> QED BY <2>1, <2>2 DEF WalkInv
<1>2. CASE Walking /\ PagesSpent /\ Stop(offset < total_count)
  <2>0. /\ pages_fetched \in Nat /\ limits.max_pages \in Nat \ {0}
        /\ offset \in Nat /\ total_count \in Nat
    BY PaginationAssumption DEF WalkInv, WalkTypeOK, Limits
  <2>1. offset < total_count /\ pages_fetched # 0
    BY <1>2, <2>0 DEF WalkInv, Begun, PagesSpent
  <2>2. result' = "page" /\ truncated' = TRUE
    <3>1. (offset < total_count) = TRUE
      BY <2>1
    <3> QED BY <1>2, <3>1 DEF Stop
  <2>3. WalkTypeOK' /\ Distinct'
    BY <2>2 DEF WalkInv, WalkTypeOK, Distinct
  <2>4. Counted' /\ Begun' /\ Collected' /\ NothingHidden'
    BY <2>2 DEF WalkInv, Counted, Begun, Collected, NothingHidden, Walking
  <2>5. InOrder'
    <3>1. ASSUME honest, changes = [inserted |-> 0, deleted |-> 0]
          PROVE  /\ Len(items) <= Len(rows) /\ \A i \in 1..Len(items) : items[i] = rows[i]
                 /\ Len(items) = offset /\ total_count = Len(rows)
      BY <1>2, <2>1, <3>1 DEF WalkInv, InOrder
    <3> QED BY <2>1, <2>2, <3>1 DEF InOrder, Walking
  <2> QED BY <2>3, <2>4, <2>5 DEF WalkInv
<1> QED BY <1>1, <1>2

\* An error is answered without items.
LEMMA FailKeeps == ASSUME WalkInv, PageFails PROVE WalkInv'
<1>1. /\ result' = "error" /\ items' = <<>>
      /\ UNCHANGED <<limits, honest, rows, changes, initial, offset, total_count, pages_fetched, truncated>>
  BY DEF PageFails, config
<1>2. WalkTypeOK' /\ Distinct'
  BY <1>1 DEF WalkInv, WalkTypeOK, Distinct
<1>3. Counted' /\ Begun' /\ Collected' /\ NothingHidden'
  BY <1>1 DEF WalkInv, Counted, Begun, Collected, NothingHidden, Walking
<1>4. InOrder'
  <2>1. Len(items') = 0 /\ Len(rows') \in Nat
    BY <1>1 DEF WalkInv, WalkTypeOK
  <2>2. ~Walking' /\ result' # "page"
    BY <1>1 DEF Walking
  <2> QED BY <2>1, <2>2 DEF InOrder
<1> QED BY <1>2, <1>3, <1>4 DEF WalkInv

\* A new item goes to the head of the list and pushes the others back.
LEMMA InsertKeeps == ASSUME WalkInv, Insert PROVE WalkInv'
<1>0. PICK x \in Items \ ToSet(rows) : rows' = <<x>> \o rows
  BY DEF Insert
<1>1. /\ UNCHANGED <<limits, honest, initial, items, offset, total_count, pages_fetched, truncated, result>>
      /\ changes' = [changes EXCEPT !.inserted = @ + 1]
      /\ changes.inserted < Inserts /\ Walking
  BY DEF Insert, config
<1>2. /\ rows \in Seq(Items) /\ Len(rows) \in Nat /\ DOMAIN rows = 1..Len(rows) /\ offset \in Nat
      /\ changes \in Changes
  BY DEF WalkInv, WalkTypeOK
<1>3. /\ rows' \in Seq(Items) /\ Len(rows') = Len(rows) + 1 /\ DOMAIN rows' = 1..Len(rows')
      /\ rows'[1] = x
      /\ \A i \in 1..Len(rows) : rows'[i + 1] = rows[i]
  BY <1>0, <1>2
<1>4. \A i \in 1..Len(rows) : rows[i] # x
  BY <1>0, <1>2 DEF ToSet
<1>5. \A j \in 2..Len(rows') : j - 1 \in 1..Len(rows) /\ rows'[j] = rows[j - 1]
  BY <1>2, <1>3
<1>6. changes' \in Changes /\ changes'.inserted # 0 /\ changes'.deleted = changes.deleted
  BY <1>1, <1>2, PaginationAssumption DEF Changes
<1>7. WalkTypeOK'
  BY <1>1, <1>3, <1>6 DEF WalkInv, WalkTypeOK
<1>8. Distinct'
  <2> SUFFICES ASSUME NEW i \in 1..Len(rows'), NEW j \in 1..Len(rows'), rows'[i] = rows'[j]
               PROVE  i = j
    BY DEF Distinct
  <2>1. CASE i = 1 /\ j = 1
    BY <2>1
  <2>2. CASE i = 1 /\ j # 1
    BY <1>2, <1>3, <1>4, <1>5, <2>2
  <2>3. CASE i # 1 /\ j = 1
    BY <1>2, <1>3, <1>4, <1>5, <2>3
  <2>4. CASE i # 1 /\ j # 1
    <3>1. i \in 2..Len(rows') /\ j \in 2..Len(rows')
      BY <1>2, <1>3, <2>4
    <3>2. /\ i - 1 \in 1..Len(rows) /\ j - 1 \in 1..Len(rows)
          /\ rows[i - 1] = rows[j - 1]
      BY <1>5, <3>1
    <3>3. i - 1 = j - 1
      BY <3>2 DEF WalkInv, Distinct
    <3> QED BY <3>3
  <2> QED BY <2>1, <2>2, <2>3, <2>4
<1>9. Counted' /\ Begun' /\ NothingHidden'
  BY <1>1, <1>6 DEF WalkInv, Counted, Begun, NothingHidden, Walking
<1>10. InOrder'
  BY <1>6 DEF InOrder
<1>11. Collected'
  <2> SUFFICES ASSUME honest, changes.deleted = 0
               PROVE  /\ initial \subseteq ToSet(rows')
                      /\ \A j \in 1..Len(rows') : j <= offset /\ rows'[j] \in initial
                                                    => rows'[j] \in ToSet(items)
    BY <1>1, <1>6 DEF Collected
  <2>1. /\ initial \subseteq ToSet(rows)
        /\ \A j \in 1..Len(rows) : j <= offset /\ rows[j] \in initial => rows[j] \in ToSet(items)
    BY <1>1 DEF WalkInv, Collected
  <2>2. ToSet(rows) \subseteq ToSet(rows')
    <3>1. \A i \in 1..Len(rows) : i + 1 \in DOMAIN rows' /\ rows'[i + 1] = rows[i]
      BY <1>2, <1>3
    <3> QED BY <1>2, <3>1 DEF ToSet
  <2>3. x \notin initial
    BY <1>0, <2>1
  <2>4. ASSUME NEW j \in 1..Len(rows'), j <= offset, rows'[j] \in initial
        PROVE  rows'[j] \in ToSet(items)
    <3>1. j \in 2..Len(rows')
      BY <1>2, <1>3, <2>3, <2>4
    <3> QED BY <1>2, <1>5, <2>1, <2>4, <3>1
  <2> QED BY <2>1, <2>2, <2>4
<1> QED BY <1>7, <1>8, <1>9, <1>10, <1>11 DEF WalkInv

\* After a deletion only the list's own shape and the counts still matter.
LEMMA DeleteKeeps == ASSUME WalkInv, Delete PROVE WalkInv'
<1>0. PICK k \in DOMAIN rows : rows' = RemoveAt(rows, k)
  BY DEF Delete
<1>1. /\ UNCHANGED <<limits, honest, initial, items, offset, total_count, pages_fetched, truncated, result>>
      /\ changes' = [changes EXCEPT !.deleted = @ + 1]
      /\ changes.deleted < Deletes /\ Walking
  BY DEF Delete, config
<1>2. /\ rows \in Seq(Items) /\ Len(rows) \in Nat /\ k \in 1..Len(rows) /\ changes \in Changes
  BY <1>0 DEF WalkInv, WalkTypeOK
<1>3. changes' \in Changes /\ changes'.deleted # 0
  BY <1>1, <1>2, PaginationAssumption DEF Changes
<1> DEFINE s == SubSeq(rows, 1, k - 1)
           t == SubSeq(rows, k + 1, Len(rows))
<1>4. /\ s \in Seq(Items) /\ Len(s) = k - 1 /\ \A i \in 1..Len(s) : s[i] = rows[i]
  BY <1>2
<1>5. /\ t \in Seq(Items) /\ Len(t) = Len(rows) - k /\ \A i \in 1..Len(t) : t[i] = rows[k + i]
  BY <1>2
<1>6. rows' = s \o t
  BY <1>0 DEF RemoveAt
<1> HIDE DEF s, t
<1>7. /\ rows' \in Seq(Items) /\ Len(rows') = Len(rows) - 1
      /\ \A i \in 1..Len(rows') : rows'[i] = IF i < k THEN rows[i] ELSE rows[i + 1]
  <2>1. rows' \in Seq(Items) /\ Len(rows') = Len(rows) - 1
    BY <1>2, <1>4, <1>5, <1>6
  <2>2. ASSUME NEW i \in 1..Len(rows') PROVE rows'[i] = IF i < k THEN rows[i] ELSE rows[i + 1]
    <3>1. CASE i < k
      BY <1>2, <1>4, <1>5, <1>6, <3>1
    <3>2. CASE i >= k
      <4>1. i - (k - 1) \in 1..Len(t) /\ k + (i - (k - 1)) = i + 1
        BY <1>2, <1>5, <2>1, <3>2
      <4>2. rows'[i] = t[i - (k - 1)]
        <5>1. Len(s) + (i - (k - 1)) = i
          BY <1>2, <1>4
        <5>2. (s \o t)[Len(s) + (i - (k - 1))] = t[i - (k - 1)]
          <6>1. \A j \in 1..Len(t) : (s \o t)[Len(s) + j] = t[j]
            BY <1>4, <1>5, SMTT(30)
          <6> QED BY <4>1, <6>1
        <5> QED BY <1>6, <5>1, <5>2
      <4>3. t[i - (k - 1)] = rows[k + (i - (k - 1))]
        BY <1>5, <4>1
      <4> QED BY <1>2, <3>2, <4>1, <4>2, <4>3
    <3> QED BY <1>2, <3>1, <3>2
  <2> QED BY <2>1, <2>2
<1>8. WalkTypeOK'
  BY <1>1, <1>3, <1>7 DEF WalkInv, WalkTypeOK
<1>9. Distinct'
  <2> SUFFICES ASSUME NEW i \in 1..Len(rows'), NEW j \in 1..Len(rows'), rows'[i] = rows'[j]
               PROVE  i = j
    BY DEF Distinct
  <2>0. \A m \in 1..Len(rows') :
          /\ m \in 1..Len(rows) /\ m + 1 \in 1..Len(rows)
          /\ m < k => rows'[m] = rows[m]
          /\ ~(m < k) => rows'[m] = rows[m + 1]
    BY <1>2, <1>7
  <2>d. \A m, n \in 1..Len(rows) : rows[m] = rows[n] => m = n
    BY DEF WalkInv, Distinct
  <2>1. CASE i < k /\ j < k
    BY <2>0, <2>d, <2>1
  <2>2. CASE i < k /\ ~(j < k)
    <3>1. i = j + 1
      BY <2>0, <2>d, <2>2
    <3> QED BY <1>2, <2>2, <3>1
  <2>3. CASE ~(i < k) /\ j < k
    <3>1. i + 1 = j
      BY <2>0, <2>d, <2>3
    <3> QED BY <1>2, <2>3, <3>1
  <2>4. CASE ~(i < k) /\ ~(j < k)
    <3>1. i + 1 = j + 1
      BY <2>0, <2>d, <2>4
    <3> QED BY <3>1
  <2> QED BY <2>1, <2>2, <2>3, <2>4
<1>10. Counted' /\ Begun'
  BY <1>1 DEF WalkInv, Counted, Begun, Walking
<1>11. Collected' /\ NothingHidden' /\ InOrder'
  BY <1>3 DEF Collected, NothingHidden, InOrder
<1> QED BY <1>8, <1>9, <1>10, <1>11 DEF WalkInv

\* The walk's invariant holds from the start on.
LEMMA WalkInvariant == WalkSpec => []WalkInv
<1>1. WalkInit => WalkInv
  <2> SUFFICES ASSUME WalkInit PROVE WalkInv
    OBVIOUS
  <2>1. PICK S \in SUBSET Items : rows \in SetToSeqs(S) /\ initial = S
    BY DEF WalkInit
  <2>2. rows \in Seq(Items) /\ Distinct /\ initial \subseteq ToSet(rows)
    BY <2>1, ListingIsWhole DEF Distinct
  <2>3. /\ limits \in Limits /\ honest \in BOOLEAN /\ changes = [inserted |-> 0, deleted |-> 0]
        /\ items = <<>> /\ offset = 0 /\ total_count = 0 /\ pages_fetched = 0
        /\ truncated = FALSE /\ result = "walking"
    BY DEF WalkInit
  <2>4. limits.max_pages \in Nat /\ Cardinality(Items) \in Nat
    BY <2>3, PaginationAssumption, FS_CardinalityType DEF Limits
  <2>5. WalkTypeOK
    <3>1. changes \in Changes
      BY <2>3, PaginationAssumption DEF Changes
    <3>2. items \in Seq(Items) /\ initial \subseteq Items
      BY <2>1, <2>3
    <3>3. offset \in Nat /\ total_count \in Nat /\ pages_fetched \in 0..limits.max_pages
      <4>1. 0 \in Nat /\ 0 \in 0..limits.max_pages
        BY <2>4
      <4> QED BY <2>3, <4>1, Zenon
    <3>4. truncated \in BOOLEAN /\ result \in {"walking", "page", "error"}
      BY <2>3, Zenon
    <3> QED BY <2>2, <2>3, <3>1, <3>2, <3>3, <3>4, Zenon DEF WalkTypeOK
  <2>6. Counted /\ Begun /\ NothingHidden
    BY <2>3, <2>4 DEF Counted, Begun, NothingHidden
  <2>7. Collected
    BY <2>2, <2>3 DEF Collected
  <2>8. InOrder
    BY <2>2, <2>3 DEF InOrder
  <2> QED BY <2>2, <2>5, <2>6, <2>7, <2>8 DEF WalkInv
<1>2. WalkInv /\ [WalkNext]_walkVars => WalkInv'
  <2> SUFFICES ASSUME WalkInv, [WalkNext]_walkVars PROVE WalkInv'
    OBVIOUS
  <2>1. CASE OutOfPages
    BY <2>1, StandingStill DEF OutOfPages, config
  <2>2. CASE UNCHANGED walkVars
    BY <2>2, StandingStill DEF walkVars, config
  <2> QED BY <2>1, <2>2, FetchKeeps, FailKeeps, InsertKeeps, DeleteKeeps DEF WalkNext
<1> QED BY <1>1, <1>2, PTL DEF WalkSpec

\* An untruncated answer about a collection nobody deleted from holds every item that
\* was there when the walk began, whatever was added between two pages (fetch_all).
THEOREM NothingIsHidden == WalkSpec => []NothingHidden
<1>1. WalkInv => NothingHidden
  BY DEF WalkInv
<1> QED BY <1>1, WalkInvariant, PTL

\* Of a collection nobody changes, fetch_all answers a prefix, and says truncated
\* exactly when it is a proper one, for every cap and page size.
THEOREM TruncationIsHonest == WalkSpec => []TruncatedIsHonest
<1>1. WalkInv => TruncatedIsHonest
  <2> SUFFICES ASSUME WalkInv, honest, changes = [inserted |-> 0, deleted |-> 0]
               PROVE  /\ IsPrefix(items, rows)
                      /\ result = "page" => (truncated <=> Len(items) < Len(rows))
    BY DEF TruncatedIsHonest
  <2>1. /\ Len(items) <= Len(rows) /\ \A i \in 1..Len(items) : items[i] = rows[i]
        /\ result = "page" => (truncated <=> Len(items) < Len(rows))
    BY DEF WalkInv, InOrder
  <2>2. items \in Seq(Items) /\ rows \in Seq(Items) /\ Len(items) \in Nat /\ Len(rows) \in Nat
    BY DEF WalkInv, WalkTypeOK
  <2>3. IsPrefix(items, rows)
    BY <2>1, <2>2 DEF IsPrefix
  <2> QED BY <2>1, <2>3
<1> QED BY <1>1, WalkInvariant, PTL

\* A walk asks for at most one page more than there are items, however the server
\* answers (fetch_all's zero-progress case).
THEOREM PagesAreBounded == WalkSpec => []NoWastedPages
<1>1. WalkInv => NoWastedPages
  <2>1. Cardinality(Items) \in Nat
    BY PaginationAssumption, FS_CardinalityType
  <2> SUFFICES ASSUME WalkInv PROVE NoWastedPages
    OBVIOUS
  <2>2. pages_fetched \in Nat /\ offset \in Nat
    BY PaginationAssumption DEF WalkInv, WalkTypeOK, Limits
  <2> QED BY <2>1, <2>2 DEF WalkInv, Counted, NoWastedPages
<1> QED BY <1>1, WalkInvariant, PTL
=============================================================================
