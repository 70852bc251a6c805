---------------------------- MODULE InboxProofs ----------------------------
(***************************************************************************)
(* Proofs about Inbox, for every set of users, rows, queries and limits,   *)
(* and any number of rows that are added or change while the client pages. *)
(***************************************************************************)
EXTENDS Inbox, FiniteSetTheorems, SequenceTheorems, TLAPS

Stored == {id \in IDs : notifications[id] # NoRow}

\* Rows are stamped by a clock that has started; there are finitely many.
RowsOK ==
    /\ IsFiniteSet(Stored)
    /\ \A n \in built : n.createdAt > 0
    /\ \A id \in Stored : CreatedAt(id) > 0

Listed == seen \cup Range(page)

\* What a client has seen is stored, and lies on the near side of its cursor.
WalkOK ==
    /\ Listed \subseteq Stored
    /\ walk = "idle" => cursor = 0 /\ Listed = {} /\ steady = {}
    /\ walk = "paging" => cursor > 0 /\ \A id \in Listed : CreatedAt(id) >= cursor

\* A row that matched all the time was listed, shares the creation time of a
\* page's last row, or is still to come.
SteadyOK ==
    /\ \A id \in steady : Matches(query, notifications[id])
    /\ walk = "paging" =>
          \A id \in steady : id \in Listed \/ CreatedAt(id) \in edges \/ CreatedAt(id) < cursor

\* The inductive invariant.
IInv == PagesInOrder /\ MissedOnlyAtTie /\ RowsOK /\ WalkOK /\ SteadyOK

-----------------------------------------------------------------------------
(* Sorting.                                                                *)

\* The order of the rows is strict and total.
LEMMA Order ==
    ASSUME NEW i \in Nat, NEW j \in Nat, NEW k \in Nat,
           notifications[i].createdAt \in Nat, notifications[j].createdAt \in Nat, notifications[k].createdAt \in Nat
    PROVE  /\ ~NewestFirst(i, i)
           /\ i = j \/ NewestFirst(i, j) \/ NewestFirst(j, i)
           /\ NewestFirst(i, j) /\ NewestFirst(j, k) => NewestFirst(i, k)
           /\ NewestFirst(i, j) => notifications[i].createdAt >= notifications[j].createdAt
BY DEF NewestFirst

\* How many ids of S come before id.
Rank(S, id) == Cardinality({j \in S : NewestFirst(j, id)})

\* Ranks count up along the order.
LEMMA RankCounts ==
    ASSUME NEW S, IsFiniteSet(S), S \subseteq Nat, \A id \in S : notifications[id].createdAt \in Nat
    PROVE  /\ \A i \in S : Rank(S, i) \in Nat /\ Rank(S, i) < Cardinality(S)
           /\ \A i, j \in S : NewestFirst(i, j) => Rank(S, i) < Rank(S, j)
           /\ \A i, j \in S : Rank(S, i) = Rank(S, j) => i = j
<1> DEFINE before(i) == {j \in S : NewestFirst(j, i)}
<1>1. ASSUME NEW i \in S
      PROVE  Rank(S, i) \in Nat /\ Rank(S, i) < Cardinality(S) /\ IsFiniteSet(before(i))
  <2>1. before(i) \in SUBSET S /\ Rank(S, i) = Cardinality(before(i))
    BY DEF Rank
  <2>2. i \notin before(i)
    BY Order
  <2> HIDE DEF before
  <2>3. IsFiniteSet(before(i)) /\ Cardinality(before(i)) <= Cardinality(S)
    BY <2>1, FS_Subset
  <2>4. Cardinality(S) # Cardinality(before(i))
    BY <2>1, <2>2, FS_Subset
  <2>5. Cardinality(before(i)) \in Nat /\ Cardinality(S) \in Nat
    BY <2>3, FS_CardinalityType
  <2>6. QED
    BY <2>1, <2>3, <2>4, <2>5
<1>2. ASSUME NEW i \in S, NEW j \in S, NewestFirst(i, j) PROVE Rank(S, i) < Rank(S, j)
  <2>1. before(i) \in SUBSET before(j)
    BY <1>2, Order
  <2>2. i \in before(j) /\ i \notin before(i)
    BY <1>2, Order
  <2>3. Rank(S, i) = Cardinality(before(i)) /\ Rank(S, j) = Cardinality(before(j))
    BY DEF Rank
  <2> HIDE DEF before
  <2>4. IsFiniteSet(before(j)) /\ Rank(S, i) \in Nat /\ Rank(S, j) \in Nat
    BY <1>1
  <2>5. Cardinality(before(i)) <= Cardinality(before(j)) /\ Cardinality(before(i)) # Cardinality(before(j))
    BY <2>1, <2>2, <2>4, FS_Subset
  <2>6. QED
    BY <2>3, <2>4, <2>5
<1>3. ASSUME NEW i \in S, NEW j \in S, Rank(S, i) = Rank(S, j) PROVE i = j
  <2>1. i = j \/ NewestFirst(i, j) \/ NewestFirst(j, i)
    BY Order
  <2>2. /\ NewestFirst(i, j) => Rank(S, i) < Rank(S, j)
        /\ NewestFirst(j, i) => Rank(S, j) < Rank(S, i)
    BY <1>2
  <2>3. Rank(S, i) \in Nat /\ Rank(S, j) \in Nat
    BY <1>1
  <2>4. QED
    BY <1>3, <2>1, <2>2, <2>3
<1>4. QED
  BY <1>1, <1>2, <1>3

\* InOrder lists every id of S once, in order.
LEMMA InOrderSorts ==
    ASSUME NEW S, IsFiniteSet(S), S \subseteq Nat, \A id \in S : notifications[id].createdAt \in Nat,
           NEW s, s = InOrder(S)
    PROVE  /\ s \in Seq(S) /\ Len(s) = Cardinality(S)
           /\ \A i, j \in 1..Len(s) : i < j => NewestFirst(s[i], s[j])
           /\ \A id \in S : \E i \in 1..Len(s) : s[i] = id
<1>1. PICK n \in Nat : n = Cardinality(S)
  BY FS_CardinalityType
<1>0. /\ \A i \in S : Rank(S, i) \in Nat /\ Rank(S, i) < n
      /\ \A i, j \in S : NewestFirst(i, j) => Rank(S, i) < Rank(S, j)
      /\ \A i, j \in S : Rank(S, i) = Rank(S, j) => i = j
  BY <1>1, RankCounts
<1> DEFINE f == [id \in S |-> Rank(S, id) + 1]
<1>2. f \in Injection(S, 1..n)
  <2>1. \A id \in S : Rank(S, id) + 1 \in 1..n
    BY <1>0
  <2>2. \A i, j \in S : Rank(S, i) + 1 = Rank(S, j) + 1 => i = j
    BY <1>0
  <2>3. QED
    BY <2>1, <2>2 DEF Injection, IsInjective
<1>3. f \in Surjection(S, 1..n)
  <2>1. IsFiniteSet(1..n) /\ Cardinality(1..n) = n
    BY FS_Interval
  <2> HIDE DEF f
  <2>2. QED
    BY <1>1, <1>2, <2>1, FS_Injection
<1>4. \A i \in 1..n : \E id \in S : Rank(S, id) = i - 1
  <2> SUFFICES ASSUME NEW i \in 1..n PROVE \E id \in S : Rank(S, id) = i - 1
    OBVIOUS
  <2>1. PICK id \in S : f[id] = i
    BY <1>3 DEF Surjection
  <2>2. Rank(S, id) \in Nat
    BY <1>0
  <2>3. QED
    BY <2>1, <2>2
<1>5. s = [i \in 1..n |-> CHOOSE id \in S : Rank(S, id) = i - 1]
  BY <1>1 DEF InOrder, Rank
<1>6. ASSUME NEW i \in 1..n PROVE s[i] \in S /\ Rank(S, s[i]) = i - 1
  <2>1. s[i] = CHOOSE id \in S : Rank(S, id) = i - 1
    BY <1>5
  <2>2. \E id \in S : Rank(S, id) = i - 1
    BY <1>4
  <2>3. QED
    BY <2>1, <2>2
<1>7. s \in Seq(S) /\ Len(s) = n
  <2>1. DOMAIN s = 1..n /\ s = [i \in 1..n |-> s[i]]
    BY <1>5
  <2>2. s \in [1..n -> S]
    BY <1>6, <2>1
  <2>3. QED
    BY <2>2
<1>8. ASSUME NEW i \in 1..n, NEW j \in 1..n, i < j PROVE NewestFirst(s[i], s[j])
  <2>1. s[i] \in S /\ s[j] \in S /\ Rank(S, s[i]) = i - 1 /\ Rank(S, s[j]) = j - 1
    BY <1>6
  <2>2. s[i] = s[j] \/ NewestFirst(s[i], s[j]) \/ NewestFirst(s[j], s[i])
    BY <2>1, Order
  <2>3. s[i] # s[j]
    BY <1>8, <2>1
  <2>4. ~NewestFirst(s[j], s[i])
    <3>1. PICK a \in S, b \in S : a = s[i] /\ b = s[j]
      BY <2>1
    <3>2. NewestFirst(b, a) => Rank(S, b) < Rank(S, a)
      BY <1>0
    <3>3. QED
      BY <1>8, <2>1, <3>1, <3>2
  <2>5. QED
    BY <2>2, <2>3, <2>4
<1>9. ASSUME NEW id \in S PROVE \E i \in 1..n : s[i] = id
  <2>1. Rank(S, id) \in Nat /\ Rank(S, id) < n
    BY <1>0
  <2>2. PICK i \in 1..n : i = Rank(S, id) + 1
    BY <2>1
  <2>3. s[i] \in S /\ Rank(S, s[i]) = Rank(S, id)
    BY <1>6, <2>1, <2>2
  <2>4. s[i] = id
    BY <1>0, <2>3
  <2>5. QED
    BY <2>4
<1>10. QED
  BY <1>1, <1>7, <1>8, <1>9

-----------------------------------------------------------------------------
(* One page.                                                               *)

\* The rows the page after the cursor is taken from.
Candidates(q, after) == {id \in IDs : Matches(q, notifications[id]) /\ Older(notifications[id], after)}

\* Stored rows have creation times, and candidates are stored.
LEMMA CandidatesAreRows ==
    ASSUME TypeOK, RowsOK, NEW q, NEW after, NEW S, S = Candidates(q, after)
    PROVE  /\ IsFiniteSet(S) /\ S \subseteq Nat /\ S \subseteq IDs
           /\ \A id \in S : id \in Stored /\ notifications[id].createdAt \in Nat
           /\ \A id \in Stored : CreatedAt(id) \in Stamp /\ CreatedAt(id) \in Nat /\ CreatedAt(id) > 0
<1>1. S \subseteq Stored /\ S \subseteq IDs
  BY DEF Candidates, Stored, Matches
<1>2. IsFiniteSet(S)
  <2>1. S \in SUBSET Stored /\ IsFiniteSet(Stored)
    BY <1>1 DEF RowsOK
  <2>2. QED
    BY <2>1, FS_Subset
<1>3. \A id \in Stored : notifications[id] \in Row
  BY DEF TypeOK, StoreTypeOK, Stored
<1>4. \A id \in Stored : CreatedAt(id) \in Stamp
  BY <1>3 DEF CreatedAt, Row
<1>5. \A id \in Stored : CreatedAt(id) \in Nat
  BY <1>4, ModelConstants DEF Stamp
<1>6. \A id \in S : id \in Stored /\ notifications[id].createdAt \in Nat
  BY <1>1, <1>5 DEF CreatedAt
<1>7. QED
  BY <1>1, <1>2, <1>4, <1>5, <1>6, InboxConstants DEF RowsOK

\* ClampLimit returns a usable page size for every limit a client may ask for.
LEMMA ClampLimitInRange ==
    ASSUME NEW limit \in Int
    PROVE  ClampLimit(limit) \in Nat /\ ClampLimit(limit) > 0 /\ ClampLimit(limit) <= MaxPageLimit
BY InboxConstants DEF ClampLimit

\* A page is the first candidates in order; a page with a next cursor leaves
\* out only rows that are not newer than its last one, a page without one
\* leaves out none.
LEMMA PageIsPrefix ==
    ASSUME TypeOK, RowsOK, NEW q, q.limit \in Int, NEW after, NEW S, S = Candidates(q, after),
           NEW p, p = Page(q, after), NEW next, next = NextCursor(q, after)
    PROVE  /\ p \in Seq(S) /\ Len(p) <= MaxPageLimit
           /\ \A i, j \in 1..Len(p) : i < j => NewestFirst(p[i], p[j])
           /\ next = 0 => \A id \in S : \E i \in 1..Len(p) : p[i] = id
           /\ next # 0 => /\ p # <<>>
                          /\ next = CreatedAt(Last(p))
                          /\ \A i \in 1..Len(p) : CreatedAt(p[i]) >= next
                          /\ \A id \in S : (\E i \in 1..Len(p) : p[i] = id) \/ CreatedAt(id) <= next
<1>1. /\ IsFiniteSet(S) /\ S \subseteq Nat
      /\ \A id \in S : notifications[id].createdAt \in Nat /\ notifications[id].createdAt > 0
  BY CandidatesAreRows DEF CreatedAt
<1>2. PICK r : r = InOrder(S)
  OBVIOUS
<1>3. /\ r \in Seq(S)
      /\ \A i, j \in 1..Len(r) : i < j => NewestFirst(r[i], r[j])
      /\ \A id \in S : \E i \in 1..Len(r) : r[i] = id
  <2>1. IsFiniteSet(S) /\ S \subseteq Nat /\ \A id \in S : notifications[id].createdAt \in Nat
    BY <1>1
  <2>2. /\ r \in Seq(S) /\ Len(r) = Cardinality(S)
        /\ \A i, j \in 1..Len(r) : i < j => NewestFirst(r[i], r[j])
        /\ \A id \in S : \E i \in 1..Len(r) : r[i] = id
    BY <1>2, <2>1, InOrderSorts
  <2>3. QED
    BY <2>2
<1>4. r = Rest(q, after)
  BY <1>2 DEF Rest, Candidates
<1>5. PICK L \in Nat : L = ClampLimit(q.limit) /\ L > 0 /\ L <= MaxPageLimit
  BY ClampLimitInRange
<1>6. PICK n \in Nat : n = Len(r)
  BY <1>3
<1>7. PICK m \in Nat : m = IF L <= n THEN L ELSE n
  OBVIOUS
<1>8. Min({L, n}) = m
  BY <1>7 DEF Min
<1>9. p = SubSeq(r, 1, m)
  BY <1>4, <1>5, <1>6, <1>8 DEF Page
<1>10. p \in Seq(S) /\ Len(p) = m /\ \A i \in 1..m : p[i] = r[i]
  <2>1. m <= n
    BY <1>7
  <2>2. \A i \in 1..m : r[i] \in S
    BY <1>3, <1>6, <2>1
  <2>3. /\ SubSeq(r, 1, m) \in Seq(S) /\ Len(SubSeq(r, 1, m)) = (IF 1 <= m THEN m - 1 + 1 ELSE 0)
        /\ \A i \in 1..(m - 1 + 1) : SubSeq(r, 1, m)[i] = r[1 + i - 1]
    BY <2>2, SubSeqProperties
  <2>4. QED
    BY <1>9, <2>3
<1>11. m <= n /\ m <= MaxPageLimit
  BY <1>5, <1>7, InboxConstants
<1>12. \A i, j \in 1..m : i < j => NewestFirst(p[i], p[j])
  <2> SUFFICES ASSUME NEW i \in 1..m, NEW j \in 1..m, i < j PROVE NewestFirst(p[i], p[j])
    OBVIOUS
  <2>1. i \in 1..Len(r) /\ j \in 1..Len(r) /\ p[i] = r[i] /\ p[j] = r[j]
    BY <1>6, <1>10, <1>11
  <2>2. NewestFirst(r[i], r[j])
    BY <1>3, <2>1
  <2>3. QED
    BY <2>1, <2>2
<1>13. next = IF n > L THEN notifications[Last(p)].createdAt ELSE 0
  BY <1>4, <1>5, <1>6 DEF NextCursor
<1>14. CASE n > L
  <2>1. m = L /\ m \in 1..m /\ m \in 1..n
    BY <1>5, <1>7, <1>14
  <2>2. Last(p) = r[m] /\ p[m] = r[m] /\ r[m] \in S
    BY <1>3, <1>6, <1>10, <2>1 DEF Last
  <2>3. next = CreatedAt(r[m]) /\ next \in Nat /\ next > 0
    BY <1>1, <1>13, <1>14, <2>2 DEF CreatedAt
  <2>4. ASSUME NEW i \in 1..n, NEW j \in 1..n, i < j PROVE CreatedAt(r[i]) >= CreatedAt(r[j])
    <3>1. NewestFirst(r[i], r[j]) /\ r[i] \in S /\ r[j] \in S
      BY <1>3, <1>6, <2>4
    <3>2. PICK a \in S, b \in S : a = r[i] /\ b = r[j]
      BY <3>1
    <3>3. notifications[a].createdAt >= notifications[b].createdAt
      BY <1>1, <3>1, <3>2, Order
    <3>4. QED
      BY <3>2, <3>3 DEF CreatedAt
  <2>5. ASSUME NEW i \in 1..m PROVE CreatedAt(p[i]) >= next
    <3>1. i \in 1..n /\ p[i] = r[i]
      BY <1>10, <1>11
    <3>2. CASE i < m
      BY <2>1, <2>3, <2>4, <3>1, <3>2
    <3>3. CASE i = m
      BY <2>3, <3>1, <3>3
    <3>4. QED
      BY <3>2, <3>3
  <2>6. ASSUME NEW id \in S PROVE (\E i \in 1..m : p[i] = id) \/ CreatedAt(id) <= next
    <3>1. PICK i \in 1..n : r[i] = id
      BY <1>3, <1>6
    <3>2. CASE i <= m
      BY <1>10, <3>1, <3>2
    <3>3. CASE m < i
      <4>1. CreatedAt(r[m]) >= CreatedAt(r[i])
        BY <2>1, <2>4, <3>3
      <4>2. CreatedAt(id) \in Nat
        BY <1>1 DEF CreatedAt
      <4>3. QED
        BY <2>3, <3>1, <4>1, <4>2
    <3>4. QED
      BY <3>2, <3>3
  <2>7. p # <<>>
    BY <1>10, <2>1
  <2>8. QED
    BY <1>10, <1>11, <1>12, <2>2, <2>3, <2>5, <2>6, <2>7
<1>15. CASE ~(n > L)
  <2>1. m = n /\ next = 0
    BY <1>7, <1>13, <1>15
  <2>2. \A id \in S : \E i \in 1..m : p[i] = id
    BY <1>3, <1>6, <1>10, <2>1
  <2>3. QED
    BY <1>10, <1>11, <1>12, <2>1, <2>2
<1>16. QED
  BY <1>14, <1>15

-----------------------------------------------------------------------------
(* The steps of other calls.                                               *)

\* Rows that Notify builds and UpdateStatus stamps are rows with the creation
\* time and the key they were built with.
LEMMA RowTypes ==
    /\ \A key \in Key, kind \in Channels, at \in 1..MaxTime :
          NewRow(key, kind, at) \in Row /\ NewRow(key, kind, at).createdAt = at
    /\ \A row \in Row, status \in Status, at \in 1..MaxTime :
          /\ Stamped(row, status, at) \in Row
          /\ Stamped(row, status, at).createdAt = row.createdAt
          /\ Stamped(row, status, at).key = row.key
          /\ Stamped(row, status, at).status = status
<1>1. 0 \in Stamp /\ \A at \in 1..MaxTime : at \in Stamp
  BY ModelConstants DEF Stamp
<1>2. ASSUME NEW key \in Key, NEW kind \in Channels, NEW at \in Stamp
      PROVE  NewRow(key, kind, at) \in Row /\ NewRow(key, kind, at).createdAt = at
  BY <1>1 DEF NewRow, Row, Status
<1>3. ASSUME NEW row \in Row, NEW status \in Status, NEW at \in Stamp
      PROVE  /\ Stamped(row, status, at) \in Row
             /\ Stamped(row, status, at).createdAt = row.createdAt
             /\ Stamped(row, status, at).key = row.key
             /\ Stamped(row, status, at).status = status
  BY DEF Stamped, Row
<1>4. QED
  BY <1>1, <1>2, <1>3

\* No row disappears, and none moves in the order.
RowsKept ==
    \A id \in Stored : id \in Stored' /\ notifications'[id].createdAt = notifications[id].createdAt

\* Whatever else a step does to the rows, a client that takes no part in it
\* keeps its pages in order and its account of the rows that matched.
LEMMA ClientKept ==
    ASSUME IInv, TypeOK', RowsKept, UNCHANGED clientVars, steady' \subseteq steady,
           \A id \in steady' : Matches(query, notifications'[id])
    PROVE  PagesInOrder' /\ MissedOnlyAtTie' /\ WalkOK' /\ SteadyOK'
<1>1. /\ walk' = walk /\ query' = query /\ cursor' = cursor
      /\ page' = page /\ seen' = seen /\ edges' = edges
  BY DEF clientVars
<1>2. Range(page)' = Range(page) /\ Listed' = Listed
  BY <1>1 DEF Listed
<1>3. Listed \subseteq Stored /\ steady \subseteq Stored
  BY DEF IInv, PagesInOrder, TypeOK, WalkOK, SteadyOK, Matches, Stored
<1>4. \A id \in Listed : id \in Stored' /\ CreatedAt(id)' = CreatedAt(id)
  BY <1>3 DEF RowsKept, CreatedAt
<1>5. \A id \in steady : id \in Stored' /\ CreatedAt(id)' = CreatedAt(id)
  BY <1>3 DEF RowsKept, CreatedAt
<1>6. NothingListedTwice'
  BY <1>1, <1>2 DEF IInv, PagesInOrder, NothingListedTwice, IsInjective
<1>7. NewestFirstOverall'
  <2>1. \A i \in DOMAIN page : page[i] \in Listed
    BY DEF Listed, Range
  <2>2. ASSUME NEW i \in DOMAIN page, NEW j \in DOMAIN page, i < j
        PROVE  CreatedAt(page[i])' >= CreatedAt(page[j])'
    <3>1. CreatedAt(page[i]) >= CreatedAt(page[j])
      BY <2>2 DEF IInv, PagesInOrder, NewestFirstOverall
    <3>2. PICK a \in Listed, b \in Listed : a = page[i] /\ b = page[j]
      BY <2>1
    <3>3. CreatedAt(a)' = CreatedAt(a) /\ CreatedAt(b)' = CreatedAt(b)
      BY <1>4
    <3>4. QED
      BY <1>1, <3>1, <3>2, <3>3 DEF CreatedAt
  <2>3. ASSUME NEW old \in seen, NEW id \in Range(page)
        PROVE  CreatedAt(old)' >= CreatedAt(id)'
    <3>1. CreatedAt(old) >= CreatedAt(id) /\ old \in Listed /\ id \in Listed
      BY DEF IInv, PagesInOrder, NewestFirstOverall, Listed
    <3>2. QED
      BY <1>4, <3>1
  <2>4. QED
    BY <1>1, <1>2, <2>2, <2>3 DEF NewestFirstOverall
<1>8. MissedOnlyAtTie'
  <2>1. walk = "over" => \A id \in steady : id \in Listed \/ CreatedAt(id) \in edges
    BY DEF IInv, MissedOnlyAtTie, Listed
  <2>2. walk' = "over" => \A id \in steady' : id \in Listed' \/ CreatedAt(id)' \in edges'
    BY <1>1, <1>2, <1>5, <2>1
  <2>3. QED
    BY <2>2 DEF MissedOnlyAtTie, Listed
<1>9. WalkOK'
  <2>1. walk = "idle" => cursor = 0 /\ Listed = {} /\ steady = {}
    BY DEF IInv, WalkOK
  <2>2. walk = "paging" => cursor > 0 /\ \A id \in Listed : CreatedAt(id) >= cursor
    BY DEF IInv, WalkOK
  <2>3. walk' = "idle" => cursor' = 0 /\ Listed' = {} /\ steady' = {}
    BY <1>1, <1>2, <2>1
  <2>4. walk' = "paging" => cursor' > 0 /\ \A id \in Listed' : CreatedAt(id)' >= cursor'
    BY <1>1, <1>2, <1>4, <2>2
  <2>5. Listed' \subseteq Stored'
    BY <1>2, <1>4
  <2>6. QED
    BY <2>3, <2>4, <2>5 DEF WalkOK
<1>10. SteadyOK'
  <2>1. walk = "paging" =>
            \A id \in steady : id \in Listed \/ CreatedAt(id) \in edges \/ CreatedAt(id) < cursor
    BY DEF IInv, SteadyOK
  <2>2. walk' = "paging" =>
            \A id \in steady' : id \in Listed' \/ CreatedAt(id)' \in edges' \/ CreatedAt(id)' < cursor'
    BY <1>1, <1>2, <1>5, <2>1
  <2>3. \A id \in steady' : Matches(query, notifications[id])'
    BY <1>1 DEF Matches
  <2>4. QED
    BY <2>2, <2>3 DEF SteadyOK
<1>11. QED
  BY <1>6, <1>7, <1>8, <1>9, <1>10 DEF PagesInOrder

\* A step that leaves the store alone.
LEMMA StoreKept ==
    ASSUME IInv, TypeOK', UNCHANGED <<storeVars, clientVars, steady>>, \A n \in built' : n.createdAt > 0
    PROVE  IInv'
<1>1. notifications' = notifications /\ Stored' = Stored /\ steady' = steady /\ UNCHANGED clientVars
  BY DEF storeVars, Stored
<1>2. RowsKept
  BY <1>1 DEF RowsKept
<1>3. RowsOK'
  BY <1>1 DEF IInv, RowsOK, CreatedAt
<1>4. \A id \in steady' : Matches(query, notifications'[id])
  BY <1>1 DEF IInv, SteadyOK
<1>5. QED
  BY <1>1, <1>2, <1>3, <1>4, ClientKept DEF IInv

\* Notify stamps the row with a clock that has started.
LEMMA BuildIInv ==
    ASSUME IInv, NEW key \in Key, NEW kind \in Channels, Build(key, kind)
    PROVE  IInv'
<1>1. now \in 1..MaxTime /\ now > 0
  BY ModelConstants DEF IInv, PagesInOrder, TypeOK
<1>2. PICK row \in Row : row = NewRow(key, kind, now) /\ row.createdAt > 0
  BY <1>1, RowTypes
<1>3. built' = built \cup {row} /\ now' = now /\ UNCHANGED <<storeVars, clientVars, steady>>
  BY <1>2 DEF Build
<1>4. \A n \in built' : n.createdAt > 0
  BY <1>2, <1>3 DEF IInv, RowsOK
<1>5. TypeOK'
  BY <1>3 DEF IInv, PagesInOrder, TypeOK, storeVars, StoreTypeOK, clientVars
<1>6. QED
  BY <1>3, <1>4, <1>5, StoreKept

\* The clock is read by later steps only.
LEMMA TickIInv ==
    ASSUME IInv, Tick
    PROVE  IInv'
<1>1. now' \in 1..MaxTime
  BY ModelConstants DEF IInv, PagesInOrder, TypeOK, Tick
<1>2. built' = built /\ UNCHANGED <<storeVars, clientVars, steady>>
  BY DEF Tick
<1>3. TypeOK'
  BY <1>1, <1>2 DEF IInv, PagesInOrder, TypeOK, storeVars, StoreTypeOK, clientVars
<1>4. QED
  BY <1>2, <1>3, StoreKept DEF IInv, RowsOK

\* Either the row's key is known and nothing is written, or the row is added
\* under an id of its own, perhaps with a creation time that is already past.
LEMMA StoreIInv ==
    ASSUME IInv, NEW n \in built, Store(n)
    PROVE  IInv'
<1>1. n \in Row /\ n.createdAt > 0 /\ n # NoRow /\ n.key \in Key
  BY StoreConstants DEF IInv, PagesInOrder, TypeOK, RowsOK, Row
<1>2. /\ built' = built \ {n} /\ now' = now /\ steady' = steady /\ UNCHANGED clientVars
      /\ \E id \in IDs : CreateNotification(n, id)
  BY DEF Store
<1>3. PICK id \in IDs : CreateNotification(n, id)
  BY <1>2
<1>4. CASE UNCHANGED storeVars
  <2>1. TypeOK'
    BY <1>2, <1>4 DEF IInv, PagesInOrder, TypeOK, storeVars, StoreTypeOK, clientVars
  <2>2. \A m \in built' : m.createdAt > 0
    BY <1>2 DEF IInv, RowsOK
  <2>3. QED
    BY <1>2, <1>4, <2>1, <2>2, StoreKept
<1>5. CASE ~UNCHANGED storeVars
  <2>1. /\ notifications[id] = NoRow
        /\ notifications' = [notifications EXCEPT ![id] = n]
        /\ notifByKey' = [notifByKey EXCEPT ![n.key] = id]
    BY <1>3, <1>5 DEF CreateNotification
  <2>2. TypeOK'
    <3>1. StoreTypeOK'
      BY <1>1, <2>1 DEF IInv, PagesInOrder, TypeOK, StoreTypeOK
    <3>2. QED
      BY <1>2, <3>1 DEF IInv, PagesInOrder, TypeOK, clientVars
  <2>3. \A j \in IDs : notifications'[j] = IF j = id THEN n ELSE notifications[j]
    BY <2>1 DEF IInv, PagesInOrder, TypeOK, StoreTypeOK
  <2>4. Stored' = Stored \cup {id} /\ id \notin Stored
    BY <1>1, <2>1, <2>3 DEF Stored
  <2>5. RowsKept
    BY <2>3, <2>4 DEF RowsKept, Stored
  <2>6. RowsOK'
    <3>1. IsFiniteSet(Stored')
      BY <2>4, FS_AddElement DEF IInv, RowsOK
    <3>2. \A j \in Stored' : CreatedAt(j)' > 0
      BY <1>1, <2>3, <2>4 DEF IInv, RowsOK, CreatedAt, Stored
    <3>3. QED
      BY <1>2, <3>1, <3>2 DEF IInv, RowsOK
  <2>7. \A j \in steady' : Matches(query, notifications'[j])
    <3>1. \A j \in steady : Matches(query, notifications[j]) /\ j \in IDs
      BY DEF IInv, PagesInOrder, TypeOK, SteadyOK
    <3>2. \A j \in steady : j # id
      BY <2>1, <3>1 DEF Matches
    <3>3. \A j \in steady : notifications'[j] = notifications[j]
      BY <2>3, <3>1, <3>2
    <3>4. QED
      BY <1>2, <3>1, <3>3
  <2>8. QED
    BY <1>2, <2>2, <2>5, <2>6, <2>7, ClientKept DEF IInv
<1>6. QED
  BY <1>4, <1>5

\* A row that a client no longer asks for stops being one that matched all the
\* time; every other row still matches.
LEMMA ChangeStatusIInv ==
    ASSUME IInv, NEW id \in IDs, NEW status \in Changes, ChangeStatus(id, status)
    PROVE  IInv'
<1>1. /\ notifications[id] # NoRow
      /\ notifications' = [notifications EXCEPT ![id] = Stamped(notifications[id], status, now)]
      /\ notifByKey' = notifByKey /\ now' = now /\ built' = built /\ UNCHANGED clientVars
      /\ steady' = IF query.unreadOnly /\ status = "read" THEN steady \ {id} ELSE steady
  BY DEF ChangeStatus, UpdateStatus
<1>2. notifications[id] \in Row /\ status \in Status /\ now \in 1..MaxTime
  BY <1>1, InboxConstants DEF IInv, PagesInOrder, TypeOK, StoreTypeOK
<1>3. PICK row \in Row : row = notifications[id]
  BY <1>2
<1>4. PICK new \in Row : /\ new = Stamped(row, status, now)
                         /\ new.createdAt = row.createdAt /\ new.key = row.key /\ new.status = status
  BY <1>2, RowTypes
<1>5. \A j \in IDs : notifications'[j] = IF j = id THEN new ELSE notifications[j]
  BY <1>1, <1>3, <1>4 DEF IInv, PagesInOrder, TypeOK, StoreTypeOK
<1>6. TypeOK'
  <2>1. StoreTypeOK'
    BY <1>1, <1>3, <1>4 DEF IInv, PagesInOrder, TypeOK, StoreTypeOK
  <2>2. steady' \subseteq steady
    BY <1>1
  <2>3. QED
    BY <1>1, <2>1, <2>2 DEF IInv, PagesInOrder, TypeOK, clientVars
<1>7. Stored' = Stored
  BY <1>1, <1>4, <1>5, StoreConstants DEF Stored
<1>8. RowsKept
  BY <1>3, <1>4, <1>5, <1>7 DEF RowsKept, Stored
<1>9. RowsOK'
  <2>1. \A j \in Stored : CreatedAt(j)' = CreatedAt(j)
    BY <1>8 DEF RowsKept, CreatedAt
  <2>2. QED
    BY <1>1, <1>7, <2>1 DEF IInv, RowsOK
<1>10. ASSUME NEW j \in steady' PROVE Matches(query, notifications'[j])
  <2>1. j \in steady /\ j \in IDs /\ Matches(query, notifications[j])
    BY <1>1 DEF IInv, PagesInOrder, TypeOK, SteadyOK
  <2>2. CASE j # id
    BY <1>5, <2>1, <2>2
  <2>3. CASE j = id
    <3>1. query.unreadOnly => status # "read"
      BY <1>1, <2>3
    <3>2. notifications'[j] = new /\ new # NoRow
      BY <1>5, <2>3, StoreConstants
    <3>3. QED
      BY <1>3, <1>4, <2>1, <2>3, <3>1, <3>2 DEF Matches
  <2>4. QED
    BY <2>2, <2>3
<1>11. steady' \subseteq steady
  BY <1>1
<1>12. QED
  BY <1>1, <1>6, <1>8, <1>9, <1>10, <1>11, ClientKept DEF IInv

-----------------------------------------------------------------------------
(* A request for the next page.                                            *)

\* A page that is taken from rows older than all the rows listed so far
\* continues the list.
LEMMA PageContinuesList ==
    ASSUME IInv, GetNotifications, NEW S, S = Candidates(query, cursor),
           NEW p, p = page', p \in Seq(S),
           \A i, j \in 1..Len(p) : i < j => NewestFirst(p[i], p[j])
    PROVE  /\ Range(p) \subseteq S
           /\ \A old \in Listed, id \in S : CreatedAt(old) > CreatedAt(id)
           /\ NothingListedTwice' /\ NewestFirstOverall'
<1>1. TypeOK /\ RowsOK /\ WalkOK
  BY DEF IInv, PagesInOrder
<1>2. /\ S \subseteq Nat
      /\ \A id \in S : id \in Stored /\ notifications[id].createdAt \in Nat
      /\ \A id \in Stored : CreatedAt(id) \in Nat
  BY <1>1, CandidatesAreRows
<1>3. notifications' = notifications /\ seen' = Listed /\ page' = p
  BY DEF GetNotifications, Listed, storeVars
<1>4. Len(p) \in Nat /\ DOMAIN p = 1..Len(p) /\ \A i \in 1..Len(p) : p[i] \in S
  OBVIOUS
<1>5. Range(p) \subseteq S
  BY <1>4 DEF Range
<1>6. ASSUME NEW old \in Listed, NEW id \in S PROVE CreatedAt(old) > CreatedAt(id)
  <2>1. walk = "paging" /\ cursor \in Nat /\ cursor > 0 /\ CreatedAt(old) >= cursor
    <3>1. walk \in {"idle", "paging", "over"} /\ walk # "over" /\ walk # "idle"
      BY <1>1, <1>6 DEF TypeOK, WalkOK, GetNotifications
    <3>2. cursor \in Nat
      BY <1>1, ModelConstants DEF TypeOK, Stamp
    <3>3. QED
      BY <1>1, <3>1, <3>2 DEF WalkOK
  <2>2. Older(notifications[id], cursor)
    BY DEF Candidates
  <2>3. CreatedAt(id) < cursor
    BY <2>1, <2>2 DEF Older, CreatedAt
  <2>4. CreatedAt(id) \in Nat /\ CreatedAt(old) \in Nat
    BY <1>1, <1>2 DEF WalkOK
  <2>5. QED
    BY <2>1, <2>3, <2>4
<1>7. ASSUME NEW i \in 1..Len(p), NEW j \in 1..Len(p), i < j
      PROVE  p[i] # p[j] /\ CreatedAt(p[i]) >= CreatedAt(p[j])
  <2>1. PICK a \in S, b \in S : a = p[i] /\ b = p[j]
    BY <1>4
  <2>2. NewestFirst(a, b)
    BY <1>7, <2>1
  <2>3. a \in Nat /\ b \in Nat /\ notifications[a].createdAt \in Nat /\ notifications[b].createdAt \in Nat
    BY <1>2
  <2>4. a # b /\ notifications[a].createdAt >= notifications[b].createdAt
    BY <2>2, <2>3, Order
  <2>5. QED
    BY <2>1, <2>4 DEF CreatedAt
<1>8. NothingListedTwice'
  <2>1. ASSUME NEW i \in 1..Len(p), NEW j \in 1..Len(p), p[i] = p[j] PROVE i = j
    <3>1. ~(i < j) /\ ~(j < i)
      BY <1>7, <2>1
    <3>2. QED
      BY <1>4, <3>1
  <2>2. IsInjective(p)
    BY <1>4, <2>1 DEF IsInjective
  <2>3. Range(p) \cap Listed = {}
    <3> SUFFICES ASSUME NEW id \in Range(p), id \in Listed PROVE FALSE
      OBVIOUS
    <3>1. CreatedAt(id) > CreatedAt(id) /\ CreatedAt(id) \in Nat
      BY <1>2, <1>5, <1>6
    <3>2. QED
      BY <3>1
  <2>4. QED
    BY <1>3, <2>2, <2>3 DEF NothingListedTwice
<1>9. NewestFirstOverall'
  <2>1. ASSUME NEW old \in Listed, NEW id \in Range(p) PROVE CreatedAt(old) >= CreatedAt(id)
    <3>1. CreatedAt(old) > CreatedAt(id) /\ CreatedAt(id) \in Nat /\ CreatedAt(old) \in Nat
      BY <1>1, <1>2, <1>5, <1>6 DEF WalkOK
    <3>2. QED
      BY <3>1
  <2>2. \A i, j \in DOMAIN p : i < j => CreatedAt(p[i]) >= CreatedAt(p[j])
    BY <1>4, <1>7
  <2>3. QED
    BY <1>3, <2>1, <2>2 DEF NewestFirstOverall, CreatedAt
<1>10. QED
  BY <1>5, <1>6, <1>8, <1>9

\* The next page continues the list, and what it leaves out of the rows that
\* matched all the time is older than the new cursor or as old as its last row.
LEMMA GetNotificationsIInv ==
    ASSUME IInv, GetNotifications
    PROVE  IInv'
<1>1. TypeOK /\ RowsOK /\ WalkOK /\ SteadyOK
  BY DEF IInv, PagesInOrder
<1>2. PICK q, after : q = query /\ after = cursor
  OBVIOUS
<1>3. PICK S : S = Candidates(q, after)
  OBVIOUS
<1>4. PICK p : p = Page(q, after)
  OBVIOUS
<1>5. PICK next : next = NextCursor(q, after)
  OBVIOUS
<1>6. q.limit \in Int
  BY <1>1, <1>2, InboxConstants DEF TypeOK, Queries
<1>7. /\ p \in Seq(S) /\ Len(p) <= MaxPageLimit
      /\ \A i, j \in 1..Len(p) : i < j => NewestFirst(p[i], p[j])
      /\ next = 0 => \A id \in S : \E i \in 1..Len(p) : p[i] = id
      /\ next # 0 => /\ p # <<>>
                     /\ next = CreatedAt(Last(p))
                     /\ \A i \in 1..Len(p) : CreatedAt(p[i]) >= next
                     /\ \A id \in S : (\E i \in 1..Len(p) : p[i] = id) \/ CreatedAt(id) <= next
  BY <1>1, <1>3, <1>4, <1>5, <1>6, PageIsPrefix
<1>8. /\ walk # "over" /\ page' = p /\ cursor' = next /\ seen' = Listed
      /\ edges' = IF p = <<>> THEN edges ELSE edges \cup {CreatedAt(Last(p))}
      /\ walk' = IF next = 0 THEN "over" ELSE "paging"
      /\ steady' = IF walk = "idle" THEN {id \in IDs : Matches(query, notifications[id])} ELSE steady
      /\ notifications' = notifications /\ notifByKey' = notifByKey
      /\ now' = now /\ built' = built /\ query' = query
  BY <1>2, <1>4, <1>5 DEF GetNotifications, Listed, storeVars, CreatedAt
<1>9. /\ S \subseteq IDs /\ \A id \in S : id \in Stored
      /\ \A id \in Stored : CreatedAt(id) \in Stamp /\ CreatedAt(id) \in Nat /\ CreatedAt(id) > 0
  BY <1>1, <1>3, CandidatesAreRows
<1>10. /\ Range(p) \subseteq S
       /\ \A old \in Listed, id \in S : CreatedAt(old) > CreatedAt(id)
       /\ NothingListedTwice' /\ NewestFirstOverall'
  BY <1>2, <1>3, <1>7, <1>8, PageContinuesList
<1>11. Listed' = Listed \cup Range(p) /\ Stored' = Stored
  BY <1>8 DEF Listed, Stored
<1>12. p # <<>> => Last(p) \in Range(p)
  <2>1. Len(p) \in Nat /\ DOMAIN p = 1..Len(p)
    BY <1>7
  <2>2. p # <<>> => Len(p) \in 1..Len(p)
    BY <1>7
  <2>3. QED
    BY <2>1, <2>2 DEF Range, Last
<1>13. p # <<>> => Last(p) \in S /\ CreatedAt(Last(p)) \in Stamp
  BY <1>9, <1>10, <1>12
<1>14. \A id : (\E i \in 1..Len(p) : p[i] = id) => id \in Range(p)
  BY <1>7 DEF Range
<1>15. next \in Stamp /\ next \in Nat
  <2>1. CASE next = 0
    BY <2>1, ModelConstants DEF Stamp
  <2>2. CASE next # 0
    BY <1>7, <1>9, <1>13, <2>2
  <2>3. QED
    BY <2>1, <2>2
<1>16. TypeOK'
  <2>1. page' \in Seq(IDs) /\ Len(page') <= MaxPageLimit
    BY <1>7, <1>8, <1>9
  <2>2. seen' \subseteq IDs
    BY <1>1, <1>8 DEF WalkOK, Stored
  <2>3. edges' \subseteq Stamp
    BY <1>1, <1>8, <1>13 DEF TypeOK
  <2>4. steady' \subseteq IDs
    BY <1>1, <1>8 DEF TypeOK
  <2>5. walk' \in {"idle", "paging", "over"}
    BY <1>8
  <2>6. cursor' \in Stamp
    BY <1>8, <1>15
  <2>7. StoreTypeOK' /\ now' \in 1..MaxTime /\ built' \subseteq Row /\ query' \in Queries
    BY <1>1, <1>8 DEF TypeOK, StoreTypeOK
  <2>8. QED
    BY <2>1, <2>2, <2>3, <2>4, <2>5, <2>6, <2>7 DEF TypeOK
<1>17. RowsOK'
  BY <1>1, <1>8, <1>11 DEF RowsOK, CreatedAt
<1>18. \A id : CreatedAt(id)' = CreatedAt(id)
  BY <1>8 DEF CreatedAt
<1>19. WalkOK'
  <2>1. Listed' \subseteq Stored'
    BY <1>1, <1>9, <1>10, <1>11 DEF WalkOK
  <2>2. ASSUME next # 0, NEW id \in Listed \cup Range(p) PROVE CreatedAt(id) >= next
    <3>1. CASE id \in Listed
      <4>1. CreatedAt(id) > CreatedAt(Last(p))
        BY <1>7, <1>10, <1>13, <2>2, <3>1
      <4>2. CreatedAt(id) \in Nat
        BY <1>1, <1>9, <3>1 DEF WalkOK
      <4>3. QED
        BY <1>7, <1>15, <2>2, <4>1, <4>2
    <3>2. CASE id \in Range(p)
      <4>1. PICK i \in 1..Len(p) : p[i] = id
        BY <1>7, <3>2 DEF Range
      <4>2. QED
        BY <1>7, <2>2, <4>1
    <3>3. QED
      BY <3>1, <3>2
  <2>3. walk' # "idle"
    BY <1>8
  <2>4. walk' = "paging" => cursor' > 0 /\ \A id \in Listed' : CreatedAt(id)' >= cursor'
    <3>1. walk' = "paging" => next # 0
      BY <1>8
    <3>2. next # 0 => next > 0
      BY <1>15
    <3>3. QED
      BY <1>8, <1>11, <1>18, <2>2, <3>1, <3>2
  <2>5. QED
    BY <2>1, <2>3, <2>4 DEF WalkOK
<1>20. ASSUME NEW id \in steady' PROVE Matches(query, notifications[id]) /\ id \in IDs
  BY <1>1, <1>8, <1>16, <1>20 DEF SteadyOK, TypeOK
<1>21. ASSUME NEW id \in steady' PROVE id \in Listed \/ CreatedAt(id) \in edges \/ id \in S
  <2>1. CASE walk = "idle"
    <3>1. Older(notifications[id], after)
      BY <1>1, <1>2, <2>1 DEF WalkOK, Older
    <3>2. QED
      BY <1>2, <1>3, <1>20, <3>1 DEF Candidates
  <2>2. CASE walk = "paging"
    <3>1. id \in steady
      BY <1>8, <2>2
    <3>2. id \in Listed \/ CreatedAt(id) \in edges \/ CreatedAt(id) < cursor
      BY <1>1, <2>2, <3>1 DEF SteadyOK
    <3>3. CreatedAt(id) < cursor => Older(notifications[id], after)
      BY <1>2 DEF Older, CreatedAt
    <3>4. QED
      BY <1>2, <1>3, <1>20, <3>2, <3>3 DEF Candidates
  <2>3. QED
    BY <1>1, <1>8, <2>1, <2>2 DEF TypeOK
<1>22. ASSUME NEW id \in S PROVE \/ id \in Range(p)
                                \/ (next # 0 /\ (CreatedAt(id) \in edges' \/ CreatedAt(id) < next))
  <2>1. CASE next = 0
    BY <1>7, <1>14, <2>1
  <2>2. CASE next # 0
    <3>1. id \in Range(p) \/ CreatedAt(id) <= next
      BY <1>7, <1>14, <2>2
    <3>2. CreatedAt(id) \in Nat
      BY <1>9
    <3>3. CreatedAt(id) <= next => CreatedAt(id) = next \/ CreatedAt(id) < next
      BY <1>15, <3>2
    <3>4. next \in edges'
      BY <1>7, <1>8, <2>2
    <3>5. QED
      BY <2>2, <3>1, <3>3, <3>4
  <2>3. QED
    BY <2>1, <2>2
<1>23. edges \subseteq edges'
  BY <1>8
<1>24. \A id \in steady' : \/ id \in Listed'
                           \/ CreatedAt(id)' \in edges'
                           \/ next # 0 /\ CreatedAt(id)' < next
  BY <1>11, <1>18, <1>21, <1>22, <1>23
<1>25. SteadyOK'
  <2>1. \A id \in steady' : Matches(query, notifications[id])'
    BY <1>8, <1>20
  <2>2. QED
    BY <1>8, <1>24, <2>1 DEF SteadyOK
<1>26. MissedOnlyAtTie'
  <2>1. walk' = "over" => next = 0
    BY <1>8
  <2>2. walk' = "over" => \A id \in steady' : id \in Listed' \/ CreatedAt(id)' \in edges'
    BY <1>24, <2>1
  <2>3. QED
    BY <2>2 DEF MissedOnlyAtTie, Listed
<1>27. QED
  BY <1>10, <1>16, <1>17, <1>19, <1>25, <1>26 DEF IInv, PagesInOrder

-----------------------------------------------------------------------------
(* The invariant and what follows from it.                                 *)

\* The store is empty and the client has asked for nothing.
LEMMA InitIInv == Init => IInv
<1> SUFFICES ASSUME Init PROVE IInv
  OBVIOUS
<1>1. /\ page = <<>> /\ seen = {} /\ edges = {} /\ steady = {} /\ built = {}
      /\ walk = "idle" /\ cursor = 0 /\ now = 1 /\ query \in Queries
      /\ notifications = [id \in IDs |-> NoRow] /\ notifByKey = [k \in Key |-> NoID]
  BY DEF Init, StoreInit
<1>2. DOMAIN page = {} /\ Len(page) = 0 /\ page \in Seq(IDs)
  BY <1>1
<1>3. Range(page) = {} /\ Listed = {} /\ IsInjective(page)
  BY <1>1, <1>2 DEF Range, Listed, IsInjective
<1>4. TypeOK
  <2>1. StoreTypeOK
    BY <1>1 DEF StoreTypeOK
  <2>2. now \in 1..MaxTime /\ cursor \in Stamp /\ Len(page) <= MaxPageLimit
    BY <1>1, <1>2, ModelConstants, InboxConstants DEF Stamp
  <2>3. QED
    BY <1>1, <1>2, <2>1, <2>2 DEF TypeOK
<1>5. PagesInOrder
  BY <1>1, <1>2, <1>3, <1>4 DEF PagesInOrder, NothingListedTwice, NewestFirstOverall
<1>6. Stored = {}
  BY <1>1 DEF Stored
<1>7. RowsOK
  BY <1>1, <1>6, FS_EmptySet DEF RowsOK
<1>8. WalkOK /\ SteadyOK /\ MissedOnlyAtTie
  BY <1>1, <1>3, <1>6 DEF WalkOK, SteadyOK, MissedOnlyAtTie
<1>9. QED
  BY <1>5, <1>7, <1>8 DEF IInv

\* Every step keeps the invariant.
LEMMA NextIInv == IInv /\ [Next]_vars => IInv'
<1> SUFFICES ASSUME IInv, [Next]_vars PROVE IInv'
  OBVIOUS
<1>1. CASE UNCHANGED vars
  <2>1. UNCHANGED <<storeVars, clientVars, steady>> /\ built' = built /\ now' = now
    BY <1>1 DEF vars
  <2>2. TypeOK'
    BY <2>1 DEF IInv, PagesInOrder, TypeOK, storeVars, StoreTypeOK, clientVars
  <2>3. QED
    BY <2>1, <2>2, StoreKept DEF IInv, RowsOK
<1>2. ASSUME NEW key \in Key, NEW kind \in Channels, Build(key, kind) PROVE IInv'
  BY <1>2, BuildIInv
<1>3. ASSUME NEW n \in built, Store(n) PROVE IInv'
  BY <1>3, StoreIInv
<1>4. ASSUME NEW id \in IDs, NEW status \in Changes, ChangeStatus(id, status) PROVE IInv'
  BY <1>4, ChangeStatusIInv
<1>5. CASE GetNotifications
  BY <1>5, GetNotificationsIInv
<1>6. CASE Tick
  BY <1>6, TickIInv
<1>7. QED
  BY <1>1, <1>2, <1>3, <1>4, <1>5, <1>6 DEF Next

\* The invariant holds always.
LEMMA Invariance == Spec => []IInv
<1>1. Init => IInv
  BY InitIInv
<1>2. IInv /\ [Next]_vars => IInv'
  BY NextIInv
<1>3. QED
  BY <1>1, <1>2, PTL DEF Spec

\* However many rows are added and change while a client pages with
\* GetNotifications, its pages are one list, newest first, in which no row
\* stands twice, and no page is longer than MaxPageLimit.
THEOREM PagesAreInOrder == Spec => []PagesInOrder
<1>1. IInv => PagesInOrder
  BY DEF IInv
<1>2. QED
  BY <1>1, Invariance, PTL

\* A complete walk lists every row that matched the query from the first
\* request to the last, except rows created at the very time of a page's last
\* row, which the strict cursor skips.
THEOREM MissesOnlyTies == Spec => []MissedOnlyAtTie
<1>1. IInv => MissedOnlyAtTie
  BY DEF IInv
<1>2. QED
  BY <1>1, Invariance, PTL
=============================================================================
