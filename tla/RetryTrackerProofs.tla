------------------------- MODULE RetryTrackerProofs -------------------------
(***************************************************************************)
(* Proofs about RetryTracker, for every set of keys, connections and       *)
(* parents, every attempt budget and every number of spawned goroutines.   *)
(***************************************************************************)
EXTENDS RetryTracker, TLAPS

\* Only the newest goroutine of a pair can be registered.
EntryIsNewest == \A q \in Pair : byKey[q] # 0 => byKey[q] = spawned[q]

\* The goroutines of a pair are numbered in the order Track starts them.
BornInOrder ==
    \A q \in Pair, n \in 1..MaxSpawns : pc[<<q, n>>] # "unborn" <=> n <= spawned[q]

\* Ack and CancelAll remove the entry whose CancelFunc they call.
EntryNotCancelled ==
    \A q \in Pair : byKey[q] # 0 => <<q, byKey[q]>> \notin cancelled

CancelledWasBorn == \A l \in cancelled : pc[l] # "unborn"

\* The clean-up at the end of loop() is reached with the budget spent.
CleanupIsExhausted == \A l \in Loop : pc[l] = "cleanup" => attempt[l] = Max

\* The inductive invariant: the two properties are not inductive without the
\* bookkeeping of which goroutine of a pair is the newest and which were
\* cancelled.
IInv ==
    /\ TypeOK
    /\ EntryIsNewest
    /\ BornInOrder
    /\ EntryNotCancelled
    /\ CancelledWasBorn
    /\ CleanupIsExhausted
    /\ OrphanHasCulprit
    /\ StaleOnlyAfterParentCancel

-----------------------------------------------------------------------------
\* A goroutine is a pair and a number.
LEMMA LoopParts ==
    ASSUME NEW l \in Loop
    PROVE  l[1] \in Pair /\ l[2] \in 1..MaxSpawns /\ l = <<l[1], l[2]>>
  BY DEF Loop

\* Every pair and number in range name a goroutine.
LEMMA LoopOf ==
    ASSUME NEW q \in Pair, NEW n \in 1..MaxSpawns
    PROVE  <<q, n>> \in Loop /\ <<q, n>>[1] = q /\ <<q, n>>[2] = n
  BY DEF Loop

\* Track only starts goroutines for pairs of the tracker.
LEMMA PairOf ==
    ASSUME NEW k \in Keys, NEW cs \in SUBSET Conns
    PROVE  NewPairs(k, cs) \subseteq Pair
  BY DEF NewPairs, Pair

\* Every variable keeps its type: no operation of the tracker leaves an entry
\* without a goroutine number, or an attempt count beyond the budget.
LEMMA TypeStep == TypeOK /\ [Next]_vars => TypeOK'
<1> SUFFICES ASSUME TypeOK, [Next]_vars PROVE TypeOK'
  OBVIOUS
<1> USE RetryConstants
<1>1. ASSUME NEW p \in Parents, NEW k \in Keys, NEW cs \in SUBSET Conns, Track(p, k, cs)
      PROVE  TypeOK'
  <2> DEFINE new == NewPairs(k, cs)
  <2>1. \A q \in Pair : q \in new => spawned[q] + 1 \in 0..MaxSpawns
    BY <1>1, PairOf DEF Track, TypeOK
  <2>2. byKey' \in [Pair -> 0..MaxSpawns] /\ spawned' \in [Pair -> 0..MaxSpawns]
    BY <1>1, <2>1 DEF Track, TypeOK
  <2>3. 1 \in 0..Max
    BY <1>1 DEF Track
  <2>4. attempt' \in [Loop -> 0..Max] /\ parent' \in [Loop -> SUBSET Parents]
    BY <1>1, <2>3 DEF Track, TypeOK
  <2>5. QED
    BY <1>1, <2>2, <2>4 DEF Track, TypeOK
<1>2. ASSUME NEW q \in Pair, Ack(q) PROVE TypeOK'
  <2>1. <<q, byKey[q]>> \in Loop
    BY <1>2, LoopOf DEF Ack, TypeOK
  <2>2. QED
    BY <1>2, <2>1 DEF Ack, TypeOK
<1>3. CASE CancelAll
  BY <1>3 DEF CancelAll, TypeOK
<1>4. ASSUME NEW p \in Parents, CancelParent(p) PROVE TypeOK'
  BY <1>4 DEF CancelParent, TypeOK
<1>5. ASSUME NEW l \in Loop, TimerFires(l) PROVE TypeOK'
  BY <1>5 DEF TimerFires, TypeOK
<1>6. ASSUME NEW l \in Loop, SelectDone(l) PROVE TypeOK'
  BY <1>6 DEF SelectDone, TypeOK
<1>7. ASSUME NEW l \in Loop, SelectTimer(l) PROVE TypeOK'
  BY <1>7 DEF SelectTimer, TypeOK
<1>8. ASSUME NEW l \in Loop, CallbackReturns(l) PROVE TypeOK'
  BY <1>8 DEF CallbackReturns, TypeOK
<1>9. ASSUME NEW l \in Loop, Cleanup(l) PROVE TypeOK'
  BY <1>9, LoopParts DEF Cleanup, TypeOK
<1>10. CASE UNCHANGED vars
  BY <1>10 DEF vars, TypeOK
<1>11. QED
  BY <1>1, <1>2, <1>3, <1>4, <1>5, <1>6, <1>7, <1>8, <1>9, <1>10 DEF Next

\* The tracker's state always has its type.
THEOREM TypeCorrect == Spec => []TypeOK
<1>1. Init => TypeOK
  BY RetryConstants DEF Init, TypeOK
<1>2. QED
  BY <1>1, TypeStep, PTL DEF Spec

-----------------------------------------------------------------------------
(* The inductive step, one lemma per operation.                            *)

\* The empty tracker satisfies the invariant.
LEMMA InitIInv == Init => IInv
  BY RetryConstants, LoopOf DEF Init, IInv, TypeOK, EntryIsNewest, BornInOrder,
     EntryNotCancelled, CancelledWasBorn, CleanupIsExhausted, OrphanHasCulprit,
     Orphan, Live, StaleOnlyAfterParentCancel

\* Track registers a goroutine that never ran, hence was never cancelled, and
\* leaves every older goroutine as it was.
LEMMA TrackIInv ==
    ASSUME IInv, TypeOK',
           NEW p \in Parents, NEW k \in Keys, NEW cs \in SUBSET Conns, Track(p, k, cs)
    PROVE  IInv'
<1> USE RetryConstants
<1> DEFINE new == NewPairs(k, cs)
           Started(l) == l[1] \in new /\ l[2] = spawned[l[1]] + 1
<1>1. new \subseteq Pair /\ \A q \in new : byKey[q] = 0 /\ spawned[q] < MaxSpawns
  BY PairOf DEF Track, NewPairs
<1>2. \A l \in Loop : Started(l) => pc[l] = "unborn" /\ l \notin cancelled
  <2> SUFFICES ASSUME NEW l \in Loop, Started(l) PROVE pc[l] = "unborn" /\ l \notin cancelled
    OBVIOUS
  <2>1. l[1] \in Pair /\ l[2] \in 1..MaxSpawns /\ l = <<l[1], l[2]>>
    BY LoopParts
  <2>2. ~(l[2] <= spawned[l[1]])
    BY <2>1 DEF IInv, TypeOK
  <2>3. pc[l] = "unborn"
    BY <2>1, <2>2 DEF IInv, BornInOrder
  <2>4. QED
    BY <2>3 DEF IInv, CancelledWasBorn
<1>3. \A l \in Loop : ~Started(l) => pc'[l] = pc[l] /\ attempt'[l] = attempt[l]
                                       /\ parent'[l] = parent[l]
  BY DEF Track, TypeOK
<1>4. \A l \in Loop : Started(l) => pc'[l] = "select"
  BY DEF Track, TypeOK
<1>5. \A q \in Pair : q \in new => /\ byKey'[q] = spawned[q] + 1
                                    /\ spawned'[q] = spawned[q] + 1
  BY DEF Track
<1>6. \A q \in Pair : q \notin new => /\ byKey'[q] = byKey[q]
                                       /\ spawned'[q] = spawned[q]
  BY DEF Track
<1>7. cancelled' = cancelled /\ parentDone' = parentDone
  BY DEF Track
<1> HIDE DEF new
<1>8. EntryIsNewest'
  BY <1>5, <1>6 DEF IInv, EntryIsNewest
<1>9. BornInOrder'
  <2> SUFFICES ASSUME NEW q \in Pair, NEW n \in 1..MaxSpawns
               PROVE  pc'[<<q, n>>] # "unborn" <=> n <= spawned'[q]
    BY DEF BornInOrder
  <2>1. <<q, n>> \in Loop /\ <<q, n>>[1] = q /\ <<q, n>>[2] = n
    BY LoopOf
  <2>2. pc[<<q, n>>] # "unborn" <=> n <= spawned[q]
    BY DEF IInv, BornInOrder
  <2>3. spawned[q] \in Nat
    BY DEF IInv, TypeOK
  <2>4. QED
    BY <2>1, <2>2, <2>3, <1>3, <1>4, <1>5, <1>6
<1>10. EntryNotCancelled'
  <2> SUFFICES ASSUME NEW q \in Pair, byKey'[q] # 0
               PROVE  <<q, byKey'[q]>> \notin cancelled
    BY <1>7 DEF EntryNotCancelled
  <2>1. CASE q \in new
    <3>1. spawned[q] + 1 \in 1..MaxSpawns
      BY <2>1, <1>1 DEF IInv, TypeOK
    <3>2. QED
      BY <2>1, <3>1, <1>2, <1>5, LoopOf
  <2>2. CASE q \notin new
    BY <2>2, <1>6 DEF IInv, EntryNotCancelled
  <2>3. QED
    BY <2>1, <2>2
<1>11. CancelledWasBorn'
  BY <1>2, <1>3, <1>7 DEF IInv, TypeOK, CancelledWasBorn
<1>12. CleanupIsExhausted'
  BY <1>3, <1>4 DEF IInv, CleanupIsExhausted
<1>13. OrphanHasCulprit'
  <2> SUFFICES ASSUME NEW l \in Loop, Orphan(l)'
               PROVE  \E n \in 1..MaxSpawns :
                         /\ n < l[2]
                         /\ pc'[<<l[1], n>>] = "done"
                         /\ <<l[1], n>> \in cancelled'
                         /\ attempt'[<<l[1], n>>] = Max
    BY DEF OrphanHasCulprit
  <2>1. l[1] \in Pair /\ l[2] \in 1..MaxSpawns /\ l = <<l[1], l[2]>>
    BY LoopParts
  <2>2. ~Started(l)
    BY <2>1, <1>5 DEF Orphan
  <2>3. Orphan(l)
    BY <2>1, <2>2, <1>1, <1>3, <1>6, <1>7 DEF Orphan, Live, IInv, TypeOK
  <2>4. PICK n \in 1..MaxSpawns : /\ n < l[2]
                                   /\ pc[<<l[1], n>>] = "done"
                                   /\ <<l[1], n>> \in cancelled
                                   /\ attempt[<<l[1], n>>] = Max
    BY <2>3 DEF IInv, OrphanHasCulprit
  <2>5. <<l[1], n>> \in Loop /\ ~Started(<<l[1], n>>)
    BY <2>1, <2>4, <1>2, LoopOf
  <2>6. QED
    BY <2>4, <2>5, <1>3, <1>7
<1>14. StaleOnlyAfterParentCancel'
  <2> SUFFICES ASSUME NEW q \in Pair, byKey'[q] # 0
               PROVE  \/ pc'[<<q, byKey'[q]>>] \in {"select", "callback", "cleanup"}
                      \/ /\ pc'[<<q, byKey'[q]>>] = "done"
                         /\ parent'[<<q, byKey'[q]>>] \cap parentDone' # {}
    BY DEF StaleOnlyAfterParentCancel, Live
  <2>0. byKey'[q] \in 1..MaxSpawns
    BY DEF TypeOK
  <2>1. <<q, byKey'[q]>> \in Loop /\ <<q, byKey'[q]>>[1] = q /\ <<q, byKey'[q]>>[2] = byKey'[q]
    BY <2>0, LoopOf
  <2>2. CASE q \in new
    BY <2>1, <2>2, <1>4, <1>5 DEF Live
  <2>3. CASE q \notin new
    BY <2>1, <2>3, <1>3, <1>6, <1>7 DEF Live, IInv, StaleOnlyAfterParentCancel
  <2>4. QED
    BY <2>2, <2>3
<1>15. QED
  BY <1>8, <1>9, <1>10, <1>11, <1>12, <1>13, <1>14 DEF IInv

\* Ack and CancelAll cancel exactly the goroutines they unregister, so neither
\* makes an orphan and neither leaves an entry of a cancelled goroutine.
LEMMA AckIInv ==
    ASSUME IInv, TypeOK', NEW q \in Pair, Ack(q)
    PROVE  IInv'
<1> USE RetryConstants
<1>1. byKey[q] \in 1..MaxSpawns /\ <<q, byKey[q]>> \in Loop
  BY LoopOf DEF IInv, TypeOK, Ack
<1>2. byKey'[q] = 0 /\ \A r \in Pair : r # q => byKey'[r] = byKey[r]
  BY DEF Ack, IInv, TypeOK
<1>3. cancelled' = cancelled \cup {<<q, byKey[q]>>}
  BY DEF Ack
<1>4. UNCHANGED <<spawned, pc, attempt, parent, parentDone>>
  BY DEF Ack
<1>5. EntryIsNewest' /\ BornInOrder' /\ CleanupIsExhausted'
  BY <1>2, <1>4 DEF IInv, EntryIsNewest, BornInOrder, CleanupIsExhausted
<1>6. EntryNotCancelled'
  BY <1>1, <1>2, <1>3 DEF IInv, EntryNotCancelled
<1>7. CancelledWasBorn'
  <2>1. pc[<<q, byKey[q]>>] # "unborn"
    BY <1>1 DEF IInv, StaleOnlyAfterParentCancel, Live
  <2>2. QED
    BY <2>1, <1>3, <1>4 DEF IInv, CancelledWasBorn
<1>8. OrphanHasCulprit'
  <2> SUFFICES ASSUME NEW l \in Loop, Orphan(l)'
               PROVE  Orphan(l)
    BY <1>3, <1>4 DEF IInv, OrphanHasCulprit
  <2>1. l[1] \in Pair /\ l = <<l[1], l[2]>>
    BY LoopParts
  <2>2. QED
    BY <2>1, <1>2, <1>3, <1>4 DEF Orphan, Live
<1>9. StaleOnlyAfterParentCancel'
  BY <1>2, <1>4 DEF IInv, StaleOnlyAfterParentCancel, Live
<1>10. QED
  BY <1>5, <1>6, <1>7, <1>8, <1>9 DEF IInv

\* CancelAll empties the map and cancels exactly what it held.
LEMMA CancelAllIInv ==
    ASSUME IInv, TypeOK', CancelAll
    PROVE  IInv'
<1> USE RetryConstants
<1>1. \A r \in Pair : byKey'[r] = 0
  BY DEF CancelAll
<1>2. cancelled' = cancelled \cup {l \in Loop : byKey[l[1]] = l[2]}
  BY DEF CancelAll
<1>3. UNCHANGED <<spawned, pc, attempt, parent, parentDone>>
  BY DEF CancelAll
<1>4. /\ EntryIsNewest' /\ BornInOrder' /\ CleanupIsExhausted'
      /\ EntryNotCancelled' /\ StaleOnlyAfterParentCancel'
  BY <1>1, <1>3 DEF IInv, EntryIsNewest, BornInOrder, CleanupIsExhausted,
     EntryNotCancelled, StaleOnlyAfterParentCancel
<1>5. CancelledWasBorn'
  <2> SUFFICES ASSUME NEW l \in Loop, byKey[l[1]] = l[2] PROVE pc[l] # "unborn"
    BY <1>2, <1>3 DEF IInv, CancelledWasBorn
  <2>1. l[1] \in Pair /\ l[2] \in 1..MaxSpawns /\ l = <<l[1], l[2]>>
    BY LoopParts
  <2>2. QED
    BY <2>1 DEF IInv, StaleOnlyAfterParentCancel, Live
<1>6. OrphanHasCulprit'
  <2> SUFFICES ASSUME NEW l \in Loop, Orphan(l)'
               PROVE  Orphan(l)
    BY <1>2, <1>3 DEF IInv, OrphanHasCulprit
  <2>1. QED
    BY <1>2, <1>3 DEF Orphan, Live
<1>7. QED
  BY <1>4, <1>5, <1>6 DEF IInv

\* A cancelled parent only makes more goroutines done.
LEMMA CancelParentIInv ==
    ASSUME IInv, TypeOK', NEW p \in Parents, CancelParent(p)
    PROVE  IInv'
<1>1. /\ UNCHANGED <<byKey, spawned, pc, attempt, parent, cancelled>>
      /\ parentDone' = parentDone \cup {p}
  BY DEF CancelParent
<1>2. EntryIsNewest' /\ BornInOrder' /\ EntryNotCancelled' /\ CancelledWasBorn' /\ CleanupIsExhausted'
  BY <1>1 DEF IInv, EntryIsNewest, BornInOrder, EntryNotCancelled, CancelledWasBorn, CleanupIsExhausted
<1>3. OrphanHasCulprit'
  BY <1>1 DEF IInv, OrphanHasCulprit, Orphan, Live
<1>4. StaleOnlyAfterParentCancel'
  <2>1. \A l : parent[l] \cap parentDone # {} => parent'[l] \cap parentDone' # {}
    BY <1>1
  <2>2. QED
    BY <1>1, <2>1 DEF IInv, StaleOnlyAfterParentCancel, Live
<1>5. QED
  BY <1>2, <1>3, <1>4 DEF IInv

\* The steps of a goroutine that leave the map and the contexts alone.
LEMMA RunIInv ==
    ASSUME IInv, TypeOK', NEW l \in Loop, SelectTimer(l) \/ CallbackReturns(l) \/ TimerFires(l)
    PROVE  IInv'
<1> USE RetryConstants
<1>1. UNCHANGED <<byKey, spawned, parent, cancelled, parentDone>>
  BY DEF SelectTimer, CallbackReturns, TimerFires
<1>2. \A m \in Loop : m # l => pc'[m] = pc[m] /\ attempt'[m] = attempt[m]
  BY DEF SelectTimer, CallbackReturns, TimerFires, IInv, TypeOK
<1>3. Live(l)' <=> Live(l)
  BY DEF SelectTimer, CallbackReturns, TimerFires, IInv, TypeOK, Live
<1>4. pc[l] \in {"unborn", "done"} => pc'[l] = pc[l] /\ attempt'[l] = attempt[l]
  BY DEF SelectTimer, CallbackReturns, TimerFires, IInv, TypeOK
<1>5. pc'[l] = "cleanup" => attempt'[l] = Max
  BY DEF SelectTimer, CallbackReturns, TimerFires, IInv, TypeOK, CleanupIsExhausted
<1>6. pc'[l] = "unborn" <=> pc[l] = "unborn"
  BY <1>3, <1>4 DEF IInv, TypeOK, Live
<1>7. \A m \in Loop : /\ Live(m)' <=> Live(m)
                      /\ pc'[m] = "unborn" <=> pc[m] = "unborn"
                      /\ pc[m] = "done" => pc'[m] = "done" /\ attempt'[m] = attempt[m]
  BY <1>2, <1>3, <1>4, <1>6 DEF Live
<1>8. EntryIsNewest' /\ EntryNotCancelled'
  BY <1>1 DEF IInv, EntryIsNewest, EntryNotCancelled
<1>9. BornInOrder'
  <2>1. \A q \in Pair, n \in 1..MaxSpawns : pc'[<<q, n>>] = "unborn" <=> pc[<<q, n>>] = "unborn"
    BY <1>7, LoopOf
  <2>2. QED
    BY <2>1, <1>1 DEF IInv, BornInOrder
<1>10. CancelledWasBorn'
  BY <1>1, <1>7 DEF IInv, TypeOK, CancelledWasBorn
<1>11. CleanupIsExhausted'
  BY <1>2, <1>5 DEF IInv, CleanupIsExhausted
<1>12. OrphanHasCulprit'
  <2> SUFFICES ASSUME NEW m \in Loop, Orphan(m)'
               PROVE  \E n \in 1..MaxSpawns :
                         /\ n < m[2]
                         /\ pc'[<<m[1], n>>] = "done"
                         /\ <<m[1], n>> \in cancelled
                         /\ attempt'[<<m[1], n>>] = Max
    BY <1>1 DEF OrphanHasCulprit
  <2>1. Orphan(m)
    BY <1>1, <1>7 DEF Orphan
  <2>2. PICK n \in 1..MaxSpawns : /\ n < m[2]
                                   /\ pc[<<m[1], n>>] = "done"
                                   /\ <<m[1], n>> \in cancelled
                                   /\ attempt[<<m[1], n>>] = Max
    BY <2>1 DEF IInv, OrphanHasCulprit
  <2>3. <<m[1], n>> \in Loop
    BY LoopParts, LoopOf
  <2>4. QED
    BY <2>2, <2>3, <1>7
<1>13. StaleOnlyAfterParentCancel'
  <2> SUFFICES ASSUME NEW q \in Pair, byKey[q] # 0
               PROVE  \/ pc'[<<q, byKey[q]>>] \in {"select", "callback", "cleanup"}
                      \/ pc'[<<q, byKey[q]>>] = "done" /\ parent[<<q, byKey[q]>>] \cap parentDone # {}
    BY <1>1 DEF StaleOnlyAfterParentCancel, Live
  <2>1. <<q, byKey[q]>> \in Loop
    BY LoopOf DEF IInv, TypeOK
  <2>2. pc'[<<q, byKey[q]>>] \in {"select", "callback", "cleanup"} <=> Live(<<q, byKey[q]>>)
    BY <2>1, <1>1, <1>7 DEF Live
  <2>3. QED
    BY <2>1, <2>2, <1>7 DEF IInv, StaleOnlyAfterParentCancel
<1>14. QED
  BY <1>8, <1>9, <1>10, <1>11, <1>12, <1>13 DEF IInv

\* A goroutine that returns from its select with its entry still in the map has
\* a cancelled parent: its own CancelFunc is only called as the entry goes.
LEMMA SelectDoneIInv ==
    ASSUME IInv, TypeOK', NEW l \in Loop, SelectDone(l)
    PROVE  IInv'
<1> USE RetryConstants
<1>1. UNCHANGED <<byKey, spawned, parent, cancelled, parentDone, attempt>>
  BY DEF SelectDone
<1>2. /\ pc[l] = "select" /\ pc'[l] = "done"
      /\ \A m \in Loop : m # l => pc'[m] = pc[m]
  BY DEF SelectDone, IInv, TypeOK
<1>3. \A m \in Loop : /\ Live(m)' => Live(m)
                      /\ pc'[m] = "unborn" <=> pc[m] = "unborn"
                      /\ pc[m] = "done" => pc'[m] = "done"
                      /\ pc'[m] = "cleanup" => pc[m] = "cleanup"
  BY <1>2 DEF Live
<1>4. EntryIsNewest' /\ EntryNotCancelled'
  BY <1>1 DEF IInv, EntryIsNewest, EntryNotCancelled
<1>5. BornInOrder'
  <2>1. \A q \in Pair, n \in 1..MaxSpawns : pc'[<<q, n>>] = "unborn" <=> pc[<<q, n>>] = "unborn"
    BY <1>3, LoopOf
  <2>2. QED
    BY <2>1, <1>1 DEF IInv, BornInOrder
<1>6. CancelledWasBorn' /\ CleanupIsExhausted'
  BY <1>1, <1>3 DEF IInv, TypeOK, CancelledWasBorn, CleanupIsExhausted
<1>7. OrphanHasCulprit'
  <2> SUFFICES ASSUME NEW m \in Loop, Orphan(m)'
               PROVE  \E n \in 1..MaxSpawns :
                         /\ n < m[2]
                         /\ pc'[<<m[1], n>>] = "done"
                         /\ <<m[1], n>> \in cancelled
                         /\ attempt[<<m[1], n>>] = Max
    BY <1>1 DEF OrphanHasCulprit
  <2>1. Orphan(m)
    BY <1>1, <1>3 DEF Orphan
  <2>2. PICK n \in 1..MaxSpawns : /\ n < m[2]
                                   /\ pc[<<m[1], n>>] = "done"
                                   /\ <<m[1], n>> \in cancelled
                                   /\ attempt[<<m[1], n>>] = Max
    BY <2>1 DEF IInv, OrphanHasCulprit
  <2>3. <<m[1], n>> \in Loop
    BY LoopParts, LoopOf
  <2>4. QED
    BY <2>2, <2>3, <1>3
<1>8. StaleOnlyAfterParentCancel'
  <2> SUFFICES ASSUME NEW q \in Pair, byKey[q] # 0
               PROVE  \/ pc'[<<q, byKey[q]>>] \in {"select", "callback", "cleanup"}
                      \/ pc'[<<q, byKey[q]>>] = "done" /\ parent[<<q, byKey[q]>>] \cap parentDone # {}
    BY <1>1 DEF StaleOnlyAfterParentCancel, Live
  <2>1. <<q, byKey[q]>> \in Loop
    BY LoopOf DEF IInv, TypeOK
  <2>2. CASE <<q, byKey[q]>> = l
    <3>1. l \notin cancelled
      BY <2>2 DEF IInv, EntryNotCancelled
    <3>2. QED
      BY <2>2, <3>1, <1>2 DEF SelectDone, Done
  <2>3. CASE <<q, byKey[q]>> # l
    BY <2>1, <2>3, <1>2 DEF IInv, StaleOnlyAfterParentCancel, Live
  <2>4. QED
    BY <2>2, <2>3
<1>9. QED
  BY <1>4, <1>5, <1>6, <1>7, <1>8 DEF IInv

\* The crux.  Cleanup(l) deletes its pair's entry, whose goroutine m may be a
\* newer one.  If l was cancelled it is m's culprit.  If not, l was itself an
\* orphan and hands its own culprit, older than both, on to m.
LEMMA CleanupIInv ==
    ASSUME IInv, TypeOK', NEW l \in Loop, Cleanup(l)
    PROVE  IInv'
<1> USE RetryConstants
<1>1. UNCHANGED <<spawned, parent, cancelled, parentDone, attempt>>
  BY DEF Cleanup
<1>2. l[1] \in Pair /\ l[2] \in 1..MaxSpawns /\ l = <<l[1], l[2]>>
  BY LoopParts
<1>3. /\ pc[l] = "cleanup" /\ pc'[l] = "done"
      /\ \A m \in Loop : m # l => pc'[m] = pc[m]
  BY DEF Cleanup, IInv, TypeOK
<1>4. byKey'[l[1]] = 0 /\ \A q \in Pair : q # l[1] => byKey'[q] = byKey[q]
  BY <1>2 DEF Cleanup, IInv, TypeOK
<1>5. \A m \in Loop : /\ Live(m)' => Live(m) /\ m # l
                      /\ pc'[m] = "unborn" <=> pc[m] = "unborn"
                      /\ pc[m] = "done" => pc'[m] = "done"
                      /\ pc'[m] = "cleanup" => pc[m] = "cleanup"
  BY <1>3 DEF Live
<1>6. EntryIsNewest' /\ EntryNotCancelled'
  BY <1>1, <1>4 DEF IInv, EntryIsNewest, EntryNotCancelled
<1>7. BornInOrder'
  <2>1. \A q \in Pair, n \in 1..MaxSpawns : pc'[<<q, n>>] = "unborn" <=> pc[<<q, n>>] = "unborn"
    BY <1>5, LoopOf
  <2>2. QED
    BY <2>1, <1>1 DEF IInv, BornInOrder
<1>8. CancelledWasBorn' /\ CleanupIsExhausted'
  BY <1>1, <1>5 DEF IInv, TypeOK, CancelledWasBorn, CleanupIsExhausted
<1>9. OrphanHasCulprit'
  <2> DEFINE Culprit(m, n) == /\ n < m[2]
                              /\ pc[<<m[1], n>>] = "done"
                              /\ <<m[1], n>> \in cancelled
                              /\ attempt[<<m[1], n>>] = Max
  <2> SUFFICES ASSUME NEW m \in Loop, Orphan(m)'
               PROVE  \E n \in 1..MaxSpawns :
                         /\ n < m[2]
                         /\ pc'[<<m[1], n>>] = "done"
                         /\ <<m[1], n>> \in cancelled
                         /\ attempt[<<m[1], n>>] = Max
    BY <1>1 DEF OrphanHasCulprit
  <2>1. m[1] \in Pair /\ m[2] \in 1..MaxSpawns /\ m = <<m[1], m[2]>>
    BY LoopParts
  <2>2. Live(m) /\ m # l /\ m \notin cancelled
    BY <1>1, <1>5 DEF Orphan
  <2>3. \A n \in 1..MaxSpawns : pc[<<m[1], n>>] = "done" => pc'[<<m[1], n>>] = "done"
    BY <2>1, <1>5, LoopOf
  <2>4. CASE Orphan(m)
    <3>1. PICK n \in 1..MaxSpawns : Culprit(m, n)
      BY <2>4 DEF IInv, OrphanHasCulprit
    <3>2. QED
      BY <3>1, <2>3
  <2>5. CASE ~Orphan(m)
    <3>1. byKey[m[1]] = m[2]
      BY <2>2, <2>5 DEF Orphan
    <3>2. m[1] = l[1]
      BY <2>1, <3>1, <1>4 DEF Orphan
    <3>3. l[2] # m[2] /\ m[2] = spawned[m[1]]
      BY <1>2, <2>1, <2>2, <3>1, <3>2 DEF IInv, EntryIsNewest
    <3>4. l[2] <= spawned[l[1]]
      BY <1>2, <1>3 DEF IInv, BornInOrder
    <3>5. l[2] < m[2]
      BY <3>2, <3>3, <3>4, <1>2, <2>1
    <3>6. CASE l \in cancelled
      <4>1. attempt[l] = Max
        BY <1>3 DEF IInv, CleanupIsExhausted
      <4>2. QED
        BY <3>2, <3>5, <3>6, <4>1, <1>2, <1>3
    <3>7. CASE l \notin cancelled
      <4>1. Orphan(l)
        BY <3>1, <3>2, <3>3, <3>7, <1>3 DEF Orphan, Live
      <4>2. PICK n \in 1..MaxSpawns : Culprit(l, n)
        BY <4>1 DEF IInv, OrphanHasCulprit
      <4>3. n < m[2]
        BY <4>2, <3>5, <1>2, <2>1
      <4>4. QED
        BY <4>2, <4>3, <3>2, <2>3
    <3>8. QED
      BY <3>6, <3>7
  <2>6. QED
    BY <2>4, <2>5
<1>10. StaleOnlyAfterParentCancel'
  <2> SUFFICES ASSUME NEW q \in Pair, byKey'[q] # 0
               PROVE  \/ pc'[<<q, byKey[q]>>] \in {"select", "callback", "cleanup"}
                      \/ pc'[<<q, byKey[q]>>] = "done" /\ parent[<<q, byKey[q]>>] \cap parentDone # {}
    BY <1>1, <1>4 DEF StaleOnlyAfterParentCancel, Live
  <2>1. q # l[1] /\ byKey[q] # 0
    BY <1>4
  <2>2. <<q, byKey[q]>> \in Loop /\ <<q, byKey[q]>> # l
    BY <2>1, <1>2, LoopOf DEF IInv, TypeOK
  <2>3. QED
    BY <2>1, <2>2, <1>3 DEF IInv, StaleOnlyAfterParentCancel, Live
<1>11. QED
  BY <1>6, <1>7, <1>8, <1>9, <1>10 DEF IInv

\* One step per operation of the tracker and of its goroutines.
LEMMA NextIInv == IInv /\ [Next]_vars => IInv'
<1> SUFFICES ASSUME IInv, [Next]_vars PROVE IInv'
  OBVIOUS
<1>1. TypeOK'
  BY TypeStep DEF IInv
<1>2. CASE UNCHANGED vars
  BY <1>2 DEF vars, IInv, TypeOK, EntryIsNewest, BornInOrder, EntryNotCancelled,
     CancelledWasBorn, CleanupIsExhausted, OrphanHasCulprit, Orphan, Live,
     StaleOnlyAfterParentCancel
<1>3. QED
  BY <1>1, <1>2, TrackIInv, AckIInv, CancelAllIInv, CancelParentIInv, RunIInv,
     SelectDoneIInv, CleanupIInv DEF Next

\* Whatever the interleaving of Track, Ack, CancelAll, cancelled parents and
\* running goroutines, a goroutine the tracker has lost was lost to an older
\* one of its pair that was cancelled and nevertheless spent its budget.
THEOREM OrphansExplained == Spec => []OrphanHasCulprit
<1>1. IInv => OrphanHasCulprit
  BY DEF IInv
<1>2. QED
  BY <1>1, InitIInv, NextIInv, PTL DEF Spec

\* An entry without a running goroutine is always due to a cancelled parent.
THEOREM StaleEntriesExplained == Spec => []StaleOnlyAfterParentCancel
<1>1. IInv => StaleOnlyAfterParentCancel
  BY DEF IInv
<1>2. QED
  BY <1>1, InitIInv, NextIInv, PTL DEF Spec
=============================================================================
