---------------------------- MODULE RetryTracker ----------------------------
(***************************************************************************)
(* The at-least-once retry tracker of realtime/retry.go.                   *)
(*                                                                         *)
(* byKey is the tracker's map of in-flight retries.  The source nests two  *)
(* maps (key, then connection id) and never keeps an empty inner map, so   *)
(* one function over (key, connection) pairs is the same map.  The value   *)
(* of an entry, a *retryState, is the identity of the goroutine that was   *)
(* spawned with it: goroutine n of a pair is the n-th one Track started    *)
(* for that pair.                                                          *)
(*                                                                         *)
(* Track, Ack and CancelAll run wholly under t.mu and are atomic.  A       *)
(* goroutine's select, its callback and its final clean-up are separate    *)
(* steps: the tracker's lock is only held in the last one.                 *)
(***************************************************************************)
EXTENDS Naturals

CONSTANTS Keys,       \* event keys
          Conns,      \* connection ids
          Parents,    \* the contexts callers pass to Track
          Max,        \* t.max, the attempt budget; 0 disables retries
          MaxSpawns   \* bound: goroutines started per pair

ASSUME RetryConstants ==
    /\ Max \in Nat
    /\ MaxSpawns \in Nat

Pair == Keys \X Conns
Loop == Pair \X (1..MaxSpawns)      \* <<pair, n>>: the n-th goroutine of pair

VARIABLES
    byKey,       \* pair -> number of its registered goroutine, 0 for no entry
    spawned,     \* pair -> how many goroutines were started for it
    pc,          \* goroutine -> where it is in loop()
    attempt,     \* goroutine -> the loop variable of loop()
    timer,       \* goroutine -> its time.Timer
    parent,      \* goroutine -> the set holding the parent of its context
    cancelled,   \* goroutines whose own CancelFunc was called
    parentDone   \* parents that were cancelled

vars == <<byKey, spawned, pc, attempt, timer, parent, cancelled, parentDone>>

\* ctx.Done() is closed: by the goroutine's own cancel or through its parent.
Done(l) == l \in cancelled \/ parent[l] \cap parentDone # {}

Live(l) == pc[l] \in {"select", "callback", "cleanup"}

TypeOK ==
    /\ byKey \in [Pair -> 0..MaxSpawns]
    /\ spawned \in [Pair -> 0..MaxSpawns]
    /\ pc \in [Loop -> {"unborn", "select", "callback", "cleanup", "done"}]
    /\ attempt \in [Loop -> 0..Max]
    /\ timer \in [Loop -> {"off", "armed", "fired"}]
    /\ parent \in [Loop -> SUBSET Parents]
    /\ cancelled \subseteq Loop
    /\ parentDone \subseteq Parents

\* NewRetryTracker: an empty map.
Init ==
    /\ byKey = [q \in Pair |-> 0]
    /\ spawned = [q \in Pair |-> 0]
    /\ pc = [l \in Loop |-> "unborn"]
    /\ attempt = [l \in Loop |-> 0]
    /\ timer = [l \in Loop |-> "off"]
    /\ parent = [l \in Loop |-> {}]
    /\ cancelled = {}
    /\ parentDone = {}

-----------------------------------------------------------------------------
\* The pairs of key k a Track call starts a goroutine for: the others are dups.
NewPairs(k, cs) == {q \in {k} \X cs : byKey[q] = 0}

Track(p, k, cs) ==
    LET new == NewPairs(k, cs)
        Started(l) == l[1] \in new /\ l[2] = spawned[l[1]] + 1
    IN  /\ Max > 0
        /\ cs # {}
        /\ \A q \in new : spawned[q] < MaxSpawns
        /\ byKey' = [q \in Pair |-> IF q \in new THEN spawned[q] + 1 ELSE byKey[q]]
        /\ spawned' = [q \in Pair |-> IF q \in new THEN spawned[q] + 1 ELSE spawned[q]]
        /\ pc' = [l \in Loop |-> IF Started(l) THEN "select" ELSE pc[l]]
        /\ attempt' = [l \in Loop |-> IF Started(l) THEN 1 ELSE attempt[l]]
        /\ timer' = [l \in Loop |-> IF Started(l) THEN "armed" ELSE timer[l]]
        /\ parent' = [l \in Loop |-> IF Started(l) THEN {p} ELSE parent[l]]
        /\ UNCHANGED <<cancelled, parentDone>>

\* Mutant: the entry is removed but its goroutine is not cancelled.
AckNoCancel(q) ==
    /\ byKey[q] # 0
    /\ byKey' = [byKey EXCEPT ![q] = 0]
    /\ UNCHANGED <<spawned, pc, attempt, timer, parent, cancelled, parentDone>>

\* An unknown pair is ignored.
Ack(q) ==
    /\ byKey[q] # 0
    /\ cancelled' = cancelled \cup {<<q, byKey[q]>>}
    /\ byKey' = [byKey EXCEPT ![q] = 0]
    /\ UNCHANGED <<spawned, pc, attempt, timer, parent, parentDone>>

CancelAll ==
    /\ cancelled' = cancelled \cup {l \in Loop : byKey[l[1]] = l[2]}
    /\ byKey' = [q \in Pair |-> 0]
    /\ UNCHANGED <<spawned, pc, attempt, timer, parent, parentDone>>

\* The caller cancels a context it passed to Track.
CancelParent(p) ==
    /\ parentDone' = parentDone \cup {p}
    /\ UNCHANGED <<byKey, spawned, pc, attempt, timer, parent, cancelled>>

-----------------------------------------------------------------------------
(* The goroutine loop(ctx, key, connID, cb).                               *)

\* The runtime's timer fires; its channel holds the tick until it is received.
TimerFires(l) ==
    /\ timer[l] = "armed"
    /\ timer' = [timer EXCEPT ![l] = "fired"]
    /\ UNCHANGED <<byKey, spawned, pc, attempt, parent, cancelled, parentDone>>

\* Mutant: the goroutine watches its own CancelFunc only.
SelectDoneOwnOnly(l) ==
    /\ pc[l] = "select"
    /\ l \in cancelled
    /\ pc' = [pc EXCEPT ![l] = "done"]
    /\ timer' = [timer EXCEPT ![l] = "off"]
    /\ UNCHANGED <<byKey, spawned, attempt, parent, cancelled, parentDone>>

\* case <-ctx.Done(): return.  The entry, if there is one, stays in the map.
SelectDone(l) ==
    /\ pc[l] = "select"
    /\ Done(l)
    /\ pc' = [pc EXCEPT ![l] = "done"]
    /\ timer' = [timer EXCEPT ![l] = "off"]
    /\ UNCHANGED <<byKey, spawned, attempt, parent, cancelled, parentDone>>

\* case <-timer.C: a select with both cases ready may take either one.
SelectTimer(l) ==
    /\ pc[l] = "select"
    /\ timer[l] = "fired"
    /\ timer' = [timer EXCEPT ![l] = "off"]
    /\ pc' = [pc EXCEPT ![l] = "callback"]
    /\ UNCHANGED <<byKey, spawned, attempt, parent, cancelled, parentDone>>

\* Mutant: an off-by-one runs one attempt too many.
CallbackReturnsOnceMore(l) ==
    /\ pc[l] = "callback"
    /\ IF attempt[l] <= Max
         THEN /\ timer' = [timer EXCEPT ![l] = "armed"]
              /\ attempt' = [attempt EXCEPT ![l] = @ + 1]
              /\ pc' = [pc EXCEPT ![l] = "select"]
         ELSE /\ pc' = [pc EXCEPT ![l] = "cleanup"]
              /\ UNCHANGED <<timer, attempt>>
    /\ UNCHANGED <<byKey, spawned, parent, cancelled, parentDone>>

\* cb returns (its error is only logged): the next round, or out of the loop.
CallbackReturns(l) ==
    /\ pc[l] = "callback"
    /\ IF attempt[l] < Max
         THEN /\ timer' = [timer EXCEPT ![l] = "armed"]
              /\ attempt' = [attempt EXCEPT ![l] = @ + 1]
              /\ pc' = [pc EXCEPT ![l] = "select"]
         ELSE /\ pc' = [pc EXCEPT ![l] = "cleanup"]
              /\ UNCHANGED <<timer, attempt>>
    /\ UNCHANGED <<byKey, spawned, parent, cancelled, parentDone>>

\* Mutant: the exhausted goroutine returns without evicting its entry.
CleanupSkipped(l) ==
    /\ pc[l] = "cleanup"
    /\ pc' = [pc EXCEPT ![l] = "done"]
    /\ UNCHANGED <<byKey, spawned, attempt, timer, parent, cancelled, parentDone>>

\* Budget exhausted: whatever entry the pair has now is deleted.
Cleanup(l) ==
    /\ pc[l] = "cleanup"
    /\ byKey' = [byKey EXCEPT ![l[1]] = 0]
    /\ pc' = [pc EXCEPT ![l] = "done"]
    /\ UNCHANGED <<spawned, attempt, timer, parent, cancelled, parentDone>>

LoopStep(l) == SelectDone(l) \/ SelectTimer(l) \/ CallbackReturns(l) \/ Cleanup(l)

Next ==
    \/ \E p \in Parents, k \in Keys, cs \in SUBSET Conns : Track(p, k, cs)
    \/ \E q \in Pair : Ack(q)
    \/ CancelAll
    \/ \E p \in Parents : CancelParent(p)
    \/ \E l \in Loop : TimerFires(l)
    \/ \E l \in Loop : SelectDone(l)
    \/ \E l \in Loop : SelectTimer(l)
    \/ \E l \in Loop : CallbackReturns(l)
    \/ \E l \in Loop : Cleanup(l)

Spec == Init /\ [][Next]_vars

\* The Go scheduler runs every runnable goroutine, and callbacks return.
SchedulerFairness == \A l \in Loop : WF_vars(LoopStep(l))

\* Runtime timers fire.
TimerFairness == \A l \in Loop : WF_vars(TimerFires(l))

FairSpec == Spec /\ SchedulerFairness

-----------------------------------------------------------------------------
(* Properties.                                                             *)

\* A goroutine that runs on, was not cancelled and is not in the map any more:
\* neither Ack nor CancelAll can reach it.
Orphan(l) == Live(l) /\ l \notin cancelled /\ byKey[l[1]] # l[2]

\* loop() deletes its pair's entry by name, not by identity (retry.go:121-127).
\* A goroutine is only ever orphaned by an older goroutine of its pair that was
\* cancelled by Ack or CancelAll and still ran its budget out: a pair that is
\* not tracked again while a cancelled goroutine of it runs has no orphans.
OrphanHasCulprit ==
    \A l \in Loop : Orphan(l) =>
        \E n \in 1..MaxSpawns :
            /\ n < l[2]
            /\ pc[<<l[1], n>>] = "done"
            /\ <<l[1], n>> \in cancelled
            /\ attempt[<<l[1], n>>] = Max

\* An entry that outlives its goroutine, and so makes Track ignore the pair as
\* a duplicate although nothing retries it, is left behind by a cancelled parent context only: exhausting
\* the budget evicts the entry (retry.go:21) and Ack and CancelAll remove it.
StaleOnlyAfterParentCancel ==
    \A q \in Pair : byKey[q] # 0 =>
        LET l == <<q, byKey[q]>>
        IN  Live(l) \/ (pc[l] = "done" /\ parent[l] \cap parentDone # {})

\* A goroutine whose context is cancelled, by Ack, CancelAll or its parent,
\* exits even if its timer never fires again (retry.go:107-111).
CancelledLoopExits == \A l \in Loop : (Live(l) /\ Done(l)) ~> pc[l] = "done"

\* Every goroutine Track starts ends, if timers fire: the budget bounds it.
EveryLoopExits == TimerFairness => \A l \in Loop : Live(l) ~> pc[l] = "done"

\* No goroutine leaks: both of the above.
LoopsExit == CancelledLoopExits /\ EveryLoopExits

\* retry.go:20 and 90, "CancelAll cancels every in-flight retry": a goroutine
\* still running has a cancelled context or is registered, where CancelAll (and
\* Ack) finds its CancelFunc.
CancelAllReachesEveryRetry ==
    \A l \in Loop : Live(l) => Done(l) \/ byKey[l[1]] = l[2]
=============================================================================
