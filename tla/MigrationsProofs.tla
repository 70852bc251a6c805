-------------------------- MODULE MigrationsProofs --------------------------
(***************************************************************************)
(* Proofs about Migrations, for every number of processes and versions.    *)
(***************************************************************************)
EXTENDS Migrations, TLAPS

\* A boot is between its lock and its unlock only while its session is the one
\* that holds the advisory lock: boots migrate one at a time.
MigratorHoldsLock == \A p \in Procs : pc[p] \in Locked => lock = p

\* What a boot read as applied is what is recorded, as long as it uses it, and
\* the loop is entered only with a version left to run.
ReadIsCurrent ==
    \A p \in Procs : pc[p] \in {"apply", "record"} =>
        applied[p] = recorded /\ Pending(p, applied[p]) # {}

\* The SQL of the version about to be recorded has run.
RecordedHasRun ==
    \A p \in Procs : pc[p] = "record" => First(Pending(p, applied[p])) \in schema

\* A loop that ended without an error left nothing of its bundle to run.
LoopDone ==
    \A p \in Procs : pc[p] = "unlock" /\ ~failed[p] => 1..bundle[p] \subseteq recorded

\* A version that has run without being recorded is being recorded, or was cut.
UnrecordedHasCause ==
    \A v \in schema \ recorded :
        v \in cut \/ \E p \in Procs : pc[p] = "record"

\* The inductive invariant: the four properties, and what the lock protects.
IInv ==
    /\ SchemaFollowsBundle
    /\ RerunOnlyIfCut
    /\ ServingHasSchema
    /\ LockOutlivesBootOnlyIfExpired
    /\ MigratorHoldsLock
    /\ ReadIsCurrent
    /\ RecordedHasRun
    /\ LoopDone
    /\ UnrecordedHasCause

-----------------------------------------------------------------------------
(* Versions.                                                               *)

\* A prefix of the versions grows by the next one.
LEMMA PrefixGrows ==
    ASSUME NEW n \in Nat
    PROVE  (1..n) \cup {n + 1} = 1..(n + 1) /\ (1..(n + 1)) \cup {n + 1} = 1..(n + 1)
  OBVIOUS

\* After a prefix 1..n of the versions, the next one to run is n + 1.
LEMMA FirstIsNext ==
    ASSUME NEW p \in Procs, bundle[p] \in Nat, NEW n \in Nat, Pending(p, 1..n) # {}
    PROVE  First(Pending(p, 1..n)) = n + 1 /\ n + 1 <= bundle[p]
<1> DEFINE s == Pending(p, 1..n)
<1>1. \A v \in s : v \in Nat /\ n + 1 <= v /\ v <= bundle[p]
  BY DEF Pending
<1>2. n + 1 <= bundle[p] /\ n + 1 \in s
  BY <1>1 DEF Pending
<1>3. \E v \in s : \A w \in s : v <= w
  BY <1>1, <1>2
<1>4. First(s) \in s /\ \A w \in s : First(s) <= w
  BY <1>3 DEF First
<1>5. QED
  BY <1>1, <1>2, <1>4

\* The loop of a boot goes on exactly with a version left to run, and ends with
\* its whole bundle applied.
LEMMA LoopTopCases ==
    ASSUME NEW p \in Procs, NEW done
    PROVE  \/ LoopTop(p, done) = "apply" /\ Pending(p, done) # {}
           \/ LoopTop(p, done) = "unlock" /\ 1..bundle[p] \subseteq done
  BY DEF LoopTop, Pending

\* In the loop, recorded is a prefix of the versions and the next version is the
\* one behind it.
LEMMA NextVersion ==
    ASSUME IInv, NEW p \in Procs, pc[p] \in {"apply", "record"}
    PROVE  \E n \in 0..MaxVersion :
              /\ recorded = 1..n /\ schema \in {1..n, 1..(n + 1)}
              /\ applied[p] = 1..n
              /\ First(Pending(p, applied[p])) = n + 1
              /\ n + 1 \in Versions
<1>1. PICK n \in 0..MaxVersion : recorded = 1..n /\ schema \in {1..n, 1..(n + 1)}
  BY DEF IInv, SchemaFollowsBundle
<1>2. applied[p] = 1..n /\ Pending(p, 1..n) # {}
  BY <1>1 DEF IInv, ReadIsCurrent
<1>3. bundle[p] \in 1..MaxVersion
  BY DEF IInv, SchemaFollowsBundle, TypeOK, Versions
<1>4. First(Pending(p, 1..n)) = n + 1 /\ n + 1 <= bundle[p]
  BY <1>2, <1>3, FirstIsNext, MigrationConstants
<1>5. QED
  BY <1>1, <1>2, <1>3, <1>4, MigrationConstants DEF Versions

\* A process that holds the lock is the only one between lock and unlock.
LEMMA Exclusive ==
    ASSUME IInv, NEW p \in Procs, NEW q \in Procs, pc[p] \in Locked, pc[q] \in Locked
    PROVE  p = q
  BY DEF IInv, MigratorHoldsLock

-----------------------------------------------------------------------------
(* Types.                                                                  *)

\* A process is moved to another place of its boot.
LEMMA ExitTypes ==
    ASSUME TypeOK, NEW p \in Procs, Exit(p)
    PROVE  /\ pc' \in [Procs -> Booting \cup {"down", "serving"}]
           /\ bundle' \in [Procs -> Versions]
           /\ applied' \in [Procs -> SUBSET Versions]
           /\ failed' \in [Procs -> BOOLEAN] /\ expired' \in [Procs -> BOOLEAN]
  BY MigrationConstants DEF Exit, TypeOK, Versions

\* Every variable keeps its type, given the invariant: the version a boot runs
\* next is one of its bundle.
LEMMA TypeStep == IInv /\ [Next]_vars => TypeOK'
<1> SUFFICES ASSUME IInv, [Next]_vars PROVE TypeOK'
  OBVIOUS
<1>0. TypeOK
  BY DEF IInv, SchemaFollowsBundle
<1>a. \A p \in Procs : pc[p] \in {"apply", "record"} => First(Pending(p, applied[p])) \in Versions
  BY NextVersion
<1>b. \A p \in Procs : Cut(p) \subseteq Versions
  BY <1>0, <1>a DEF Cut, TypeOK
<1>c. \A p \in Procs, done \in SUBSET Versions : LoopTop(p, done) \in Booting
  BY DEF LoopTop, Booting, Locked
<1>d. \A p \in Procs : FreedBy(p) \in Procs \cup {NoProc}
  BY <1>0 DEF FreedBy, TypeOK
<1>1. ASSUME NEW p \in Procs, NEW n \in Versions, Boot(p, n) PROVE TypeOK'
  BY <1>0, <1>1 DEF Boot, TypeOK, database, Booting, Locked
<1>2. ASSUME NEW p \in Procs, Connect(p) PROVE TypeOK'
  BY <1>0, <1>2 DEF Connect, Goes, TypeOK, database, Booting, Locked
<1>3. ASSUME NEW p \in Procs, Lock(p) PROVE TypeOK'
  BY <1>0, <1>3 DEF Lock, Goes, TypeOK, Booting, Locked
<1>4. ASSUME NEW p \in Procs, EnsureTable(p) PROVE TypeOK'
  BY <1>0, <1>4 DEF EnsureTable, Goes, TypeOK, Booting, Locked
<1>5. ASSUME NEW p \in Procs, ReadApplied(p) PROVE TypeOK'
  BY <1>0, <1>5, <1>c DEF ReadApplied, Goes, TypeOK, database
<1>6. ASSUME NEW p \in Procs, Apply(p) PROVE TypeOK'
  BY <1>0, <1>6, <1>a DEF Apply, RunSQL, Goes, TypeOK, Booting, Locked
<1>7. ASSUME NEW p \in Procs, Record(p) PROVE TypeOK'
  <2>1. First(Pending(p, applied[p])) \in Versions
    BY <1>7, <1>a DEF Record
  <2>2. LoopTop(p, applied[p] \cup {First(Pending(p, applied[p]))}) \in Booting
    BY <1>0, <1>c, <2>1 DEF TypeOK
  <2>3. QED
    BY <1>0, <1>7, <2>1, <2>2 DEF Record, Goes, TypeOK
<1>8. ASSUME NEW p \in Procs, Refused(p) PROVE TypeOK'
  BY <1>0, <1>8, <1>b DEF Refused, TypeOK, Booting, Locked
<1>9. ASSUME NEW p \in Procs, Unlock(p) PROVE TypeOK'
  BY <1>0, <1>9, <1>d DEF Unlock, TypeOK
<1>10. ASSUME NEW p \in Procs, Abort(p) PROVE TypeOK'
  BY <1>0, <1>10, <1>d, ExitTypes DEF Abort, TypeOK
<1>11. ASSUME NEW p \in Procs, Lost(p) PROVE TypeOK'
  BY <1>0, <1>11, <1>a, <1>b, <1>d, ExitTypes DEF Lost, RunSQL, TypeOK
<1>12. ASSUME NEW p \in Procs, GiveUp(p) PROVE TypeOK'
  BY <1>0, <1>12, ExitTypes DEF GiveUp, TypeOK, database
<1>13. ASSUME NEW p \in Procs, Expire(p) PROVE TypeOK'
  BY <1>0, <1>13 DEF Expire, TypeOK, database
<1>14. ASSUME NEW p \in Procs, Recycle(p) PROVE TypeOK'
  BY <1>0, <1>14 DEF Recycle, TypeOK, local
<1>15. ASSUME NEW p \in Procs, Stop(p) PROVE TypeOK'
  BY <1>0, <1>15, <1>d, ExitTypes DEF Stop, TypeOK
<1>16. CASE UNCHANGED vars
  BY <1>0, <1>16 DEF vars, local, database, TypeOK
<1>17. QED
  BY <1>1, <1>2, <1>3, <1>4, <1>5, <1>6, <1>7, <1>8, <1>9, <1>10, <1>11, <1>12,
     <1>13, <1>14, <1>15, <1>16 DEF Next

-----------------------------------------------------------------------------
(* The inductive step.                                                     *)

\* An empty database satisfies the invariant.
LEMMA InitIInv == Init => IInv
<1> SUFFICES ASSUME Init PROVE IInv
  OBVIOUS
<1>1. TypeOK
  <2>1. 1 \in Versions
    BY MigrationConstants DEF Versions
  <2>2. QED
    BY <2>1 DEF Init, TypeOK
<1>2. recorded = 1..0 /\ schema = 1..0
  BY DEF Init
<1>3. SchemaFollowsBundle
  BY <1>1, <1>2, MigrationConstants DEF SchemaFollowsBundle
<1>4. QED
  BY <1>3, MigrationConstants DEF Init, IInv, RerunOnlyIfCut, ServingHasSchema,
     LockOutlivesBootOnlyIfExpired, MigratorHoldsLock, ReadIsCurrent, RecordedHasRun, LoopDone,
     UnrecordedHasCause, Locked

\* A step that leaves the tables alone and moves only the process p out of the
\* statements of the loop, or never in, keeps the invariant, if what it says of
\* p still holds.
LEMMA TablesUntouched ==
    ASSUME IInv, TypeOK', NEW p \in Procs,
           UNCHANGED <<recorded, schema, rerun>>, cut \subseteq cut',
           \A q \in Procs \ {p} : /\ pc'[q] = pc[q] /\ bundle'[q] = bundle[q]
                                  /\ applied'[q] = applied[q]
                                  /\ failed'[q] = failed[q] /\ expired'[q] = expired[q],
           lock' \in {lock, p, NoProc},
           lock' = p => pc'[p] \in Locked \/ (pc'[p] = "serving" /\ expired'[p]),
           lock' = NoProc => lock \in {p, NoProc},
           lock' = p => lock \in {p, NoProc},
           pc'[p] \in Locked => lock' = p,
           pc'[p] = "apply" => applied'[p] = recorded /\ Pending(p, applied[p])' # {},
           pc'[p] # "record",
           pc[p] = "record" => \A v \in schema \ recorded : v \in cut',
           pc'[p] = "unlock" /\ ~failed'[p] => 1..bundle'[p] \subseteq recorded,
           p \in AutoMigrate /\ pc'[p] = "serving" => 1..bundle'[p] \subseteq recorded \cap schema
    PROVE  IInv'
<1> USE MigrationConstants
<1>1. SchemaFollowsBundle'
  BY DEF IInv, SchemaFollowsBundle
<1>2. RerunOnlyIfCut'
  BY DEF IInv, RerunOnlyIfCut
<1>3. ServingHasSchema'
  BY DEF IInv, ServingHasSchema
<1>4. LockOutlivesBootOnlyIfExpired'
  BY DEF IInv, LockOutlivesBootOnlyIfExpired
<1>5. MigratorHoldsLock'
  BY DEF IInv, MigratorHoldsLock
<1>6. ReadIsCurrent'
  BY DEF IInv, ReadIsCurrent, Pending
<1>7. RecordedHasRun'
  <2> SUFFICES ASSUME NEW q \in Procs, pc'[q] = "record"
               PROVE  First(Pending(q, applied[q]))' \in schema'
    BY DEF RecordedHasRun
  <2>1. q # p /\ pc[q] = "record"
    OBVIOUS
  <2>2. First(Pending(q, applied[q]))' = First(Pending(q, applied[q]))
    BY <2>1 DEF First, Pending
  <2>3. QED
    BY <2>1, <2>2 DEF IInv, RecordedHasRun
<1>8. LoopDone'
  BY DEF IInv, LoopDone
<1>9. UnrecordedHasCause'
  BY DEF IInv, UnrecordedHasCause
<1>10. QED
  BY <1>1, <1>2, <1>3, <1>4, <1>5, <1>6, <1>7, <1>8, <1>9 DEF IInv

\* The SQL of the next version: the schema gets at most one version ahead, and
\* it runs a version again only if nobody recorded it because a boot was cut.
LEMMA ApplyIInv ==
    ASSUME IInv, TypeOK', NEW p \in Procs, Apply(p)
    PROVE  IInv'
<1> USE MigrationConstants
<1>0. pc[p] = "apply" /\ pc' = [pc EXCEPT ![p] = "record"] /\ TypeOK
  BY DEF Apply, Goes, IInv, SchemaFollowsBundle
<1>1. PICK n \in 0..MaxVersion :
          /\ recorded = 1..n /\ schema \in {1..n, 1..(n + 1)}
          /\ applied[p] = 1..n
          /\ First(Pending(p, applied[p])) = n + 1
          /\ n + 1 \in Versions
  BY <1>0, NextVersion
<1>2. schema' = 1..(n + 1) /\ rerun' = IF n + 1 \in schema THEN rerun \cup {n + 1} ELSE rerun
  <2>1. /\ schema' = schema \cup {n + 1}
        /\ rerun' = IF n + 1 \in schema THEN rerun \cup {n + 1} ELSE rerun
    BY <1>1 DEF Apply, RunSQL
  <2>2. QED
    BY <1>1, <2>1, PrefixGrows
<1>3. /\ UNCHANGED <<bundle, applied, failed, expired, lock, recorded, cut>>
      /\ \A q \in Procs : q # p => pc'[q] = pc[q]
      /\ pc'[p] = "record"
  BY <1>0 DEF Apply, TypeOK
<1>4. \A q \in Procs : q # p => pc[q] \notin Locked
  BY <1>0, Exclusive DEF Locked
<1>5. SchemaFollowsBundle'
  BY <1>1, <1>2, <1>3 DEF SchemaFollowsBundle
<1>6. RerunOnlyIfCut'
  <2>1. n + 1 \in schema => n + 1 \in cut
    <3>1. \A q \in Procs : pc[q] # "record"
      BY <1>0, <1>4 DEF Locked
    <3>2. n + 1 \notin recorded
      BY <1>1
    <3>3. QED
      BY <3>1, <3>2 DEF IInv, UnrecordedHasCause
  <2>2. QED
    BY <1>2, <1>3, <2>1 DEF IInv, RerunOnlyIfCut
<1>7. ServingHasSchema'
  <2>1. schema \subseteq schema'
    BY <1>1, <1>2
  <2>2. QED
    BY <1>3, <2>1 DEF IInv, ServingHasSchema
<1>8. LockOutlivesBootOnlyIfExpired' /\ MigratorHoldsLock'
  BY <1>0, <1>3 DEF IInv, LockOutlivesBootOnlyIfExpired, MigratorHoldsLock, Locked
<1>9. ReadIsCurrent'
  BY <1>0, <1>3 DEF IInv, ReadIsCurrent, Pending
<1>10. RecordedHasRun'
  <2>1. \A q \in Procs : pc'[q] = "record" => q = p
    BY <1>3, <1>4 DEF Locked
  <2>2. First(Pending(p, applied[p]))' = n + 1
    BY <1>1, <1>3 DEF First, Pending
  <2>3. QED
    BY <1>1, <1>2, <2>1, <2>2 DEF RecordedHasRun, Versions
<1>11. LoopDone'
  BY <1>3 DEF IInv, LoopDone
<1>12. UnrecordedHasCause'
  BY <1>3 DEF UnrecordedHasCause
<1>13. QED
  BY <1>5, <1>6, <1>7, <1>8, <1>9, <1>10, <1>11, <1>12 DEF IInv

\* The record of the version whose SQL has run, by the statement of a boot or by
\* one whose answer was lost.
LEMMA RecordedNext ==
    ASSUME IInv, NEW p \in Procs, pc[p] = "record",
           recorded' = recorded \cup {First(Pending(p, applied[p]))}
    PROVE  /\ \E n \in 0..MaxVersion : recorded' = 1..n /\ schema = recorded'
           /\ recorded \subseteq recorded'
<1> USE MigrationConstants
<1>1. PICK n \in 0..MaxVersion :
          /\ recorded = 1..n /\ schema \in {1..n, 1..(n + 1)}
          /\ applied[p] = 1..n
          /\ First(Pending(p, applied[p])) = n + 1
          /\ n + 1 \in Versions
  BY NextVersion
<1>2. recorded' = 1..(n + 1)
  BY <1>1, PrefixGrows
<1>3. n + 1 \in schema
  BY <1>1 DEF IInv, RecordedHasRun
<1>4. schema = 1..(n + 1)
  BY <1>1, <1>3
<1>5. QED
  BY <1>1, <1>2, <1>4 DEF Versions

\* Record puts the record level with the schema; the boot's own view follows, and
\* nobody else has one, because nobody else holds the lock.
LEMMA RecordIInv ==
    ASSUME IInv, TypeOK', NEW p \in Procs, Record(p)
    PROVE  IInv'
<1> USE MigrationConstants
<1> DEFINE v == First(Pending(p, applied[p]))
           top == LoopTop(p, applied[p] \cup {v})
<1>0. /\ pc[p] = "record" /\ pc' = [pc EXCEPT ![p] = top] /\ TypeOK
      /\ recorded' = recorded \cup {v}
      /\ applied' = [applied EXCEPT ![p] = @ \cup {v}]
      /\ UNCHANGED <<bundle, failed, expired, lock, schema, cut, rerun>>
  BY DEF Record, Goes, IInv, SchemaFollowsBundle
<1>1. /\ \E n \in 0..MaxVersion : recorded' = 1..n /\ schema = recorded'
      /\ recorded \subseteq recorded'
  BY <1>0, RecordedNext
<1>2. \A q \in Procs : q # p => pc'[q] = pc[q] /\ pc[q] \notin Locked
  BY <1>0, Exclusive DEF TypeOK, Locked
<1>3. pc'[p] = top /\ applied'[p] = recorded'
  BY <1>0 DEF TypeOK, IInv, ReadIsCurrent
<1>4. \/ top = "apply" /\ Pending(p, recorded') # {}
      \/ top = "unlock" /\ 1..bundle[p] \subseteq recorded'
  <2>1. applied[p] \cup {v} = recorded'
    BY <1>0 DEF IInv, ReadIsCurrent
  <2>2. QED
    BY <2>1, LoopTopCases
<1> HIDE DEF top, v
<1>5. SchemaFollowsBundle'
  BY <1>0, <1>1 DEF SchemaFollowsBundle
<1>6. RerunOnlyIfCut' /\ ServingHasSchema'
  BY <1>0, <1>1, <1>2, <1>3, <1>4 DEF IInv, RerunOnlyIfCut, ServingHasSchema
<1>7. LockOutlivesBootOnlyIfExpired' /\ MigratorHoldsLock'
  BY <1>0, <1>2, <1>3, <1>4
     DEF IInv, LockOutlivesBootOnlyIfExpired, MigratorHoldsLock, Locked
<1>8. ReadIsCurrent'
  BY <1>0, <1>2, <1>3, <1>4 DEF ReadIsCurrent, Pending, Locked
<1>9. RecordedHasRun' /\ UnrecordedHasCause'
  BY <1>0, <1>1, <1>2, <1>3, <1>4 DEF RecordedHasRun, UnrecordedHasCause, Locked
<1>10. LoopDone'
  BY <1>0, <1>2, <1>3, <1>4 DEF LoopDone, Locked
<1>11. QED
  BY <1>5, <1>6, <1>7, <1>8, <1>9, <1>10 DEF IInv

\* A process that dies between two statements loses its session, and with it the
\* lock; a version whose SQL had run is cut.
LEMMA ExitIInv ==
    ASSUME IInv, TypeOK', NEW p \in Procs, Exit(p), lock' = FreedBy(p),
           UNCHANGED <<recorded, schema, rerun>>, cut' = Cut(p)
    PROVE  IInv'
<1>0. TypeOK
  BY DEF IInv, SchemaFollowsBundle
<1>1. pc'[p] = "down" /\ \A q \in Procs \ {p} : /\ pc'[q] = pc[q] /\ bundle'[q] = bundle[q]
                              /\ applied'[q] = applied[q]
                              /\ failed'[q] = failed[q] /\ expired'[q] = expired[q]
  BY <1>0 DEF Exit, TypeOK
<1>2. pc[p] = "record" => \A v \in schema \ recorded : v \in cut'
  <2> SUFFICES ASSUME pc[p] = "record", NEW v \in schema \ recorded PROVE v \in cut'
    OBVIOUS
  <2>1. \E n \in 0..MaxVersion : /\ recorded = 1..n /\ schema \in {1..n, 1..(n + 1)}
                                 /\ First(Pending(p, applied[p])) = n + 1
    BY NextVersion
  <2>2. v = First(Pending(p, applied[p]))
    BY <2>1, MigrationConstants
  <2>3. QED
    BY <2>2 DEF Cut
<1>3. cut \subseteq cut'
  BY DEF Cut
<1>4. lock' \in {lock, NoProc} /\ lock' # p /\ (lock' = NoProc => lock \in {p, NoProc})
  BY MigrationConstants DEF FreedBy
<1>5. QED
  BY <1>1, <1>2, <1>3, <1>4, TablesUntouched DEF Locked

\* The deadline or a broken connection hits the SQL of a version that the server
\* still runs: the version is cut.
LEMMA LostApplyIInv ==
    ASSUME IInv, TypeOK', NEW p \in Procs, Exit(p), lock' = FreedBy(p), pc[p] = "apply",
           RunSQL(First(Pending(p, applied[p]))),
           cut' = cut \cup {First(Pending(p, applied[p]))}, UNCHANGED recorded
    PROVE  IInv'
<1> USE MigrationConstants
<1>0. TypeOK
  BY DEF IInv, SchemaFollowsBundle
<1>1. PICK n \in 0..MaxVersion :
          /\ recorded = 1..n /\ schema \in {1..n, 1..(n + 1)}
          /\ applied[p] = 1..n
          /\ First(Pending(p, applied[p])) = n + 1
          /\ n + 1 \in Versions
  BY NextVersion
<1>2. schema' = 1..(n + 1) /\ rerun' \subseteq rerun \cup {n + 1} /\ n + 1 \in cut'
  <2>1. schema' = schema \cup {n + 1}
    BY <1>1 DEF RunSQL
  <2>2. QED
    BY <1>1, <2>1, PrefixGrows DEF RunSQL
<1>3. pc'[p] = "down" /\ \A q \in Procs : q # p => /\ pc'[q] = pc[q] /\ bundle'[q] = bundle[q]
                              /\ applied'[q] = applied[q]
                              /\ failed'[q] = failed[q] /\ expired'[q] = expired[q]
  BY <1>0 DEF Exit, TypeOK
<1>4. \A q \in Procs : pc'[q] \notin Locked
  BY <1>3, Exclusive DEF Locked
<1>5. lock' = NoProc
  BY DEF IInv, MigratorHoldsLock, Locked, FreedBy
<1>6. SchemaFollowsBundle'
  BY <1>1, <1>2 DEF SchemaFollowsBundle
<1>7. RerunOnlyIfCut'
  BY <1>2 DEF IInv, RerunOnlyIfCut
<1>8. ServingHasSchema'
  <2>1. schema \subseteq schema'
    BY <1>1, <1>2
  <2>2. QED
    BY <1>3, <2>1 DEF IInv, ServingHasSchema
<1>9. LockOutlivesBootOnlyIfExpired' /\ MigratorHoldsLock'
  BY <1>4, <1>5 DEF LockOutlivesBootOnlyIfExpired, MigratorHoldsLock
<1>10. ReadIsCurrent' /\ RecordedHasRun' /\ LoopDone'
  BY <1>4 DEF ReadIsCurrent, RecordedHasRun, LoopDone, Locked
<1>11. UnrecordedHasCause'
  <2>1. schema' \ recorded' \subseteq {n + 1}
    BY <1>1, <1>2
  <2>2. QED
    BY <1>2, <2>1 DEF UnrecordedHasCause
<1>12. QED
  BY <1>6, <1>7, <1>8, <1>9, <1>10, <1>11 DEF IInv

\* They hit the insert of a version row that the server still applies: the
\* record is level with the schema, as after Record.
LEMMA LostRecordIInv ==
    ASSUME IInv, TypeOK', NEW p \in Procs, Exit(p), lock' = FreedBy(p), pc[p] = "record",
           recorded' = recorded \cup {First(Pending(p, applied[p]))},
           UNCHANGED <<schema, cut, rerun>>
    PROVE  IInv'
<1> USE MigrationConstants
<1>0. TypeOK
  BY DEF IInv, SchemaFollowsBundle
<1>1. /\ \E n \in 0..MaxVersion : recorded' = 1..n /\ schema = recorded'
      /\ recorded \subseteq recorded'
  BY RecordedNext
<1>2. pc'[p] = "down" /\ \A q \in Procs : q # p => /\ pc'[q] = pc[q] /\ bundle'[q] = bundle[q]
                              /\ applied'[q] = applied[q]
                              /\ failed'[q] = failed[q] /\ expired'[q] = expired[q]
  BY <1>0 DEF Exit, TypeOK
<1>3. \A q \in Procs : pc'[q] \notin Locked
  BY <1>2, Exclusive DEF Locked
<1>4. lock' = NoProc
  BY DEF IInv, MigratorHoldsLock, Locked, FreedBy
<1>5. SchemaFollowsBundle'
  BY <1>1 DEF SchemaFollowsBundle
<1>6. RerunOnlyIfCut' /\ ServingHasSchema'
  BY <1>1, <1>2 DEF IInv, RerunOnlyIfCut, ServingHasSchema
<1>7. LockOutlivesBootOnlyIfExpired' /\ MigratorHoldsLock'
  BY <1>3, <1>4 DEF LockOutlivesBootOnlyIfExpired, MigratorHoldsLock
<1>8. ReadIsCurrent' /\ RecordedHasRun' /\ LoopDone'
  BY <1>3 DEF ReadIsCurrent, RecordedHasRun, LoopDone, Locked
<1>9. UnrecordedHasCause'
  BY <1>1 DEF UnrecordedHasCause
<1>10. QED
  BY <1>5, <1>6, <1>7, <1>8, <1>9 DEF IInv

\* Every statement, failure, crash and deadline of a boot keeps the invariant.
LEMMA StepIInv == IInv /\ [Next]_vars => IInv'
<1> SUFFICES ASSUME IInv, [Next]_vars PROVE IInv'
  OBVIOUS
<1> USE MigrationConstants
<1>0. TypeOK /\ TypeOK'
  BY TypeStep DEF IInv, SchemaFollowsBundle
<1>1. ASSUME NEW p \in Procs, NEW n \in Versions, Boot(p, n) PROVE IInv'
  <2>1. lock # p
    BY <1>1 DEF Boot, IInv, LockOutlivesBootOnlyIfExpired, Locked
  <2>2. QED
    BY <1>0, <1>1, <2>1, TablesUntouched DEF Boot, database, TypeOK, Locked
<1>2. ASSUME NEW p \in Procs, Connect(p) PROVE IInv'
  <2>1. lock # p
    BY <1>2 DEF Connect, Goes, IInv, LockOutlivesBootOnlyIfExpired, Locked
  <2>2. QED
    BY <1>0, <1>2, <2>1, TablesUntouched DEF Connect, Goes, database, TypeOK, Locked
<1>3. ASSUME NEW p \in Procs, Lock(p) PROVE IInv'
  BY <1>0, <1>3, TablesUntouched DEF Lock, Goes, TypeOK, Locked
<1>4. ASSUME NEW p \in Procs, EnsureTable(p) PROVE IInv'
  <2>1. lock = p
    BY <1>4 DEF EnsureTable, Goes, IInv, MigratorHoldsLock, Locked
  <2>2. QED
    BY <1>0, <1>4, <2>1, TablesUntouched DEF EnsureTable, Goes, TypeOK, Locked
<1>5. ASSUME NEW p \in Procs, ReadApplied(p) PROVE IInv'
  <2>1. lock = p
    BY <1>5 DEF ReadApplied, Goes, IInv, MigratorHoldsLock, Locked
  <2>2. /\ pc[p] = "read" /\ pc'[p] = LoopTop(p, recorded) /\ applied'[p] = recorded
        /\ UNCHANGED <<bundle, failed, expired, lock, recorded, schema, cut, rerun>>
        /\ \A q \in Procs \ {p} : pc'[q] = pc[q] /\ applied'[q] = applied[q]
    BY <1>0, <1>5 DEF ReadApplied, Goes, database, TypeOK
  <2>3. \/ pc'[p] = "apply" /\ Pending(p, applied[p])' # {}
        \/ pc'[p] = "unlock" /\ 1..bundle[p] \subseteq recorded
    BY <2>2, LoopTopCases DEF Pending
  <2>4. QED
    BY <1>0, <2>1, <2>2, <2>3, TablesUntouched DEF Locked
<1>6. ASSUME NEW p \in Procs, Apply(p) PROVE IInv'
  BY <1>0, <1>6, ApplyIInv
<1>7. ASSUME NEW p \in Procs, Record(p) PROVE IInv'
  BY <1>0, <1>7, RecordIInv
<1>8. ASSUME NEW p \in Procs, Refused(p) PROVE IInv'
  <2>1. lock = p
    BY <1>8 DEF Refused, IInv, MigratorHoldsLock
  <2>2. pc[p] = "record" => \A v \in schema \ recorded : v \in cut'
    <3> SUFFICES ASSUME pc[p] = "record", NEW v \in schema \ recorded PROVE v \in cut'
      OBVIOUS
    <3>1. \E n \in 0..MaxVersion : /\ recorded = 1..n /\ schema \in {1..n, 1..(n + 1)}
                                   /\ First(Pending(p, applied[p])) = n + 1
      BY NextVersion
    <3>2. v = First(Pending(p, applied[p]))
      BY <3>1
    <3>3. QED
      BY <1>8, <3>2 DEF Refused, Cut
  <2>3. cut \subseteq cut'
    BY <1>8 DEF Refused, Cut
  <2>4. /\ pc[p] \in Locked /\ pc'[p] = "unlock" /\ failed'[p]
        /\ \A q \in Procs \ {p} : pc'[q] = pc[q] /\ failed'[q] = failed[q]
        /\ UNCHANGED <<bundle, applied, expired, lock, recorded, schema, rerun>>
    BY <1>0, <1>8 DEF Refused, TypeOK
  <2>5. QED
    BY <1>0, <2>1, <2>2, <2>3, <2>4, TablesUntouched DEF Locked
<1>9. ASSUME NEW p \in Procs, Unlock(p) PROVE IInv'
  <2>1. lock = p /\ 1..bundle[p] \subseteq recorded
    BY <1>9 DEF Unlock, IInv, MigratorHoldsLock, LoopDone, Locked
  <2>2. recorded \subseteq schema
    BY DEF IInv, SchemaFollowsBundle
  <2>3. /\ lock' = IF expired[p] THEN p ELSE NoProc
        /\ pc[p] = "unlock" /\ pc'[p] = "serving"
        /\ \A q \in Procs \ {p} : pc'[q] = pc[q]
        /\ UNCHANGED <<bundle, applied, failed, expired, recorded, schema, cut, rerun>>
    BY <1>0, <1>9, <2>1 DEF Unlock, FreedBy, TypeOK
  <2>4. QED
    BY <1>0, <2>1, <2>2, <2>3, TablesUntouched DEF Locked
<1>10. ASSUME NEW p \in Procs, Abort(p) PROVE IInv'
  BY <1>0, <1>10, ExitIInv DEF Abort, Cut
<1>11. ASSUME NEW p \in Procs, Lost(p) PROVE IInv'
  <2>1. Exit(p) /\ lock' = FreedBy(p)
    BY <1>11 DEF Lost
  <2>2. CASE cut' = Cut(p) /\ UNCHANGED <<recorded, schema, rerun>>
    BY <1>0, <2>1, <2>2, ExitIInv
  <2>3. CASE pc[p] = "ensure" /\ UNCHANGED <<recorded, schema, cut, rerun>>
    BY <1>0, <2>1, <2>3, ExitIInv DEF Cut
  <2>4. CASE /\ pc[p] = "apply" /\ RunSQL(First(Pending(p, applied[p])))
             /\ cut' = cut \cup {First(Pending(p, applied[p]))} /\ UNCHANGED recorded
    BY <1>0, <2>1, <2>4, LostApplyIInv
  <2>5. CASE /\ pc[p] = "record" /\ recorded' = recorded \cup {First(Pending(p, applied[p]))}
             /\ UNCHANGED <<schema, cut, rerun>>
    BY <1>0, <2>1, <2>5, LostRecordIInv
  <2>6. QED
    BY <1>11, <2>2, <2>3, <2>4, <2>5 DEF Lost
<1>12. ASSUME NEW p \in Procs, GiveUp(p) PROVE IInv'
  <2>1. lock' = FreedBy(p) /\ cut' = Cut(p)
    BY <1>12 DEF GiveUp, FreedBy, Cut, database, IInv, LockOutlivesBootOnlyIfExpired, Locked
  <2>2. QED
    BY <1>0, <1>12, <2>1, ExitIInv DEF GiveUp, database
<1>13. ASSUME NEW p \in Procs, Expire(p) PROVE IInv'
  BY <1>0, <1>13 DEF Expire, database, TypeOK, IInv, SchemaFollowsBundle, RerunOnlyIfCut,
     ServingHasSchema, LockOutlivesBootOnlyIfExpired, MigratorHoldsLock, ReadIsCurrent, Pending,
     RecordedHasRun, First, LoopDone, UnrecordedHasCause
<1>14. ASSUME NEW p \in Procs, Recycle(p) PROVE IInv'
  <2>1. pc[p] = "serving" /\ UNCHANGED <<pc, bundle, applied, failed, expired>>
    BY <1>14 DEF Recycle, local
  <2>2. p \in AutoMigrate => 1..bundle[p] \subseteq recorded \cap schema
    BY <2>1 DEF IInv, ServingHasSchema
  <2>3. QED
    BY <1>0, <1>14, <2>1, <2>2, TablesUntouched DEF Recycle, Locked
<1>15. ASSUME NEW p \in Procs, Stop(p) PROVE IInv'
  BY <1>0, <1>15, ExitIInv DEF Stop, Cut
<1>16. CASE UNCHANGED vars
  BY <1>0, <1>16 DEF vars, local, database, IInv, SchemaFollowsBundle, RerunOnlyIfCut,
     ServingHasSchema, LockOutlivesBootOnlyIfExpired, MigratorHoldsLock, ReadIsCurrent, Pending,
     RecordedHasRun, First, LoopDone, UnrecordedHasCause
<1>17. QED
  BY <1>1, <1>2, <1>3, <1>4, <1>5, <1>6, <1>7, <1>8, <1>9, <1>10, <1>11, <1>12,
     <1>13, <1>14, <1>15, <1>16 DEF Next

\* The invariant holds in every reachable state.
LEMMA Invariance == Spec => []IInv
  BY InitIInv, StepIInv, PTL DEF Spec

-----------------------------------------------------------------------------
\* Whatever crashes and whichever binaries boot together, versions are run and
\* recorded in the order of the bundle, and the schema is at most one version
\* ahead of its record.
THEOREM SchemaInStep == Spec => []SchemaFollowsBundle
<1>1. IInv => SchemaFollowsBundle
  BY DEF IInv
<1>2. QED
  BY <1>1, Invariance, PTL

\* Boots migrate one at a time: no insert of a version row conflicts, and the SQL
\* of a version runs twice only after a run that was cut.
THEOREM MigratesOnce == Spec => []OneMigratorAtATime
<1>1. IInv => OneMigratorAtATime
  BY DEF IInv, ReadIsCurrent, OneMigratorAtATime, RecordNeverConflicts
<1>2. QED
  BY <1>1, Invariance, PTL

\* A process that migrates on boot serves only on a schema that has every version
\* of its own binary.
THEOREM ServesOnSchema == Spec => []ServingHasSchema
<1>1. IInv => ServingHasSchema
  BY DEF IInv
<1>2. QED
  BY <1>1, Invariance, PTL

\* A process past its boot holds the lock only if its deadline fired before the
\* unlock was sent.
THEOREM LockReleased == Spec => []LockOutlivesBootOnlyIfExpired
<1>1. IInv => LockOutlivesBootOnlyIfExpired
  BY DEF IInv
<1>2. QED
  BY <1>1, Invariance, PTL
=============================================================================
