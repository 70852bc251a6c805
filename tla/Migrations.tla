----------------------------- MODULE Migrations -----------------------------
(***************************************************************************)
(* Processes booting on one Postgres database: New (store/postgres) and    *)
(* applyMigrations.  A boot holds a session-level advisory lock over       *)
(* several statements; every statement runs under the boot's context,      *)
(* whose deadline (cmd/notifyd) may fire between any two of them.  A       *)
(* process may also crash or lose its connection in the middle of one.     *)
(***************************************************************************)
EXTENDS Naturals

CONSTANTS Procs,         \* notifyd processes
          AutoMigrate,   \* the ones configured to migrate on boot
          MaxVersion,    \* bound: versions 1..MaxVersion exist in some binary
          NoProc         \* nobody holds the lock

ASSUME MigrationConstants ==
    /\ AutoMigrate \subseteq Procs
    /\ NoProc \notin Procs
    /\ MaxVersion \in Nat \ {0}

Versions == 1..MaxVersion

VARIABLES
    pc,           \* process -> where it is in its boot
    bundle,       \* process -> the last version its binary knows
    applied,      \* process -> the versions it read as applied
    failed,       \* process -> applyMigrations is returning an error
    expired,      \* process -> the deadline of its boot has fired
    lock,         \* the session that holds the advisory lock
    versionTable, \* notify_schema_migrations exists
    recorded,     \* its rows
    schema,       \* the versions whose SQL has run
    cut,          \* history: versions whose run ended between SQL and record
    rerun         \* history: versions whose SQL ran more than once

local == <<pc, bundle, applied, failed, expired>>
database == <<lock, versionTable, recorded, schema, cut, rerun>>
vars == <<local, database>>

Locked == {"ensure", "read", "apply", "record", "unlock"}
Booting == Locked \cup {"connect", "lock"}

TypeOK ==
    /\ pc \in [Procs -> Booting \cup {"down", "serving"}]
    /\ bundle \in [Procs -> Versions]
    /\ applied \in [Procs -> SUBSET Versions]
    /\ failed \in [Procs -> BOOLEAN] /\ expired \in [Procs -> BOOLEAN]
    /\ lock \in Procs \cup {NoProc}
    /\ versionTable \in BOOLEAN
    /\ recorded \subseteq Versions /\ schema \subseteq Versions
    /\ cut \subseteq Versions /\ rerun \subseteq Versions

Init ==
    /\ pc = [p \in Procs |-> "down"]
    /\ bundle = [p \in Procs |-> 1]
    /\ applied = [p \in Procs |-> {}]
    /\ failed = [p \in Procs |-> FALSE]
    /\ expired = [p \in Procs |-> FALSE]
    /\ lock = NoProc
    /\ versionTable = FALSE
    /\ recorded = {} /\ schema = {} /\ cut = {} /\ rerun = {}

-----------------------------------------------------------------------------
\* The process starts, from a binary whose migrations end at version n.
Boot(p, n) ==
    /\ pc[p] = "down"
    /\ pc' = [pc EXCEPT ![p] = "connect"]
    /\ bundle' = [bundle EXCEPT ![p] = n]
    /\ UNCHANGED <<applied, failed, expired, database>>

\* The process is gone, and its memory with it.
Exit(p) ==
    /\ pc' = [pc EXCEPT ![p] = "down"]
    /\ bundle' = [bundle EXCEPT ![p] = 1]
    /\ applied' = [applied EXCEPT ![p] = {}]
    /\ failed' = [failed EXCEPT ![p] = FALSE]
    /\ expired' = [expired EXCEPT ![p] = FALSE]

\* A statement of p succeeds: it is sent only before the deadline.
Goes(p, from, to) ==
    /\ pc[p] = from
    /\ ~expired[p]
    /\ pc' = [pc EXCEPT ![p] = to]

\* The pool is opened and pinged.
Connect(p) ==
    /\ Goes(p, "connect", IF p \in AutoMigrate THEN "lock" ELSE "serving")
    /\ UNCHANGED <<bundle, applied, failed, expired, database>>

\* Mutant: the lock is shared.
LockShared(p) ==
    /\ Goes(p, "lock", "ensure")
    /\ lock' = p
    /\ UNCHANGED <<bundle, applied, failed, expired, versionTable, recorded, schema, cut, rerun>>

Lock(p) ==
    /\ Goes(p, "lock", "ensure")
    /\ lock = NoProc
    /\ lock' = p
    /\ UNCHANGED <<bundle, applied, failed, expired, versionTable, recorded, schema, cut, rerun>>

EnsureTable(p) ==
    /\ Goes(p, "ensure", "read")
    /\ versionTable' = TRUE
    /\ UNCHANGED <<bundle, applied, failed, expired, lock, recorded, schema, cut, rerun>>

\* The versions the loop still has to run, given the ones read as applied.
Pending(p, done) == {v \in 1..bundle[p] : v \notin done}
First(s) == CHOOSE v \in s : \A w \in s : v <= w
LoopTop(p, done) == IF Pending(p, done) = {} THEN "unlock" ELSE "apply"

ReadApplied(p) ==
    /\ Goes(p, "read", LoopTop(p, recorded))
    /\ applied' = [applied EXCEPT ![p] = recorded]
    /\ UNCHANGED <<bundle, failed, expired, database>>

\* The SQL of the next version: one implicit transaction of IF NOT EXISTS
\* statements, so that running it again leaves the schema as it is.
RunSQL(v) ==
    /\ schema' = schema \cup {v}
    /\ rerun' = IF v \in schema THEN rerun \cup {v} ELSE rerun

\* Mutant: the loop walks the bundle from its end.
ApplyBackwards(p) ==
    /\ Goes(p, "apply", "record")
    /\ RunSQL(CHOOSE v \in Pending(p, applied[p]) : \A w \in Pending(p, applied[p]) : v >= w)
    /\ UNCHANGED <<bundle, applied, failed, expired, lock, versionTable, recorded, cut>>

Apply(p) ==
    /\ Goes(p, "apply", "record")
    /\ RunSQL(First(Pending(p, applied[p])))
    /\ UNCHANGED <<bundle, applied, failed, expired, lock, versionTable, recorded, cut>>

\* The INSERT of the version row; a second one would violate its primary key.
Record(p) ==
    LET v == First(Pending(p, applied[p]))
    IN  /\ pc[p] = "record" /\ v \notin recorded
        /\ Goes(p, "record", LoopTop(p, applied[p] \cup {v}))
        /\ recorded' = recorded \cup {v}
        /\ applied' = [applied EXCEPT ![p] = @ \cup {v}]
        /\ UNCHANGED <<bundle, failed, expired, lock, versionTable, schema, cut, rerun>>

\* The run of p ends here: its version is cut when its SQL had run.
Cut(p) == IF pc[p] = "record" THEN cut \cup {First(Pending(p, applied[p]))} ELSE cut

\* Mutant: the error of a statement is dropped.
RefusedUnnoticed(p) ==
    /\ pc[p] \in Locked \ {"unlock"}
    /\ pc' = [pc EXCEPT ![p] = "unlock"]
    /\ cut' = Cut(p)
    /\ UNCHANGED <<bundle, applied, failed, expired, lock, versionTable, recorded, schema, rerun>>

\* A statement is refused by the database, or not sent because the deadline has
\* fired: applyMigrations returns the error, through the deferred unlock.
Refused(p) ==
    /\ pc[p] \in Locked \ {"unlock"}
    /\ failed' = [failed EXCEPT ![p] = TRUE]
    /\ pc' = [pc EXCEPT ![p] = "unlock"]
    /\ cut' = Cut(p)
    /\ UNCHANGED <<bundle, applied, expired, lock, versionTable, recorded, schema, rerun>>

FreedBy(p) == IF lock = p THEN NoProc ELSE lock

\* Mutant: the successful return does not unlock.
UnlockForgotten(p) ==
    /\ pc[p] = "unlock" /\ ~failed[p]
    /\ pc' = [pc EXCEPT ![p] = "serving"]
    /\ UNCHANGED <<bundle, applied, failed, expired, database>>

\* The deferred unlock of a successful run, and the release of the connection.
\* After the deadline the unlock is not sent and its error is dropped: the
\* pooled connection keeps the session's lock.
Unlock(p) ==
    /\ pc[p] = "unlock" /\ ~failed[p]
    /\ pc' = [pc EXCEPT ![p] = "serving"]
    /\ lock' = IF expired[p] THEN lock ELSE FreedBy(p)
    /\ UNCHANGED <<bundle, applied, failed, expired, versionTable, recorded, schema, cut, rerun>>

\* After an error New closes the pool, which ends the session in any case.
Abort(p) ==
    /\ pc[p] = "unlock" /\ failed[p]
    /\ Exit(p)
    /\ lock' = FreedBy(p)
    /\ UNCHANGED <<versionTable, recorded, schema, cut, rerun>>

\* The process crashes, its connection breaks or the deadline fires in the
\* middle of a statement, whose effect the server may still apply before it
\* ends the session.
Lost(p) ==
    /\ pc[p] \in Booting
    /\ Exit(p)
    /\ lock' = FreedBy(p)
    /\ \/ /\ cut' = Cut(p)
          /\ UNCHANGED <<versionTable, recorded, schema, rerun>>
       \/ /\ pc[p] = "ensure"
          /\ versionTable' = TRUE
          /\ UNCHANGED <<recorded, schema, cut, rerun>>
       \/ /\ pc[p] = "apply"
          /\ RunSQL(First(Pending(p, applied[p])))
          /\ cut' = cut \cup {First(Pending(p, applied[p]))}
          /\ UNCHANGED <<versionTable, recorded>>
       \/ /\ pc[p] = "record"
          /\ recorded' = recorded \cup {First(Pending(p, applied[p]))}
          /\ UNCHANGED <<versionTable, schema, cut, rerun>>

\* Mutant: the wait for the lock has no deadline.
GiveUpAtConnect(p) ==
    /\ pc[p] = "connect"
    /\ Exit(p)
    /\ UNCHANGED database

\* New gives up before it holds the lock: the database cannot be reached, or
\* the deadline fires while it waits behind another session.
GiveUp(p) ==
    /\ pc[p] = "connect" \/ (pc[p] = "lock" /\ expired[p])
    /\ Exit(p)
    /\ UNCHANGED database

\* The 30 seconds of the boot are over.
Expire(p) ==
    /\ pc[p] \in Booting
    /\ ~expired[p]
    /\ expired' = [expired EXCEPT ![p] = TRUE]
    /\ UNCHANGED <<pc, bundle, applied, failed, database>>

\* The pool closes a connection at the end of its idle time or its lifetime.
Recycle(p) ==
    /\ pc[p] = "serving"
    /\ lock = p
    /\ lock' = NoProc
    /\ UNCHANGED <<local, versionTable, recorded, schema, cut, rerun>>

\* The process stops and Close closes the pool.
Stop(p) ==
    /\ pc[p] = "serving"
    /\ Exit(p)
    /\ lock' = FreedBy(p)
    /\ UNCHANGED <<versionTable, recorded, schema, cut, rerun>>

Step(p) ==
    \/ Connect(p) \/ Lock(p) \/ EnsureTable(p) \/ ReadApplied(p) \/ Apply(p)
    \/ Record(p) \/ Refused(p) \/ Unlock(p) \/ Abort(p) \/ GiveUp(p)

Next ==
    \E p \in Procs :
        \/ \E n \in Versions : Boot(p, n)
        \/ Connect(p) \/ Lock(p) \/ EnsureTable(p) \/ ReadApplied(p) \/ Apply(p) \/ Record(p)
        \/ Refused(p) \/ Unlock(p) \/ Abort(p) \/ Lost(p) \/ GiveUp(p) \/ Expire(p) \/ Recycle(p) \/ Stop(p)

Spec == Init /\ [][Next]_vars

\* Statements return, deadlines fire, and the pool recycles its connections.
FairSpec == Spec /\ \A p \in Procs : WF_vars(Step(p)) /\ WF_vars(Expire(p)) /\ WF_vars(Recycle(p))

-----------------------------------------------------------------------------
\* A version is recorded only when its SQL has run, in declaration order: both
\* sets are prefixes of the bundle, and the schema is at most one version ahead
\* of its record, whatever crashes and whichever binaries boot together
\* (migrations.go:10-12, :76-79).
SchemaFollowsBundle ==
    TypeOK /\ \E n \in 0..MaxVersion :
        /\ recorded = 1..n
        /\ schema \in {1..n, 1..(n + 1)}

\* No boot inserts a version row that another boot already inserted, which the
\* primary key would refuse (migrations.go:127).
RecordNeverConflicts ==
    \A p \in Procs : pc[p] \in {"apply", "record"} => recorded = applied[p]

\* The SQL of a version runs twice only when an earlier run of it was cut
\* between the SQL and its record (migrations.go:120-132).
RerunOnlyIfCut == rerun \subseteq cut

\* Boots that overlap do not migrate at once: neither an insert that conflicts
\* nor SQL that runs twice without a cut.
OneMigratorAtATime == RecordNeverConflicts /\ RerunOnlyIfCut

\* A process that migrates on boot serves only on a schema that holds every
\* version of its own binary (store.go:78-83).
ServingHasSchema ==
    \A p \in AutoMigrate : pc[p] = "serving" => 1..bundle[p] \subseteq recorded \cap schema

\* A serving process keeps the migration lock, and so keeps every other boot
\* waiting, only when its deadline fired before the unlock was sent
\* (migrations.go:90-92).
LockOutlivesBootOnlyIfExpired ==
    \A p \in Procs : lock = p => pc[p] \in Locked \/ (pc[p] = "serving" /\ expired[p])

\* Every boot ends, also one that waits behind a lock left in a pool.
BootEnds == \A p \in Procs : pc[p] \in Booting ~> pc[p] \in {"serving", "down"}

\* The lock is never kept for ever.
LockFreed == []<>(lock = NoProc)

\* Nobody waits for ever: neither a boot nor the lock.
BootsAndLockEnd == BootEnds /\ LockFreed
=============================================================================
