--------------------------- MODULE NotifierProofs ---------------------------
(***************************************************************************)
(* Proofs about Notifier, for every set of tenants, users, requests,       *)
(* channels, providers and concurrent calls.                               *)
(***************************************************************************)
EXTENDS Notifier, FiniteSetTheorems, TLAPS

\* The targets before position (i, j) of the two loops.
Before(c, i, j) == i < pos[c][1] \/ (i = pos[c][1] /\ j < pos[c][2])

\* A call in flight has its request and a position inside both loops, and has
\* handed on everything before that position.
WalkOK(c) ==
    pc[c] \in InFlight =>
        /\ Req(c) \in Requests
        /\ pos[c][1] \in 1..Len(Req(c).users)
        /\ pos[c][2] \in 1..Len(chans[c])
        /\ \A i \in 1..Len(Req(c).users), j \in 1..Len(chans[c]) :
              Before(c, i, j) /\ Sendable(Req(c), Req(c).users[i], chans[c][j])
                 => TargetAt(c, i, j) \in attempted

\* Between create and record, row.ID is the id the index has for the row's key.
RowOK(c) ==
    pc[c] \in {"send", "record", "recordFailed"} =>
        rowID[c] \in IDs /\ notifByKey[KeyOf(c)] = rowID[c]

\* The outcome about to be recorded is the provider's.
OutcomeOK(c) ==
    /\ pc[c] \in {"record", "recordFailed"} => TargetOf(c) \in attempted
    /\ pc[c] = "record" => receipt[c] \in {"pending", "delivered"}
    /\ pc[c] = "record" /\ receipt[c] = "delivered" => accepts[TargetOf(c)] > 0
    /\ pc[c] = "recordFailed" => KeyOf(c) \in errored

\* A call that succeeded has handed on all of its targets.
DoneOK(c) ==
    pc[c] = "done" =>
        \A i \in 1..Len(Req(c).users), j \in 1..Len(chans[c]) :
            Sendable(Req(c), Req(c).users[i], chans[c][j]) => TargetAt(c, i, j) \in attempted

\* A call that has not started will start with the first target.
IdleOK(c) == pc[c] = "idle" => pos[c] = <<1, 1>>

CallOK(c) == IdleOK(c) /\ WalkOK(c) /\ RowOK(c) /\ OutcomeOK(c) /\ DoneOK(c)

\* The inductive invariant: what a call remembers across its steps, next to
\* the properties themselves.
IInv ==
    /\ TypeOK
    /\ IndexConsistent
    /\ \A c \in Calls : CallOK(c)
    /\ PersistBeforeSend
    /\ StatusHasCause
    /\ AckKeepsStamp

-----------------------------------------------------------------------------
(* Rows.                                                                   *)

\* The row Notify builds is a row, pending and never read.
LEMMA NewRowType ==
    ASSUME NEW k \in Key, NEW kind \in Channels, NEW at \in Stamp
    PROVE  /\ NewRow(k, kind, at) \in Row
           /\ NewRow(k, kind, at).key = k
           /\ NewRow(k, kind, at).status = "pending"
  BY ModelConstants DEF NewRow, Row, Status, Stamp

\* UpdateStatus keeps a row a row with its key, and never clears a read stamp.
LEMMA StampedType ==
    ASSUME NEW row \in Row, NEW status \in Status, NEW at \in 1..MaxTime
    PROVE  /\ Stamped(row, status, at) \in Row
           /\ Stamped(row, status, at).key = row.key
           /\ Stamped(row, status, at).status = status
           /\ row.readAt # 0 => Stamped(row, status, at).readAt # 0
           /\ status = "read" => Stamped(row, status, at).readAt # 0
<1>1. at \in Stamp /\ at # 0
  BY ModelConstants DEF Stamp
<1>2. Stamped(row, status, at) \in Row
  BY <1>1 DEF Stamped, Row
<1>3. /\ Stamped(row, status, at).key = row.key
      /\ Stamped(row, status, at).status = status
      /\ Stamped(row, status, at).readAt = IF status = "read" THEN at ELSE row.readAt
  BY DEF Stamped, Row
<1>4. QED
  BY <1>1, <1>2, <1>3

-----------------------------------------------------------------------------
(* The store's steps.                                                      *)

Inserted(k, kind, at, id) ==
    /\ notifByKey[k] = NoID
    /\ notifications[id] = NoRow
    /\ notifications' = [notifications EXCEPT ![id] = NewRow(k, kind, at)]
    /\ notifByKey' = [notifByKey EXCEPT ![k] = id]

Restamped(id, status, at) ==
    /\ notifications[id] # NoRow
    /\ notifications' = [notifications EXCEPT ![id] = Stamped(notifications[id], status, at)]
    /\ UNCHANGED notifByKey

Caused(id, status) ==
    /\ status = "delivered" => \E kind \in Channels : accepts[<<notifications[id].key, kind>>] > 0
    /\ status = "failed" => notifications[id].key \in errored

StoreStep ==
    \/ UNCHANGED storeVars
    \/ \E k \in Key, kind \in Channels, at \in 1..MaxTime, id \in IDs : Inserted(k, kind, at, id)
    \/ \E id \in IDs, status \in Status, at \in 1..MaxTime :
          Restamped(id, status, at) /\ Caused(id, status)

\* What the store never does, whichever operation runs: unlearn an id or a
\* row, change a row's key, clear a read stamp.
StoreKeeps ==
    /\ \A k \in Key : notifByKey[k] # NoID => notifByKey'[k] = notifByKey[k]
    /\ \A id \in IDs : notifications[id] # NoRow =>
          /\ notifications'[id] # NoRow
          /\ notifications'[id].key = notifications[id].key
          /\ notifications[id].readAt # 0 => notifications'[id].readAt # 0

\* The histories only grow.
HistoryGrows ==
    /\ attempted \subseteq attempted'
    /\ errored \subseteq errored'
    /\ \A t \in Target : accepts[t] > 0 => accepts'[t] > 0

\* Every store step keeps the two maps typed and in agreement.
LEMMA StoreStepKeeps ==
    ASSUME StoreTypeOK, IndexConsistent, StoreStep
    PROVE  StoreTypeOK' /\ IndexConsistent' /\ StoreKeeps
<1> USE StoreConstants, ModelConstants
<1>1. CASE UNCHANGED storeVars
  BY <1>1 DEF storeVars, StoreTypeOK, IndexConsistent, StoreKeeps
<1>2. ASSUME NEW k \in Key, NEW kind \in Channels, NEW at \in 1..MaxTime, NEW id \in IDs,
             Inserted(k, kind, at, id)
      PROVE  StoreTypeOK' /\ IndexConsistent' /\ StoreKeeps
  <2> DEFINE row == NewRow(k, kind, at)
  <2>1. row \in Row /\ row.key = k /\ row # NoRow
    BY NewRowType DEF Stamp
  <2> HIDE DEF row
  <2>2. /\ notifications' = [notifications EXCEPT ![id] = row]
        /\ notifByKey' = [notifByKey EXCEPT ![k] = id]
        /\ notifByKey[k] = NoID /\ notifications[id] = NoRow
    BY <1>2 DEF Inserted, row
  <2>3. StoreTypeOK'
    BY <2>1, <2>2 DEF StoreTypeOK
  <2>4. StoreKeeps
    BY <2>2 DEF StoreTypeOK, StoreKeeps
  <2>5. \A j \in IDs : notifications[j] # NoRow => notifications[j].key \in Key
    BY DEF StoreTypeOK, Row
  <2>6. IndexConsistent'
    BY <2>1, <2>2, <2>5 DEF StoreTypeOK, IndexConsistent
  <2>7. QED
    BY <2>3, <2>4, <2>6
<1>3. ASSUME NEW id \in IDs, NEW status \in Status, NEW at \in 1..MaxTime, Restamped(id, status, at)
      PROVE  StoreTypeOK' /\ IndexConsistent' /\ StoreKeeps
  <2> DEFINE row == Stamped(notifications[id], status, at)
  <2>1. /\ row \in Row /\ row.key = notifications[id].key /\ row # NoRow
        /\ notifications[id].readAt # 0 => row.readAt # 0
    BY <1>3, StampedType DEF Restamped, StoreTypeOK
  <2> HIDE DEF row
  <2>2. /\ notifications' = [notifications EXCEPT ![id] = row]
        /\ notifByKey' = notifByKey
        /\ notifications[id] # NoRow
    BY <1>3 DEF Restamped, row
  <2>3. StoreTypeOK'
    BY <2>1, <2>2 DEF StoreTypeOK
  <2>4. StoreKeeps
    BY <2>1, <2>2 DEF StoreTypeOK, StoreKeeps
  <2>5. IndexConsistent'
    BY <2>1, <2>2 DEF StoreTypeOK, IndexConsistent
  <2>6. QED
    BY <2>3, <2>4, <2>5
<1>4. QED
  BY <1>1, <1>2, <1>3 DEF StoreStep

\* A status is only ever written for its cause.
LEMMA StoreStepCaused ==
    ASSUME TypeOK, StatusHasCause, StoreStep, HistoryGrows
    PROVE  StatusHasCause'
<1> USE StoreConstants, ModelConstants
<1> SUFFICES ASSUME NEW i \in IDs, notifications'[i] # NoRow
             PROVE  LET row == notifications'[i]
                    IN  /\ row.status = "delivered" => \E kind \in Channels : accepts'[<<row.key, kind>>] > 0
                        /\ row.status = "failed" => row.key \in errored'
  BY DEF StatusHasCause
<1>1. \A k \in Key, kind \in Channels : <<k, kind>> \in Target
  BY DEF Target
<1>2. CASE notifications'[i] = notifications[i]
  <2>1. notifications[i].key \in Key
    BY <1>2 DEF TypeOK, StoreTypeOK, Row
  <2>2. QED
    BY <1>1, <1>2, <2>1 DEF StatusHasCause, HistoryGrows
<1>3. ASSUME NEW k \in Key, NEW kind \in Channels, NEW at \in 1..MaxTime, NEW id \in IDs,
             Inserted(k, kind, at, id), i = id
      PROVE  notifications'[i].status = "pending"
  BY <1>3, NewRowType DEF Inserted, TypeOK, StoreTypeOK, Stamp
<1>4. ASSUME NEW status \in Status, NEW at \in 1..MaxTime, Restamped(i, status, at),
             Caused(i, status)
      PROVE  /\ notifications'[i].status = "delivered" =>
                  \E kind \in Channels : accepts'[<<notifications'[i].key, kind>>] > 0
             /\ notifications'[i].status = "failed" => notifications'[i].key \in errored'
  <2>1. notifications[i] \in Row /\ notifications[i].key \in Key
    BY <1>4 DEF Restamped, TypeOK, StoreTypeOK, Row
  <2>2. notifications'[i] = Stamped(notifications[i], status, at)
    BY <1>4 DEF Restamped, TypeOK, StoreTypeOK
  <2>3. notifications'[i].status = status /\ notifications'[i].key = notifications[i].key
    BY <2>1, <2>2, StampedType
  <2>4. QED
    BY <1>1, <1>4, <2>1, <2>3 DEF Caused, HistoryGrows
<1>5. CASE UNCHANGED storeVars
  BY <1>2, <1>5 DEF storeVars
<1>6. ASSUME NEW k \in Key, NEW kind \in Channels, NEW at \in 1..MaxTime, NEW id \in IDs,
             Inserted(k, kind, at, id), i # id
      PROVE  notifications'[i] = notifications[i]
  BY <1>6 DEF Inserted, TypeOK, StoreTypeOK
<1>7. ASSUME NEW id \in IDs, NEW status \in Status, NEW at \in 1..MaxTime,
             Restamped(id, status, at), i # id
      PROVE  notifications'[i] = notifications[i]
  BY <1>7 DEF Restamped, TypeOK, StoreTypeOK
<1>8. QED
  BY <1>2, <1>3, <1>4, <1>5, <1>6, <1>7 DEF StoreStep

-----------------------------------------------------------------------------
(* Calls.                                                                  *)

\* Nothing of call d changes, unless the process dies under it.
Still(d) ==
    /\ pc'[d] = pc[d] \/ pc'[d] = "error"
    /\ req'[d] = req[d] /\ chans'[d] = chans[d] /\ pos'[d] = pos[d]
    /\ rowID'[d] = rowID[d] /\ receipt'[d] = receipt[d]

\* What a call in flight names is well typed.
LEMMA WalkTypes ==
    ASSUME TypeOK, NEW c \in Calls, WalkOK(c), pc[c] \in InFlight
    PROVE  /\ Req(c) \in Requests
           /\ Req(c).tenant \in Tenants
           /\ Req(c).users \in Seq(Users)
           /\ User(c) \in Users
           /\ Kind(c) \in Channels
           /\ KeyOf(c) \in Key
           /\ KeyOf(c)[1] = Req(c).tenant
           /\ TargetOf(c) \in Target
           /\ TargetOf(c)[1] = KeyOf(c)
           /\ TargetOf(c) = <<KeyOf(c), Kind(c)>>
<1>1. Req(c) \in Requests /\ pos[c][1] \in 1..Len(Req(c).users) /\ pos[c][2] \in 1..Len(chans[c])
  BY DEF WalkOK
<1>2. Req(c).tenant \in Tenants /\ Req(c).users \in Seq(Users) /\ Req(c).nid \in NotificationIDs
  BY <1>1, NotifierConstants DEF Request
<1>3. User(c) \in Users
  BY <1>1, <1>2 DEF User
<1>4. Kind(c) \in Channels
  BY <1>1 DEF Kind, TypeOK, CallTypeOK
<1>5. QED
  BY <1>1, <1>2, <1>3, <1>4 DEF KeyOf, TargetOf, Key, Target

\* The steps of one call do not disturb what another call relies on.
LEMMA StillOK ==
    ASSUME TypeOK, StoreKeeps, HistoryGrows, NEW d \in Calls, Still(d), CallOK(d)
    PROVE  CallOK(d)'
<1>1. Req(d)' = Req(d)
  BY DEF Still, Req, The
<1>2. KeyOf(d)' = KeyOf(d) /\ TargetOf(d)' = TargetOf(d)
  BY <1>1 DEF Still, KeyOf, TargetOf, User, Kind
<1>3. \A i, j : TargetAt(d, i, j)' = TargetAt(d, i, j) /\ Before(d, i, j)' = Before(d, i, j)
  BY <1>1 DEF Still, TargetAt, Before
<1>4. pc'[d] = pc[d] \/ pc'[d] = "error"
  BY DEF Still
<1>5. IdleOK(d)' /\ WalkOK(d)' /\ DoneOK(d)'
  BY <1>1, <1>3, <1>4 DEF CallOK, IdleOK, WalkOK, DoneOK, Still, HistoryGrows, InFlight
<1>6. RowOK(d)'
  <2>1. CASE pc[d] \in {"send", "record", "recordFailed"}
    <3>1. KeyOf(d) \in Key /\ notifByKey[KeyOf(d)] # NoID
      BY <2>1, WalkTypes, StoreConstants DEF CallOK, IdleOK, RowOK, InFlight
    <3>2. QED
      BY <2>1, <3>1, <1>2 DEF CallOK, IdleOK, RowOK, Still, StoreKeeps
  <2>2. CASE pc[d] \notin {"send", "record", "recordFailed"}
    BY <2>2, <1>4 DEF RowOK
  <2>3. QED
    BY <2>1, <2>2
<1>7. OutcomeOK(d)'
  <2>1. CASE pc[d] \in {"record", "recordFailed"}
    <3>1. TargetOf(d) \in Target
      BY <2>1, WalkTypes DEF CallOK, InFlight
    <3>2. QED
      BY <2>1, <3>1, <1>2, <1>4 DEF CallOK, OutcomeOK, Still, HistoryGrows
  <2>2. CASE pc[d] \notin {"record", "recordFailed"}
    BY <2>2, <1>4 DEF OutcomeOK
  <2>3. QED
    BY <2>1, <2>2
<1>8. QED
  BY <1>5, <1>6, <1>7 DEF CallOK

\* What is left to show of a step: its effect on the store and the histories,
\* and the state of the one call that moved.
LEMMA StepIInv ==
    ASSUME IInv, StoreStep, HistoryGrows, CallTypeOK',
           \A d \in Calls : Still(d) \/ CallOK(d)',
           \A t \in attempted' : t \in attempted \/ notifByKey[t[1]] # NoID,
           \A id \in acked' : id \in acked \/ (notifications'[id] # NoRow /\ notifications'[id].readAt # 0)
    PROVE  IInv' /\ StoreStep
<1>1. StoreTypeOK' /\ IndexConsistent' /\ StoreKeeps
  BY StoreStepKeeps DEF IInv, TypeOK
<1>2. TypeOK'
  BY <1>1 DEF TypeOK
<1>3. \A d \in Calls : CallOK(d)'
  BY <1>1, StillOK DEF IInv
<1>4. PersistBeforeSend'
  <2>1. \A t \in attempted' : t[1] \in Key
    BY DEF CallTypeOK, Target
  <2>2. QED
    BY <1>1, <2>1 DEF IInv, PersistBeforeSend, StoreKeeps
<1>5. StatusHasCause'
  BY StoreStepCaused DEF IInv
<1>6. AckKeepsStamp'
  <2>1. \A id \in acked : id \in IDs
    BY DEF IInv, TypeOK, CallTypeOK
  <2>2. QED
    BY <1>1, <2>1 DEF IInv, AckKeepsStamp, StoreKeeps
<1>7. QED
  BY <1>1, <1>2, <1>3, <1>4, <1>5, <1>6 DEF IInv

\* A create is a store step, and afterwards the index has the id it returned.
LEMMA CreateStep ==
    ASSUME TypeOK, NEW k \in Key, NEW kind \in Channels, NEW id \in IDs,
           CreateNotification(NewRow(k, kind, now), id)
    PROVE  StoreStep /\ notifByKey'[k] = id
<1>1. now \in 1..MaxTime /\ NewRow(k, kind, now).key = k
  BY NewRowType, ModelConstants DEF TypeOK, CallTypeOK, Stamp
<1>2. QED
  BY <1>1 DEF CreateNotification, StoreStep, Inserted, storeVars, TypeOK, StoreTypeOK

\* A status update that has its cause is a store step.
LEMMA UpdateStep ==
    ASSUME TypeOK, NEW tenant, NEW id \in IDs, NEW status \in Status,
           UpdateStatus(tenant, id, status, now), Caused(id, status)
    PROVE  StoreStep
<1>1. now \in 1..MaxTime
  BY DEF TypeOK, CallTypeOK
<1>2. Restamped(id, status, now)
  BY DEF UpdateStatus, Restamped
<1>3. QED
  BY <1>1, <1>2 DEF StoreStep

\* The next position stays inside the loops, with everything before it handed
\* on, or the call is done with all of its targets handed on.
LEMMA AdvanceOK ==
    ASSUME TypeOK, NEW c \in Calls, WalkOK(c), pc[c] \in InFlight, Advance(c),
           UNCHANGED <<req, chans>>, attempted \subseteq attempted',
           Sendable(Req(c), User(c), Kind(c)) => TargetOf(c) \in attempted'
    PROVE  CallOK(c)'
<1> DEFINE i0 == pos[c][1]
           j0 == pos[c][2]
           m == Len(Req(c).users)
           n == Len(chans[c])
<1>1. i0 \in 1..m /\ j0 \in 1..n /\ m \in Nat /\ n \in Nat /\ Req(c) \in Requests
  <2>1. Req(c).users \in Seq(Users) /\ Req(c) \in Requests
    BY WalkTypes
  <2>2. chans[c] \in Seq(Channels)
    BY DEF TypeOK, CallTypeOK
  <2>3. QED
    BY <2>1, <2>2 DEF WalkOK
<1>2. Req(c)' = Req(c) /\ chans'[c] = chans[c]
  BY DEF Req, The
<1>3. pos'[c] = NextPos(c) /\ pc'[c] = IF NextPos(c)[1] > m THEN "done" ELSE "create"
  BY DEF Advance, TypeOK, CallTypeOK
<1>4. \A i, j : TargetAt(c, i, j)' = TargetAt(c, i, j)
  BY <1>2 DEF TargetAt
<1>5. TargetAt(c, i0, j0) = TargetOf(c) /\ User(c) = Req(c).users[i0] /\ Kind(c) = chans[c][j0]
  BY DEF TargetAt, TargetOf, KeyOf, User, Kind
<1>6. \A i \in 1..m, j \in 1..n :
         (Before(c, i, j) \/ (i = i0 /\ j = j0)) /\ Sendable(Req(c), Req(c).users[i], chans[c][j])
            => TargetAt(c, i, j) \in attempted'
  BY <1>5 DEF WalkOK
<1>10. \A i, j : Before(c, i, j) <=> i < i0 \/ (i = i0 /\ j < j0)
  BY DEF Before
<1> HIDE DEF m, n, i0, j0
<1>7. CASE j0 < n
  <2>1. NextPos(c) = <<i0, j0 + 1>>
    BY <1>7 DEF NextPos, i0, j0, n
  <2>2. pc'[c] = "create" /\ pos'[c][1] = i0 /\ pos'[c][2] = j0 + 1
    BY <1>1, <1>3, <2>1
  <2>3. \A i \in 1..m, j \in 1..n : Before(c, i, j)' => Before(c, i, j) \/ (i = i0 /\ j = j0)
    <3>1. \A i, j : Before(c, i, j)' <=> i < i0 \/ (i = i0 /\ j < j0 + 1)
      BY <2>2 DEF Before
    <3>2. QED
      BY <1>1, <1>10, <3>1
  <2>4. WalkOK(c)'
    BY <1>1, <1>2, <1>4, <1>6, <1>7, <2>2, <2>3 DEF WalkOK, m, n
  <2>5. QED
    BY <2>2, <2>4 DEF CallOK, IdleOK, RowOK, OutcomeOK, DoneOK
<1>8. CASE j0 = n
  <2>1. NextPos(c) = <<i0 + 1, 1>>
    BY <1>1, <1>8 DEF NextPos, i0, j0, n
  <2>2. \A i \in 1..m, j \in 1..n : i < i0 + 1 => Before(c, i, j) \/ (i = i0 /\ j = j0)
    BY <1>1, <1>8, <1>10
  <2>3. CASE i0 + 1 > m
    <3>1. pc'[c] = "done"
      BY <1>3, <2>1, <2>3
    <3>2. \A i \in 1..m, j \in 1..n : i < i0 + 1
      BY <1>1, <2>3
    <3>3. DoneOK(c)'
      BY <1>2, <1>4, <1>6, <2>2, <3>2 DEF DoneOK, m, n
    <3>4. QED
      BY <3>1, <3>3 DEF CallOK, IdleOK, RowOK, OutcomeOK, WalkOK, InFlight
  <2>4. CASE i0 + 1 <= m
    <3>1. pc'[c] = "create" /\ pos'[c][1] = i0 + 1 /\ pos'[c][2] = 1
      BY <1>1, <1>3, <2>1, <2>4
    <3>2. \A i \in 1..m, j \in 1..n : Before(c, i, j)' => i < i0 + 1
      BY <1>1, <3>1 DEF Before
    <3>3. WalkOK(c)'
      BY <1>1, <1>2, <1>4, <1>6, <1>8, <2>2, <2>4, <3>1, <3>2 DEF WalkOK, m, n
    <3>4. QED
      BY <3>1, <3>3 DEF CallOK, IdleOK, RowOK, OutcomeOK, DoneOK
  <2>5. QED
    BY <1>1, <2>3, <2>4
<1>9. QED
  BY <1>1, <1>7, <1>8

\* The position an Advance moves to, and the call's new pc, are well typed.
LEMMA AdvanceType ==
    ASSUME TypeOK, NEW c \in Calls, Advance(c)
    PROVE  /\ pos' \in [Calls -> Nat \X Nat]
           /\ pc' \in [Calls -> InFlight \cup {"idle", "done", "error"}]
           /\ \A d \in Calls \ {c} : pos'[d] = pos[d] /\ pc'[d] = pc[d]
<1>1. NextPos(c) \in Nat \X Nat
  BY DEF NextPos, TypeOK, CallTypeOK
<1>2. QED
  BY <1>1 DEF Advance, TypeOK, CallTypeOK, InFlight

\* Counting one more outcome keeps the result well typed.
LEMMA CountType ==
    ASSUME TypeOK, NEW c \in Calls,
           \/ res' = [res EXCEPT ![c].delivered = @ + 1]
           \/ res' = [res EXCEPT ![c].pending = @ + 1]
           \/ res' = [res EXCEPT ![c].failed = @ + 1]
    PROVE  res' \in [Calls -> [delivered : Nat, pending : Nat, failed : Nat]]
<1> DEFINE R == [delivered : Nat, pending : Nat, failed : Nat]
<1>1. res \in [Calls -> R] /\ res[c] \in R
  BY DEF TypeOK, CallTypeOK
<1>2. /\ [res[c] EXCEPT !.delivered = @ + 1] \in R
      /\ [res[c] EXCEPT !.pending = @ + 1] \in R
      /\ [res[c] EXCEPT !.failed = @ + 1] \in R
  BY <1>1
<1>3. \/ res' = [res EXCEPT ![c] = [res[c] EXCEPT !.delivered = @ + 1]]
      \/ res' = [res EXCEPT ![c] = [res[c] EXCEPT !.pending = @ + 1]]
      \/ res' = [res EXCEPT ![c] = [res[c] EXCEPT !.failed = @ + 1]]
  OBVIOUS
<1> HIDE DEF R
<1>4. res' \in [Calls -> R]
  BY <1>1, <1>2, <1>3
<1>5. QED
  BY <1>4 DEF R

-----------------------------------------------------------------------------
(* One lemma per action.                                                   *)

\* The lists Notify may walk are lists of channels.
LEMMA ResolvedType ==
    ASSUME NEW r \in Requests, NEW ks \in Resolved(r)
    PROVE  ks \in Seq(Channels)
<1>1. CASE Named(r.channels) # <<>>
  BY <1>1, NotifierConstants DEF Resolved
<1>2. CASE Named(r.channels) = <<>>
  <2>1. Cardinality(Providers) \in Nat
    BY NotifierConstants, FS_CardinalityType
  <2>2. ks \in [1..Cardinality(Providers) -> Channels]
    BY <1>2, NotifierConstants DEF Resolved, Enabled
  <2>3. QED
    BY <2>1, <2>2
<1>3. QED
  BY <1>1, <1>2

\* A request that arrives starts its walk at the first target.
LEMMA StartIInv ==
    ASSUME IInv, NEW c \in Calls, NEW r \in Requests, Start(c, r)
    PROVE  IInv' /\ StoreStep
<1> USE DEF IInv
<1>1. PICK ks \in Resolved(r) : /\ chans' = [chans EXCEPT ![c] = ks]
                                /\ pc' = [pc EXCEPT ![c] = IF ks = <<>> THEN "done" ELSE "create"]
  BY DEF Start
<1>2. ks \in Seq(Channels) /\ r.users \in Seq(Users) /\ r.users # <<>>
  BY ResolvedType, NotifierConstants DEF Request, Start
<1>3. UNCHANGED <<storeVars, now, pos, rowID, receipt, res, acking, history>>
      /\ req' = [req EXCEPT ![c] = {r}]
  BY DEF Start
<1>4. CallTypeOK'
  BY <1>1, <1>2, <1>3 DEF TypeOK, CallTypeOK, InFlight, history
<1>5. Req(c)' = r
  BY <1>3 DEF TypeOK, CallTypeOK, Req, The
<1>6. chans'[c] = ks /\ pos'[c] = <<1, 1>> /\ pc'[c] = IF ks = <<>> THEN "done" ELSE "create"
  BY <1>1, <1>3 DEF TypeOK, CallTypeOK, Start, CallOK, IdleOK
<1>7. CallOK(c)'
  <2>1. CASE ks = <<>>
    BY <1>5, <1>6, <2>1 DEF CallOK, IdleOK, WalkOK, RowOK, OutcomeOK, DoneOK, InFlight
  <2>2. CASE ks # <<>>
    <3>1. 1 \in 1..Len(r.users) /\ 1 \in 1..Len(ks)
      BY <1>2, <2>2
    <3>2. \A i \in 1..Len(r.users), j \in 1..Len(ks) : ~Before(c, i, j)'
      BY <1>2, <1>6 DEF Before
    <3>3. WalkOK(c)'
      BY <1>5, <1>6, <3>1, <3>2 DEF WalkOK
    <3>4. QED
      BY <1>6, <2>2, <3>3 DEF CallOK, IdleOK, RowOK, OutcomeOK, DoneOK
  <2>3. QED
    BY <2>1, <2>2
<1>8. \A d \in Calls \ {c} : Still(d)
  BY <1>1, <1>3 DEF TypeOK, CallTypeOK, Still
<1>9. StoreStep /\ HistoryGrows
  BY <1>3 DEF StoreStep, HistoryGrows, history
<1>10. QED
  BY <1>3, <1>4, <1>7, <1>8, <1>9, StepIInv DEF PersistBeforeSend, history

\* After the create the call knows its row, or moves on with it pending.
LEMMA CreateIInv ==
    ASSUME IInv, NEW c \in Calls, Create(c)
    PROVE  IInv' /\ StoreStep
<1> USE DEF IInv
<1>1. pc[c] = "create" /\ pc[c] \in InFlight /\ WalkOK(c)
  BY DEF Create, InFlight, CallOK
<1>2. PICK id \in IDs : /\ CreateNotification(NewRow(KeyOf(c), Kind(c), now), id)
                        /\ rowID' = [rowID EXCEPT ![c] = id]
  BY DEF Create
<1>3. UNCHANGED <<now, req, chans, receipt, acking, history>>
  BY DEF Create
<1>4. StoreStep /\ notifByKey'[KeyOf(c)] = id
  BY <1>1, <1>2, CreateStep, WalkTypes
<1>5. HistoryGrows
  BY <1>3 DEF HistoryGrows, history
<1>6. CASE Sendable(Req(c), User(c), Kind(c))
  <2>1. pc' = [pc EXCEPT ![c] = "send"] /\ UNCHANGED <<pos, res>>
    BY <1>6 DEF Create
  <2>2. CallTypeOK'
    BY <1>2, <1>3, <2>1 DEF TypeOK, CallTypeOK, InFlight, history
  <2>3. /\ pc'[c] = "send" /\ rowID'[c] = id /\ Req(c)' = Req(c) /\ KeyOf(c)' = KeyOf(c)
        /\ \A i, j : TargetAt(c, i, j)' = TargetAt(c, i, j) /\ Before(c, i, j)' = Before(c, i, j)
    BY <1>2, <1>3, <2>1 DEF TypeOK, CallTypeOK, Req, The, KeyOf, User, TargetAt, Before
  <2>4. CallOK(c)'
    BY <1>1, <1>3, <1>4, <2>1, <2>3
       DEF CallOK, IdleOK, WalkOK, RowOK, OutcomeOK, DoneOK, InFlight, history
  <2>5. \A d \in Calls \ {c} : Still(d)
    BY <1>2, <1>3, <2>1 DEF TypeOK, CallTypeOK, Still
  <2>6. QED
    BY <1>3, <1>4, <1>5, <2>2, <2>4, <2>5, StepIInv DEF history
<1>7. CASE ~Sendable(Req(c), User(c), Kind(c))
  <2>1. res' = [res EXCEPT ![c].pending = @ + 1] /\ Advance(c)
    BY <1>7 DEF Create
  <2>2. CallTypeOK'
    <3>1. res' \in [Calls -> [delivered : Nat, pending : Nat, failed : Nat]]
      BY <2>1, CountType
    <3>2. QED
      BY <1>2, <1>3, <2>1, <3>1, AdvanceType DEF TypeOK, CallTypeOK, history
  <2>3. CallOK(c)'
    BY <1>1, <1>3, <1>7, <2>1, AdvanceOK DEF history
  <2>4. \A d \in Calls \ {c} : Still(d)
    BY <1>2, <1>3, <2>1, AdvanceType DEF TypeOK, CallTypeOK, Still
  <2>5. QED
    BY <1>3, <1>4, <1>5, <2>2, <2>3, <2>4, StepIInv DEF history
<1>8. QED
  BY <1>6, <1>7

\* A failed create ends the call, with or without the row.
LEMMA CreateFailsIInv ==
    ASSUME IInv, NEW c \in Calls, CreateFails(c)
    PROVE  IInv' /\ StoreStep
<1> USE DEF IInv
<1>1. pc[c] \in InFlight /\ WalkOK(c)
  BY DEF CreateFails, InFlight, CallOK
<1>2. /\ UNCHANGED <<now, req, chans, pos, rowID, receipt, res, acking, history>>
      /\ pc' = [pc EXCEPT ![c] = "error"]
  BY DEF CreateFails
<1>3. StoreStep
  <2>1. CASE UNCHANGED storeVars
    BY <2>1 DEF StoreStep
  <2>2. ASSUME NEW id \in IDs, CreateNotification(NewRow(KeyOf(c), Kind(c), now), id)
        PROVE  StoreStep
    BY <1>1, <2>2, CreateStep, WalkTypes
  <2>3. QED
    BY <2>1, <2>2 DEF CreateFails
<1>4. CallTypeOK' /\ HistoryGrows
  BY <1>2 DEF TypeOK, CallTypeOK, HistoryGrows, history
<1>5. \A d \in Calls : Still(d)
  BY <1>2 DEF TypeOK, CallTypeOK, Still
<1>6. QED
  BY <1>2, <1>3, <1>4, <1>5, StepIInv DEF history

\* A receipt is a cause for the status it will record.
LEMMA SendIInv ==
    ASSUME IInv, NEW c \in Calls, Send(c)
    PROVE  IInv' /\ StoreStep
<1> USE DEF IInv
<1>1. pc[c] = "send" /\ pc[c] \in InFlight /\ WalkOK(c) /\ RowOK(c)
  BY DEF Send, InFlight, CallOK
<1>2. PICK status \in Receipts(Kind(c)) :
         /\ receipt' = [receipt EXCEPT ![c] = Normalised(status)]
         /\ accepts' = IF status = "pending" THEN accepts
                       ELSE [accepts EXCEPT ![TargetOf(c)] = @ + 1]
  BY DEF Send
<1>3. /\ UNCHANGED <<storeVars, now, req, chans, pos, rowID, res, acking, errored, acked>>
      /\ attempted' = attempted \cup {TargetOf(c)}
      /\ pc' = [pc EXCEPT ![c] = "record"]
  BY DEF Send
<1>4. Normalised(status) \in {"pending", "delivered"} /\ (Normalised(status) = "delivered" => status # "pending")
  BY DEF Receipts, Normalised
<1>5. TargetOf(c) \in Target /\ TargetOf(c)[1] = KeyOf(c)
  BY <1>1, WalkTypes
<1>6. accepts' \in [Target -> Nat] /\ \A t \in Target : accepts[t] > 0 => accepts'[t] > 0
  BY <1>2, <1>5 DEF TypeOK, CallTypeOK
<1>7. status # "pending" => accepts'[TargetOf(c)] > 0
  BY <1>2, <1>5 DEF TypeOK, CallTypeOK
<1>8. CallTypeOK'
  BY <1>2, <1>3, <1>4, <1>5, <1>6 DEF TypeOK, CallTypeOK, InFlight, Status
<1>9. HistoryGrows /\ StoreStep
  BY <1>3, <1>6 DEF HistoryGrows, StoreStep
<1>10. CallOK(c)'
  <2>1. /\ pc'[c] = "record" /\ Req(c)' = Req(c) /\ KeyOf(c)' = KeyOf(c) /\ TargetOf(c)' = TargetOf(c)
        /\ \A i, j : TargetAt(c, i, j)' = TargetAt(c, i, j) /\ Before(c, i, j)' = Before(c, i, j)
    BY <1>3 DEF TypeOK, CallTypeOK, Req, The, KeyOf, User, Kind, TargetOf, TargetAt, Before
  <2>2. WalkOK(c)'
    BY <1>1, <1>3, <2>1 DEF WalkOK
  <2>3. OutcomeOK(c)'
    BY <1>2, <1>3, <1>4, <1>7, <2>1 DEF OutcomeOK, TypeOK, CallTypeOK
  <2>4. RowOK(c)'
    BY <1>1, <1>3, <2>1 DEF RowOK, storeVars
  <2>5. QED
    BY <2>1, <2>2, <2>3, <2>4 DEF CallOK, IdleOK, DoneOK
<1>11. \A d \in Calls \ {c} : Still(d)
  BY <1>2, <1>3 DEF TypeOK, CallTypeOK, Still
<1>12. notifByKey[KeyOf(c)] # NoID
  BY <1>1, StoreConstants DEF RowOK
<1>13. QED
  BY <1>3, <1>5, <1>8, <1>9, <1>10, <1>11, <1>12, StepIInv

\* An error is a cause for the failed status.
LEMMA SendFailsIInv ==
    ASSUME IInv, NEW c \in Calls, SendFails(c)
    PROVE  IInv' /\ StoreStep
<1> USE DEF IInv
<1>1. pc[c] = "send" /\ pc[c] \in InFlight /\ WalkOK(c) /\ RowOK(c)
  BY DEF SendFails, InFlight, CallOK
<1>2. /\ UNCHANGED <<storeVars, now, req, chans, pos, rowID, receipt, acking, accepts, acked>>
      /\ attempted' = attempted \cup {TargetOf(c)}
      /\ errored' = errored \cup {KeyOf(c)}
      /\ res' = [res EXCEPT ![c].failed = @ + 1]
      /\ pc' = [pc EXCEPT ![c] = "recordFailed"]
  BY DEF SendFails
<1>3. TargetOf(c) \in Target /\ TargetOf(c)[1] = KeyOf(c) /\ KeyOf(c) \in Key
  BY <1>1, WalkTypes
<1>4. CallTypeOK'
  <2>1. res' \in [Calls -> [delivered : Nat, pending : Nat, failed : Nat]]
    BY <1>2, CountType
  <2>2. QED
    BY <1>2, <1>3, <2>1 DEF TypeOK, CallTypeOK, InFlight
<1>5. HistoryGrows /\ StoreStep
  BY <1>2 DEF HistoryGrows, StoreStep
<1>6. CallOK(c)'
  <2>1. /\ pc'[c] = "recordFailed" /\ Req(c)' = Req(c) /\ KeyOf(c)' = KeyOf(c) /\ TargetOf(c)' = TargetOf(c)
        /\ \A i, j : TargetAt(c, i, j)' = TargetAt(c, i, j) /\ Before(c, i, j)' = Before(c, i, j)
    BY <1>2 DEF TypeOK, CallTypeOK, Req, The, KeyOf, User, Kind, TargetOf, TargetAt, Before
  <2>2. WalkOK(c)'
    BY <1>1, <1>2, <2>1 DEF WalkOK
  <2>3. OutcomeOK(c)'
    BY <1>2, <2>1 DEF OutcomeOK
  <2>4. RowOK(c)'
    BY <1>1, <1>2, <2>1 DEF RowOK, storeVars
  <2>5. QED
    BY <2>1, <2>2, <2>3, <2>4 DEF CallOK, IdleOK, DoneOK
<1>7. \A d \in Calls \ {c} : Still(d)
  BY <1>2 DEF TypeOK, CallTypeOK, Still
<1>8. notifByKey[KeyOf(c)] # NoID
  BY <1>1, StoreConstants DEF RowOK
<1>9. QED
  BY <1>2, <1>3, <1>4, <1>5, <1>6, <1>7, <1>8, StepIInv

\* A recorded outcome has its cause: the row under row.ID has the call's key.
LEMMA OutcomeCaused ==
    ASSUME IInv, NEW c \in Calls
    PROVE  /\ pc[c] = "record" => rowID[c] \in IDs /\ receipt[c] \in Status /\ Caused(rowID[c], receipt[c])
           /\ pc[c] = "recordFailed" => rowID[c] \in IDs /\ Caused(rowID[c], "failed")
<1> USE DEF IInv
<1>1. CASE pc[c] \in {"record", "recordFailed"}
  <2>1. pc[c] \in InFlight /\ WalkOK(c) /\ RowOK(c) /\ OutcomeOK(c)
    BY <1>1 DEF CallOK, InFlight
  <2>2. KeyOf(c) \in Key /\ Kind(c) \in Channels /\ TargetOf(c) = <<KeyOf(c), Kind(c)>>
    BY <2>1, WalkTypes
  <2>3. rowID[c] \in IDs /\ notifByKey[KeyOf(c)] = rowID[c] /\ rowID[c] # NoID
    BY <1>1, <2>1, StoreConstants DEF RowOK
  <2>4. notifications[rowID[c]].key = KeyOf(c)
    BY <2>2, <2>3 DEF IndexConsistent
  <2>5. QED
    BY <1>1, <2>1, <2>2, <2>3, <2>4 DEF OutcomeOK, Caused, Status
<1>2. QED
  BY <1>1

\* The receipt is recorded and the call moves on.
LEMMA RecordIInv ==
    ASSUME IInv, NEW c \in Calls, Record(c)
    PROVE  IInv' /\ StoreStep
<1> USE DEF IInv
<1>1. pc[c] = "record" /\ pc[c] \in InFlight /\ WalkOK(c) /\ TargetOf(c) \in attempted
  BY DEF Record, InFlight, CallOK, OutcomeOK
<1>2. /\ UpdateStatus(Req(c).tenant, rowID[c], receipt[c], now)
      /\ res' = [res EXCEPT ![c].delivered = @ + 1]
      /\ Advance(c)
      /\ UNCHANGED <<now, req, chans, rowID, receipt, acking, history>>
  BY DEF Record
<1>3. StoreStep /\ HistoryGrows
  BY <1>1, <1>2, UpdateStep, OutcomeCaused DEF HistoryGrows, history
<1>4. CallTypeOK'
  <2>1. res' \in [Calls -> [delivered : Nat, pending : Nat, failed : Nat]]
    BY <1>2, CountType
  <2>2. QED
    BY <1>2, <2>1, AdvanceType DEF TypeOK, CallTypeOK, history
<1>5. CallOK(c)'
  BY <1>1, <1>2, AdvanceOK DEF history
<1>6. \A d \in Calls \ {c} : Still(d)
  BY <1>2, AdvanceType DEF TypeOK, CallTypeOK, Still
<1>7. QED
  BY <1>2, <1>3, <1>4, <1>5, <1>6, StepIInv DEF history

\* A failed update ends the call, applied or not.
LEMMA RecordFailsIInv ==
    ASSUME IInv, NEW c \in Calls, RecordFails(c)
    PROVE  IInv' /\ StoreStep
<1> USE DEF IInv
<1>1. /\ pc[c] = "record" /\ pc' = [pc EXCEPT ![c] = "error"]
      /\ UNCHANGED <<now, req, chans, pos, rowID, receipt, res, acking, history>>
      /\ UNCHANGED storeVars \/ UpdateStatus(Req(c).tenant, rowID[c], receipt[c], now)
  BY DEF RecordFails
<1>2. StoreStep
  BY <1>1, UpdateStep, OutcomeCaused DEF StoreStep
<1>3. CallTypeOK' /\ HistoryGrows
  BY <1>1 DEF TypeOK, CallTypeOK, HistoryGrows, history
<1>4. \A d \in Calls : Still(d)
  BY <1>1 DEF TypeOK, CallTypeOK, Still
<1>5. QED
  BY <1>1, <1>2, <1>3, <1>4, StepIInv DEF history

\* The failed status is recorded, or that is lost, and the call moves on.
LEMMA RecordFailureIInv ==
    ASSUME IInv, NEW c \in Calls, RecordFailure(c)
    PROVE  IInv' /\ StoreStep
<1> USE DEF IInv
<1>1. pc[c] = "recordFailed" /\ pc[c] \in InFlight /\ WalkOK(c) /\ TargetOf(c) \in attempted
  BY DEF RecordFailure, InFlight, CallOK, OutcomeOK
<1>2. /\ UNCHANGED storeVars \/ UpdateStatus(Req(c).tenant, rowID[c], "failed", now)
      /\ Advance(c)
      /\ UNCHANGED <<now, req, chans, rowID, receipt, res, acking, history>>
  BY DEF RecordFailure
<1>3. StoreStep
  <2>1. "failed" \in Status
    BY DEF Status
  <2>2. QED
    BY <1>1, <1>2, <2>1, UpdateStep, OutcomeCaused DEF StoreStep
<1>4. CallTypeOK' /\ HistoryGrows
  BY <1>2, AdvanceType DEF TypeOK, CallTypeOK, HistoryGrows, history
<1>5. CallOK(c)'
  BY <1>1, <1>2, AdvanceOK DEF history
<1>6. \A d \in Calls \ {c} : Still(d)
  BY <1>2, AdvanceType DEF TypeOK, CallTypeOK, Still
<1>7. QED
  BY <1>2, <1>3, <1>4, <1>5, <1>6, StepIInv DEF history

\* The lookup of AckNotification changes no row.
LEMMA AckLookupIInv ==
    ASSUME IInv, NEW a \in Ackers, NEW tenant \in Tenants, NEW user \in Users, NEW id \in IDs,
           AckLookup(a, tenant, user, id)
    PROVE  IInv' /\ StoreStep
<1> USE DEF IInv
<1>1. UNCHANGED <<storeVars, now, callVars, history>> /\ acking' = [acking EXCEPT ![a] = <<tenant, id>>]
  BY DEF AckLookup
<1>2. CallTypeOK' /\ HistoryGrows /\ StoreStep
  BY <1>1 DEF TypeOK, CallTypeOK, HistoryGrows, StoreStep, callVars, history
<1>3. \A d \in Calls : Still(d)
  BY <1>1 DEF Still, callVars
<1>4. QED
  BY <1>1, <1>2, <1>3, StepIInv DEF history

\* AckNotification's update, whether it is reported or its answer is lost.
LEMMA AckStore ==
    ASSUME IInv, NEW a \in Ackers, acking[a] # <<>>,
           UpdateStatus(acking[a][1], acking[a][2], "read", now)
    PROVE  /\ acking[a][2] \in IDs
           /\ StoreStep
           /\ notifications'[acking[a][2]] # NoRow
           /\ notifications'[acking[a][2]].readAt # 0
<1> USE DEF IInv
<1> DEFINE id == acking[a][2]
<1>1. id \in IDs /\ now \in 1..MaxTime /\ "read" \in Status
  BY DEF TypeOK, CallTypeOK, Status
<1>2. notifications[id] \in Row /\ notifications'[id] = Stamped(notifications[id], "read", now)
  BY <1>1 DEF UpdateStatus, TypeOK, StoreTypeOK
<1>3. notifications'[id] \in Row /\ notifications'[id].readAt # 0
  BY <1>1, <1>2, StampedType
<1>4. Caused(id, "read")
  BY DEF Caused
<1>5. QED
  BY <1>1, <1>3, <1>4, UpdateStep, StoreConstants

\* An acknowledgement leaves a read stamp behind.
LEMMA AckUpdateIInv ==
    ASSUME IInv, NEW a \in Ackers, AckUpdate(a)
    PROVE  IInv' /\ StoreStep
<1> USE DEF IInv
<1>1. /\ acking[a] # <<>> /\ acking' = [acking EXCEPT ![a] = <<>>]
      /\ UpdateStatus(acking[a][1], acking[a][2], "read", now)
      /\ acked' = acked \cup {acking[a][2]}
      /\ UNCHANGED <<now, callVars, attempted, accepts, errored>>
  BY DEF AckUpdate
<1>2. /\ acking[a][2] \in IDs
      /\ StoreStep
      /\ notifications'[acking[a][2]] # NoRow
      /\ notifications'[acking[a][2]].readAt # 0
  BY <1>1, AckStore
<1>3. CallTypeOK' /\ HistoryGrows
  BY <1>1, <1>2 DEF TypeOK, CallTypeOK, HistoryGrows, callVars
<1>4. \A d \in Calls : Still(d)
  BY <1>1 DEF Still, callVars
<1>5. QED
  BY <1>1, <1>2, <1>3, <1>4, StepIInv

\* An acknowledgement that fails may have been applied.
LEMMA AckFailsIInv ==
    ASSUME IInv, NEW a \in Ackers, AckFails(a)
    PROVE  IInv' /\ StoreStep
<1> USE DEF IInv
<1>1. /\ acking[a] # <<>> /\ acking' = [acking EXCEPT ![a] = <<>>]
      /\ UNCHANGED storeVars \/ UpdateStatus(acking[a][1], acking[a][2], "read", now)
      /\ UNCHANGED <<now, callVars, history>>
  BY DEF AckFails
<1>2. StoreStep
  BY <1>1, AckStore DEF StoreStep
<1>3. CallTypeOK' /\ HistoryGrows
  BY <1>1 DEF TypeOK, CallTypeOK, HistoryGrows, callVars, history
<1>4. \A d \in Calls : Still(d)
  BY <1>1 DEF Still, callVars
<1>5. QED
  BY <1>1, <1>2, <1>3, <1>4, StepIInv DEF history

\* A crash turns calls in flight into lost ones; the clock moves on.
LEMMA EnvironmentIInv ==
    ASSUME IInv, Crash \/ Tick
    PROVE  IInv' /\ StoreStep
<1> USE DEF IInv
<1>1. UNCHANGED <<storeVars, req, chans, pos, rowID, receipt, res, history>>
  BY DEF Crash, Tick, callVars
<1>2. CallTypeOK'
  <2>1. CASE Crash
    BY <2>1 DEF Crash, TypeOK, CallTypeOK, InFlight, history
  <2>2. CASE Tick
    BY <2>2, ModelConstants DEF Tick, TypeOK, CallTypeOK, callVars, history
  <2>3. QED
    BY <2>1, <2>2
<1>3. \A d \in Calls : Still(d)
  BY <1>1 DEF Crash, Tick, Still, callVars
<1>4. HistoryGrows /\ StoreStep
  BY <1>1 DEF HistoryGrows, StoreStep, history
<1>5. QED
  BY <1>1, <1>2, <1>3, <1>4, StepIInv DEF history

-----------------------------------------------------------------------------
(* Theorems.                                                               *)

\* Before any call the invariant holds.
LEMMA InitIInv == Init => IInv
<1> SUFFICES ASSUME Init PROVE IInv
  OBVIOUS
<1>1. TypeOK
  BY ModelConstants DEF Init, StoreInit, TypeOK, StoreTypeOK, CallTypeOK, NoResult, Status, InFlight
<1>2. QED
  BY <1>1 DEF Init, StoreInit, IInv, IndexConsistent, CallOK, IdleOK, WalkOK, RowOK, OutcomeOK,
     DoneOK, PersistBeforeSend, StatusHasCause, AckKeepsStamp, InFlight

\* One step per action.
LEMMA NextIInv == IInv /\ [Next]_vars => IInv' /\ StoreStep
<1> SUFFICES ASSUME IInv, [Next]_vars PROVE IInv' /\ StoreStep
  OBVIOUS
<1>1. CASE UNCHANGED vars
  <2>1. CallTypeOK' /\ HistoryGrows /\ StoreStep
    BY <1>1 DEF vars, IInv, TypeOK, CallTypeOK, HistoryGrows, StoreStep, callVars, history
  <2>2. \A d \in Calls : Still(d)
    BY <1>1 DEF vars, Still, callVars
  <2>3. QED
    BY <1>1, <2>1, <2>2, StepIInv DEF vars, history
<1>2. QED
  BY <1>1, StartIInv, CreateIInv, CreateFailsIInv, SendIInv, SendFailsIInv, RecordIInv,
     RecordFailsIInv, RecordFailureIInv, AckLookupIInv, AckUpdateIInv, AckFailsIInv,
     EnvironmentIInv DEF Next

\* Every variable of the fan-out and of the store keeps its type.
THEOREM TypeCorrect == Spec => []TypeOK
<1>1. IInv => TypeOK
  BY DEF IInv
<1>2. QED
  BY <1>1, InitIInv, NextIInv, PTL DEF Spec

\* However calls, acknowledgements, failures and crashes interleave, the
\* store's two maps agree: an idempotency key names at most one row.
THEOREM IndexAgrees == Spec => []IndexConsistent
<1>1. IInv => IndexConsistent
  BY DEF IInv
<1>2. QED
  BY <1>1, InitIInv, NextIInv, PTL DEF Spec

\* No provider is ever handed a notification whose row is not stored.
THEOREM PersistedBeforeSent == Spec => []PersistBeforeSend
<1>1. IInv => PersistBeforeSend
  BY DEF IInv
<1>2. QED
  BY <1>1, InitIInv, NextIInv, PTL DEF Spec

\* A Notify call that succeeds has handed every deliverable target to its
\* provider, whatever happened to earlier calls with the same key.
THEOREM SuccessMeansAttempted == Spec => []CompletedWasAttempted
<1>1. IInv => CompletedWasAttempted
  BY DEF IInv, CallOK, DoneOK, CompletedWasAttempted
<1>2. QED
  BY <1>1, InitIInv, NextIInv, PTL DEF Spec

\* A stored status of delivered or failed is some provider's answer for the row.
THEOREM StatusExplained == Spec => []StatusHasCause
<1>1. IInv => StatusHasCause
  BY DEF IInv
<1>2. QED
  BY <1>1, InitIInv, NextIInv, PTL DEF Spec

\* A successful acknowledgement is never erased.
THEOREM AckPersists == Spec => []AckKeepsStamp
<1>1. IInv => AckKeepsStamp
  BY DEF IInv
<1>2. QED
  BY <1>1, InitIInv, NextIInv, PTL DEF Spec

-----------------------------------------------------------------------------
(* The store seen through its index implements the contract.               *)

\* A store step is a step of the contract's mailbox, or leaves it alone: an
\* insert shows under its own key only, a restamp under its row's key only.
LEMMA StoreStepSimulates ==
    ASSUME StoreTypeOK, IndexConsistent, StoreStep
    PROVE  [Contract!Next]_Mailbox
<1> USE StoreConstants, ModelConstants
<1>1. CASE UNCHANGED storeVars
  BY <1>1 DEF storeVars, Mailbox
<1>2. ASSUME NEW k \in Key, NEW kind \in Channels, NEW at \in 1..MaxTime, NEW id \in IDs,
             Inserted(k, kind, at, id)
      PROVE  Contract!Insert(k)
  <2>1. Mailbox[k] = NoRow
    BY <1>2 DEF Inserted, Mailbox
  <2>2. Mailbox' = [Mailbox EXCEPT ![k] = NewRow(k, kind, at)]
    <3>1. notifByKey'[k] = id /\ notifications'[id] = NewRow(k, kind, at)
      BY <1>2 DEF Inserted, StoreTypeOK
    <3>2. \A q \in Key : q # k => /\ notifByKey'[q] = notifByKey[q]
                                  /\ notifByKey[q] # NoID => notifications'[notifByKey[q]] = notifications[notifByKey[q]]
      BY <1>2 DEF Inserted, StoreTypeOK, IndexConsistent
    <3>3. QED
      BY <3>1, <3>2 DEF Mailbox
  <2>3. at \in Stamp
    BY DEF Stamp
  <2>4. QED
    BY <2>1, <2>2, <2>3 DEF Contract!Insert, Contract!NewRow, NewRow, Contract!Stamp, Stamp
<1>3. ASSUME NEW id \in IDs, NEW status \in Status, NEW at \in 1..MaxTime, Restamped(id, status, at)
      PROVE  \E k \in Key : Contract!SetStatus(k)
  <2> DEFINE k == notifications[id].key
  <2>1. notifications[id] \in Row /\ k \in Key /\ notifByKey[k] = id
    BY <1>3 DEF Restamped, StoreTypeOK, IndexConsistent, Row
  <2>2. Mailbox[k] = notifications[id] /\ Mailbox[k] # NoRow
    BY <1>3, <2>1 DEF Restamped, Mailbox
  <2>3. Mailbox' = [Mailbox EXCEPT ![k] = Stamped(Mailbox[k], status, at)]
    <3>1. notifByKey' = notifByKey /\ notifications'[id] = Stamped(notifications[id], status, at)
      BY <1>3 DEF Restamped, StoreTypeOK
    <3>2. \A q \in Key : q # k /\ notifByKey[q] # NoID =>
             notifications'[notifByKey[q]] = notifications[notifByKey[q]]
      BY <1>3, <2>1 DEF Restamped, StoreTypeOK, IndexConsistent
    <3> HIDE DEF k
    <3>3. QED
      BY <2>1, <2>2, <3>1, <3>2 DEF Mailbox
  <2>4. at \in Stamp
    BY DEF Stamp
  <2> HIDE DEF k
  <2>5. Contract!SetStatus(k)
    BY <2>2, <2>3, <2>4
       DEF Contract!SetStatus, Contract!Stamped, Stamped, Contract!Stamp, Stamp, Contract!Status, Status
  <2>6. QED
    BY <2>1, <2>5
<1>4. QED
  BY <1>1, <1>2, <1>3 DEF StoreStep, Contract!Next, Contract!Key, Key

\* Notify, its retries and AckNotification use the store as the contract's
\* mailbox: a row per key, inserted once, then only restamped.
THEOREM StoreRefinesContract == Spec => ImplementsContract
<1>1. Init => Contract!Init
  BY DEF Init, StoreInit, Mailbox, Contract!Init, Contract!Key, Key
<1>2. IInv /\ [Next]_vars => [Contract!Next]_Mailbox
  BY NextIInv, StoreStepSimulates DEF IInv, TypeOK
<1>3. QED
  BY <1>1, <1>2, InitIInv, NextIInv, PTL DEF Spec, ImplementsContract, Contract!Spec
-----------------------------------------------------------------------------
(* The counters of the result.                                             *)

Tally(c) == res[c].delivered + res[c].pending + res[c].failed

\* How many targets are behind a call's position.
Passed(c) == (pos[c][1] - 1) * Len(chans[c]) + (pos[c][2] - 1)

\* Every target behind the position was counted once; a failed send is counted
\* before it is recorded, the other outcomes as they are.
TallyOK(c) ==
    /\ pc[c] = "idle" => Tally(c) = 0
    /\ pc[c] \in {"create", "send", "record"} => Tally(c) = Passed(c)
    /\ pc[c] = "recordFailed" => Tally(c) = Passed(c) + 1
    /\ pc[c] = "done" => Tally(c) = Len(Req(c).users) * Len(chans[c])

\* Counting adds one to the tally of the call that counts.
LEMMA CountTally ==
    ASSUME TypeOK, NEW c \in Calls,
           \/ res' = [res EXCEPT ![c].delivered = @ + 1]
           \/ res' = [res EXCEPT ![c].pending = @ + 1]
           \/ res' = [res EXCEPT ![c].failed = @ + 1]
    PROVE  Tally(c)' = Tally(c) + 1 /\ \A d \in Calls \ {c} : res'[d] = res[d]
<1>1. res \in [Calls -> [delivered : Nat, pending : Nat, failed : Nat]]
  BY DEF TypeOK, CallTypeOK
<1>2. CASE res' = [res EXCEPT ![c].delivered = @ + 1]
  BY <1>1, <1>2 DEF Tally
<1>3. CASE res' = [res EXCEPT ![c].pending = @ + 1]
  BY <1>1, <1>3 DEF Tally
<1>4. CASE res' = [res EXCEPT ![c].failed = @ + 1]
  BY <1>1, <1>4 DEF Tally
<1>5. QED
  BY <1>2, <1>3, <1>4

\* A call that advances with its target counted keeps its tally.
LEMMA AdvanceTally ==
    ASSUME TypeOK, NEW c \in Calls, WalkOK(c), pc[c] \in InFlight, Advance(c),
           UNCHANGED <<req, chans>>, Tally(c)' = Passed(c) + 1
    PROVE  TallyOK(c)'
<1> DEFINE i0 == pos[c][1]
           j0 == pos[c][2]
           m == Len(Req(c).users)
           n == Len(chans[c])
<1>1. i0 \in 1..m /\ j0 \in 1..n /\ m \in Nat /\ n \in Nat
  <2>1. Req(c).users \in Seq(Users) /\ chans[c] \in Seq(Channels)
    BY WalkTypes DEF TypeOK, CallTypeOK
  <2>2. QED
    BY <2>1 DEF WalkOK
<1>2. Len(Req(c).users)' = m /\ Len(chans[c])' = n
  BY DEF Req, The
<1>3. pos'[c] = NextPos(c) /\ pc'[c] = IF NextPos(c)[1] > m THEN "done" ELSE "create"
  BY DEF Advance, TypeOK, CallTypeOK
<1>4. Tally(c)' = (i0 - 1) * n + j0
  BY <1>1 DEF Passed
<1>5. NextPos(c) = IF j0 < n THEN <<i0, j0 + 1>> ELSE <<i0 + 1, 1>>
  BY DEF NextPos
<1>6. Passed(c)' = (pos'[c][1] - 1) * n + (pos'[c][2] - 1)
  BY <1>2 DEF Passed
<1> HIDE DEF i0, j0, m, n
<1>7. CASE j0 < n
  <2>1. pos'[c][1] = i0 /\ pos'[c][2] = j0 + 1 /\ pc'[c] = "create"
    BY <1>1, <1>3, <1>5, <1>7
  <2>2. Passed(c)' = (i0 - 1) * n + j0
    BY <1>1, <1>6, <2>1
  <2>3. QED
    BY <1>4, <2>1, <2>2 DEF TallyOK
<1>8. CASE j0 = n
  <2>1. NextPos(c) = <<i0 + 1, 1>>
    BY <1>1, <1>5, <1>8
  <2>2. Tally(c)' = i0 * n
    BY <1>1, <1>4, <1>8
  <2>3. CASE i0 = m
    <3>1. pc'[c] = "done"
      BY <1>1, <1>3, <2>1, <2>3
    <3>2. QED
      BY <1>2, <2>2, <2>3, <3>1 DEF TallyOK
  <2>4. CASE i0 < m
    <3>1. pc'[c] = "create" /\ pos'[c][1] = i0 + 1 /\ pos'[c][2] = 1
      BY <1>1, <1>3, <2>1, <2>4
    <3>2. Passed(c)' = i0 * n
      BY <1>1, <1>6, <3>1
    <3>3. QED
      BY <2>2, <3>1, <3>2 DEF TallyOK
  <2>5. QED
    BY <1>1, <2>3, <2>4
<1>9. QED
  BY <1>1, <1>7, <1>8

\* A call that keeps its place and its result keeps its tally.
LEMMA StillTally ==
    ASSUME NEW d \in Calls, Still(d), res'[d] = res[d], TallyOK(d)
    PROVE  TallyOK(d)'
<1>1. Tally(d)' = Tally(d) /\ Passed(d)' = Passed(d) /\ Req(d)' = Req(d) /\ chans'[d] = chans[d]
  BY DEF Still, Tally, Passed, Req, The
<1>2. QED
  BY <1>1 DEF TallyOK, Still

\* One step per action: the call that counts, and every other call.
LEMMA NextTally ==
    ASSUME IInv, \A c \in Calls : TallyOK(c), [Next]_vars
    PROVE  \A c \in Calls : TallyOK(c)'
<1> USE DEF IInv
<1>1. ASSUME NEW c \in Calls, NEW r \in Requests, Start(c, r)
      PROVE  \A d \in Calls : TallyOK(d)'
  <2>1. PICK ks \in Resolved(r) : /\ chans' = [chans EXCEPT ![c] = ks]
                                  /\ pc' = [pc EXCEPT ![c] = IF ks = <<>> THEN "done" ELSE "create"]
    BY <1>1 DEF Start
  <2>2. ks \in Seq(Channels) /\ r.users \in Seq(Users)
    BY ResolvedType, NotifierConstants DEF Request
  <2>3. /\ UNCHANGED <<pos, rowID, receipt, res>> /\ req' = [req EXCEPT ![c] = {r}]
        /\ Tally(c) = 0 /\ pos[c] = <<1, 1>>
    BY <1>1 DEF Start, TallyOK, CallOK, IdleOK
  <2>4. /\ Tally(c)' = 0 /\ Req(c)' = r /\ chans'[c] = ks
        /\ pc'[c] = IF ks = <<>> THEN "done" ELSE "create"
    BY <2>1, <2>3 DEF Tally, TypeOK, CallTypeOK, Req, The
  <2>5. Passed(c)' = 0
    BY <2>2, <2>3, <2>4 DEF Passed
  <2>6. ks = <<>> => Len(r.users) * Len(ks) = 0
    BY <2>2
  <2>7. TallyOK(c)'
    BY <2>4, <2>5, <2>6 DEF TallyOK
  <2>8. \A d \in Calls \ {c} : Still(d) /\ res'[d] = res[d]
    BY <2>1, <2>3 DEF TypeOK, CallTypeOK, Still
  <2>9. QED
    BY <2>7, <2>8, StillTally
<1>2. ASSUME NEW c \in Calls, Create(c)
      PROVE  \A d \in Calls : TallyOK(d)'
  <2>1. pc[c] = "create" /\ pc[c] \in InFlight /\ WalkOK(c) /\ Tally(c) = Passed(c)
    BY <1>2 DEF Create, InFlight, CallOK, TallyOK
  <2>2. UNCHANGED <<req, chans, receipt>> /\ \E id \in IDs : rowID' = [rowID EXCEPT ![c] = id]
    BY <1>2 DEF Create
  <2>3. CASE pc' = [pc EXCEPT ![c] = "send"] /\ UNCHANGED <<pos, res>>
    <3>1. TallyOK(c)'
      BY <2>1, <2>2, <2>3 DEF TallyOK, Tally, Passed, TypeOK, CallTypeOK
    <3>2. \A d \in Calls \ {c} : Still(d) /\ res'[d] = res[d]
      BY <2>2, <2>3 DEF TypeOK, CallTypeOK, Still
    <3>3. QED
      BY <3>1, <3>2, StillTally
  <2>4. CASE res' = [res EXCEPT ![c].pending = @ + 1] /\ Advance(c)
    <3>1. TallyOK(c)'
      BY <2>1, <2>2, <2>4, CountTally, AdvanceTally
    <3>2. \A d \in Calls \ {c} : Still(d) /\ res'[d] = res[d]
      BY <2>2, <2>4, CountTally, AdvanceType DEF TypeOK, CallTypeOK, Still
    <3>3. QED
      BY <3>1, <3>2, StillTally
  <2>5. QED
    BY <1>2, <2>3, <2>4 DEF Create
<1>3. ASSUME NEW c \in Calls, Send(c)
      PROVE  \A d \in Calls : TallyOK(d)'
  <2>1. /\ UNCHANGED <<req, chans, pos, rowID, res>> /\ pc[c] = "send" /\ pc' = [pc EXCEPT ![c] = "record"]
        /\ \E v : receipt' = [receipt EXCEPT ![c] = v]
    BY <1>3 DEF Send
  <2>2. TallyOK(c)'
    BY <2>1 DEF TallyOK, Tally, Passed, TypeOK, CallTypeOK
  <2>3. \A d \in Calls \ {c} : Still(d) /\ res'[d] = res[d]
    BY <2>1 DEF TypeOK, CallTypeOK, Still
  <2>4. QED
    BY <2>2, <2>3, StillTally
<1>4. ASSUME NEW c \in Calls, SendFails(c)
      PROVE  \A d \in Calls : TallyOK(d)'
  <2>1. /\ UNCHANGED <<req, chans, pos, rowID, receipt>> /\ pc[c] = "send"
        /\ pc' = [pc EXCEPT ![c] = "recordFailed"]
        /\ res' = [res EXCEPT ![c].failed = @ + 1]
    BY <1>4 DEF SendFails
  <2>2. Tally(c)' = Passed(c) + 1 /\ Passed(c)' = Passed(c)
    BY <2>1, CountTally DEF TallyOK, Passed
  <2>3. TallyOK(c)'
    BY <2>1, <2>2 DEF TallyOK, TypeOK, CallTypeOK
  <2>4. \A d \in Calls \ {c} : Still(d) /\ res'[d] = res[d]
    BY <2>1, CountTally DEF TypeOK, CallTypeOK, Still
  <2>5. QED
    BY <2>3, <2>4, StillTally
<1>5. ASSUME NEW c \in Calls, Record(c)
      PROVE  \A d \in Calls : TallyOK(d)'
  <2>1. /\ UNCHANGED <<req, chans, rowID, receipt>> /\ Advance(c)
        /\ res' = [res EXCEPT ![c].delivered = @ + 1]
    BY <1>5 DEF Record
  <2>2. pc[c] \in InFlight /\ WalkOK(c) /\ Tally(c) = Passed(c)
    BY <1>5 DEF Record, InFlight, CallOK, TallyOK
  <2>3. TallyOK(c)'
    BY <2>1, <2>2, CountTally, AdvanceTally
  <2>4. \A d \in Calls \ {c} : Still(d) /\ res'[d] = res[d]
    BY <2>1, CountTally, AdvanceType DEF TypeOK, CallTypeOK, Still
  <2>5. QED
    BY <2>3, <2>4, StillTally
<1>6. ASSUME NEW c \in Calls, RecordFailure(c)
      PROVE  \A d \in Calls : TallyOK(d)'
  <2>1. UNCHANGED <<req, chans, rowID, receipt, res>> /\ Advance(c)
    BY <1>6 DEF RecordFailure
  <2>2. pc[c] \in InFlight /\ WalkOK(c) /\ Tally(c)' = Passed(c) + 1
    BY <1>6, <2>1 DEF RecordFailure, InFlight, CallOK, TallyOK, Tally
  <2>3. TallyOK(c)'
    BY <2>1, <2>2, AdvanceTally
  <2>4. \A d \in Calls \ {c} : Still(d) /\ res'[d] = res[d]
    BY <2>1, AdvanceType DEF TypeOK, CallTypeOK, Still
  <2>5. QED
    BY <2>3, <2>4, StillTally
<1>7. ASSUME UNCHANGED <<req, chans, pos, rowID, receipt, res>>,
             \A d \in Calls : pc'[d] = pc[d] \/ pc'[d] = "error"
      PROVE  \A d \in Calls : TallyOK(d)'
  BY <1>7, StillTally DEF Still
<1>8. ASSUME NEW c \in Calls, CreateFails(c) \/ RecordFails(c)
      PROVE  \A d \in Calls : TallyOK(d)'
  <2>1. /\ UNCHANGED <<req, chans, pos, rowID, receipt, res>>
        /\ pc' = [pc EXCEPT ![c] = "error"]
    BY <1>8 DEF CreateFails, RecordFails
  <2>2. \A d \in Calls : pc'[d] = pc[d] \/ pc'[d] = "error"
    BY <2>1 DEF TypeOK, CallTypeOK
  <2>3. QED
    BY <2>1, <2>2, <1>7
<1>9. ASSUME NEW a \in Ackers, AckUpdate(a) \/ AckFails(a)
      PROVE  \A d \in Calls : TallyOK(d)'
  BY <1>7, <1>9 DEF AckUpdate, AckFails, callVars
<1>10. ASSUME NEW a \in Ackers, NEW t, NEW u, NEW id, AckLookup(a, t, u, id)
       PROVE  \A d \in Calls : TallyOK(d)'
  BY <1>7, <1>10 DEF AckLookup, callVars
<1>11. CASE Crash
  BY <1>7, <1>11 DEF Crash
<1>12. CASE Tick
  BY <1>7, <1>12 DEF Tick, callVars
<1>13. CASE UNCHANGED vars
  BY <1>7, <1>13 DEF vars, callVars
<1>14. QED
  BY <1>1, <1>2, <1>3, <1>4, <1>5, <1>6, <1>8, <1>9, <1>10, <1>11, <1>12, <1>13 DEF Next

\* The counters of a successful result account for every (user, channel) once,
\* for any number of users and channels.
THEOREM TallyAccountsForAll == Spec => []TallyComplete
<1> DEFINE TInv == IInv /\ \A c \in Calls : TallyOK(c)
<1>1. Init => TInv
  <2>1. Init => \A c \in Calls : TallyOK(c)
    BY DEF Init, TallyOK, Tally, NoResult
  <2>2. QED
    BY <2>1, InitIInv
<1>2. TInv /\ [Next]_vars => TInv'
  BY NextIInv, NextTally
<1>3. TInv => TallyComplete
  BY DEF TallyOK, Tally, TallyComplete
<1>4. QED
  BY <1>1, <1>2, <1>3, PTL DEF Spec

-----------------------------------------------------------------------------
(* A call gets on.                                                         *)

\* Advance ends the call or moves it to a later user or channel.
LEMMA AdvanceGetsOn ==
    ASSUME TypeOK, NEW c \in Calls, Advance(c)
    PROVE  pc'[c] = "done" \/ (pc'[c] \in InFlight /\ GetsOn(c))
<1>1. /\ pos'[c] = NextPos(c) /\ pc'[c] \in {"done", "create"}
      /\ pos[c][1] \in Nat /\ pos[c][2] \in Nat
  BY DEF Advance, TypeOK, CallTypeOK
<1>2. GetsOn(c)
  BY <1>1 DEF NextPos, GetsOn
<1>3. QED
  BY <1>1, <1>2 DEF InFlight

\* A step of one call leaves the others where they are, and takes the call on.
LEMMA StepGetsOn ==
    ASSUME TypeOK, [Next]_vars, NEW d \in Calls, pc[d] \in InFlight
    PROVE  /\ \/ pc'[d] = pc[d] /\ pos'[d] = pos[d]
              \/ pc'[d] \in {"done", "error"}
              \/ pc'[d] \in InFlight /\ GetsOn(d)
           /\ req'[d] = req[d] /\ chans'[d] = chans[d]
<1> DEFINE Goal == /\ \/ pc'[d] = pc[d] /\ pos'[d] = pos[d]
                      \/ pc'[d] \in {"done", "error"}
                      \/ pc'[d] \in InFlight /\ GetsOn(d)
                   /\ req'[d] = req[d] /\ chans'[d] = chans[d]
<1>1. ASSUME NEW c \in Calls, NEW r \in Requests, Start(c, r) PROVE Goal
  <2>1. c # d
    BY <1>1 DEF Start, InFlight
  <2>2. PICK ks \in Resolved(r) : /\ chans' = [chans EXCEPT ![c] = ks]
                                  /\ pc' = [pc EXCEPT ![c] = IF ks = <<>> THEN "done" ELSE "create"]
    BY <1>1 DEF Start
  <2>3. pos' = pos /\ req' = [req EXCEPT ![c] = {r}]
    BY <1>1 DEF Start
  <2>4. QED
    BY <2>1, <2>2, <2>3 DEF TypeOK, CallTypeOK
<1>2. ASSUME NEW c \in Calls, Advance(c), UNCHANGED <<req, chans>> PROVE Goal
  BY <1>2, AdvanceGetsOn, AdvanceType
<1>3. ASSUME NEW c \in Calls, pos' = pos, UNCHANGED <<req, chans>>,
             \/ pc[c] = "create" /\ pc' = [pc EXCEPT ![c] = "send"]
             \/ pc[c] = "send" /\ pc' = [pc EXCEPT ![c] = "record"]
             \/ pc[c] = "send" /\ pc' = [pc EXCEPT ![c] = "recordFailed"]
             \/ pc' = [pc EXCEPT ![c] = "error"]
      PROVE  Goal
  <2>1. CASE c # d
    BY <1>3, <2>1 DEF TypeOK, CallTypeOK
  <2>2. CASE c = d
    <3>1. \/ pc[d] = "create" /\ pc'[d] = "send"
          \/ pc[d] = "send" /\ pc'[d] \in {"record", "recordFailed"}
          \/ pc'[d] = "error"
      BY <1>3, <2>2 DEF TypeOK, CallTypeOK
    <3>2. QED
      BY <1>3, <3>1 DEF GetsOn, Phase, InFlight
  <2>3. QED
    BY <2>1, <2>2
<1>4. ASSUME NEW c \in Calls, Create(c) PROVE Goal
  <2>1. CASE Sendable(Req(c), User(c), Kind(c))
    BY <1>3, <1>4, <2>1 DEF Create
  <2>2. CASE ~Sendable(Req(c), User(c), Kind(c))
    BY <1>2, <1>4, <2>2 DEF Create
  <2>3. QED
    BY <2>1, <2>2
<1>5. ASSUME NEW c \in Calls, CreateFails(c) \/ Send(c) \/ SendFails(c) \/ RecordFails(c) PROVE Goal
  <2>1. pos' = pos /\ UNCHANGED <<req, chans>>
    BY <1>5 DEF CreateFails, Send, SendFails, RecordFails
  <2>2. \/ pc[c] = "send" /\ pc' = [pc EXCEPT ![c] = "record"]
        \/ pc[c] = "send" /\ pc' = [pc EXCEPT ![c] = "recordFailed"]
        \/ pc' = [pc EXCEPT ![c] = "error"]
    BY <1>5 DEF CreateFails, Send, SendFails, RecordFails
  <2>3. QED
    BY <1>3, <2>1, <2>2
<1>6. ASSUME NEW c \in Calls, Record(c) \/ RecordFailure(c) PROVE Goal
  BY <1>2, <1>6 DEF Record, RecordFailure
<1>7. ASSUME UNCHANGED callVars PROVE Goal
  BY <1>7 DEF callVars
<1>8. ASSUME NEW a \in Ackers, AckUpdate(a) \/ AckFails(a) PROVE Goal
  BY <1>7, <1>8 DEF AckUpdate, AckFails
<1>9. ASSUME NEW a \in Ackers, NEW t, NEW u, NEW id, AckLookup(a, t, u, id) PROVE Goal
  BY <1>7, <1>9 DEF AckLookup
<1>10. CASE Crash
  BY <1>10 DEF Crash
<1>11. CASE Tick \/ UNCHANGED vars
  BY <1>7, <1>11 DEF Tick, vars
<1>12. QED
  BY <1>1, <1>4, <1>5, <1>6, <1>8, <1>9, <1>10, <1>11 DEF Next

\* For any lists of users and channels and any number of concurrent calls: a call
\* only gets on in its walk or ends, so that it ends after at most three steps per
\* (user, channel) if its store and provider calls return (notifier.go:89-135).
THEOREM CallsGetOn == Spec => WalkGetsOn
<1> DEFINE A == \A c \in Calls : pc[c] \in InFlight =>
                  /\ pos[c][1] \in 1..Len(Req(c).users) /\ pos[c][2] \in 1..Len(chans[c])
                  /\ \/ pc'[c] = pc[c] /\ pos'[c] = pos[c]
                     \/ pc'[c] \in {"done", "error"}
                     \/ pc'[c] \in InFlight /\ GetsOn(c)
                  /\ req'[c] = req[c] /\ chans'[c] = chans[c]
<1>1. IInv /\ [Next]_vars => [A]_vars
  <2> SUFFICES ASSUME IInv, [Next]_vars, NEW c \in Calls, pc[c] \in InFlight
               PROVE  /\ pos[c][1] \in 1..Len(Req(c).users) /\ pos[c][2] \in 1..Len(chans[c])
                      /\ \/ pc'[c] = pc[c] /\ pos'[c] = pos[c]
                         \/ pc'[c] \in {"done", "error"}
                         \/ pc'[c] \in InFlight /\ GetsOn(c)
                      /\ req'[c] = req[c] /\ chans'[c] = chans[c]
    OBVIOUS
  <2>1. pos[c][1] \in 1..Len(Req(c).users) /\ pos[c][2] \in 1..Len(chans[c])
    BY DEF IInv, CallOK, WalkOK
  <2>2. QED
    BY <2>1, StepGetsOn DEF IInv
<1>2. QED
  BY <1>1, InitIInv, NextIInv, PTL DEF Spec, WalkGetsOn
=============================================================================
