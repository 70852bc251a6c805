------------------------------ MODULE Notifier ------------------------------
(***************************************************************************)
(* Fan-out of notifications and their acknowledgement: Notifier.Notify     *)
(* (notifier.go) behind the internal Notify handler, and the client's      *)
(* AckNotification handler (internal/server/handlers.go), over a store.    *)
(*                                                                         *)
(* Notify calls run concurrently, each in its own request goroutine.  A    *)
(* call walks users x channels; creating the row, sending through the      *)
(* provider and recording the outcome are separate steps, because nothing  *)
(* is held between them.  Any store call may fail, with or without having  *)
(* been applied, and the process may crash; the stored rows survive, as    *)
(* they do in the durable stores.                                          *)
(***************************************************************************)
EXTENDS MemoryStore, Sequences, FiniteSets

CONSTANTS Calls,       \* Notify calls, a producer's retries among them
          Ackers,      \* AckNotification calls that may be in flight at once
          Requests,    \* the requests producers make
          Providers    \* channels with a provider in the ProviderRegistry

Unspecified == "unspecified"      \* DELIVERY_CHANNEL_UNSPECIFIED on the wire

Request == [tenant : Tenants, nid : NotificationIDs, users : Seq(Users),
            channels : Seq(Channels \cup {Unspecified}),
            addresses : [Users \X Channels -> {"absent", "empty", "given"}]]

\* notifyRequestFromProto drops unspecified channels.
Named(channels) == SelectSeq(channels, LAMBDA k : k # Unspecified)

\* The named kinds of a request are real channels: a fact about SelectSeq that
\* needs an induction over the list, so it is stated here for TLC to evaluate.
ASSUME NotifierConstants ==
    /\ \A r \in Requests : r \in Request /\ Named(r.channels) \in Seq(Channels)
    /\ Providers \subseteq Channels
    /\ IsFiniteSet(Providers)

VARIABLES
    now,        \* the clock, in 1..MaxTime
    pc,         \* call -> where it is in Notify
    req,        \* call -> the set holding its request
    chans,      \* call -> the resolved channel list
    pos,        \* call -> <<user index, channel index>> of the fan-out
    rowID,      \* call -> row.ID, as CreateNotification left it
    receipt,    \* call -> the status to record
    res,        \* call -> the NotifyResult so far
    acking,     \* acker -> <<tenant, id>> it looked up, or <<>>
    attempted,  \* history: (key, channel) handed to a provider
    accepts,    \* history: (key, channel) -> how often a provider took it
    errored,    \* history: keys for which a provider returned an error
    acked       \* history: ids whose AckNotification succeeded

callVars == <<pc, req, chans, pos, rowID, receipt, res>>
history == <<attempted, accepts, errored, acked>>
vars == <<storeVars, now, callVars, acking, history>>

Target == Key \X Channels
NoResult == [delivered |-> 0, pending |-> 0, failed |-> 0]

The(s) == CHOOSE x \in s : TRUE
Req(c) == The(req[c])
User(c) == Req(c).users[pos[c][1]]
Kind(c) == chans[c][pos[c][2]]
KeyOf(c) == <<Req(c).tenant, User(c), Req(c).nid>>
TargetOf(c) == <<KeyOf(c), Kind(c)>>

InFlight == {"create", "send", "record", "recordFailed"}

CallTypeOK ==
    /\ now \in 1..MaxTime
    /\ pc \in [Calls -> InFlight \cup {"idle", "done", "error"}]
    /\ req \in [Calls -> SUBSET Requests]
    /\ chans \in [Calls -> Seq(Channels)]
    /\ pos \in [Calls -> Nat \X Nat]
    /\ rowID \in [Calls -> IDs \cup {NoID}]
    /\ receipt \in [Calls -> Status]
    /\ res \in [Calls -> [delivered : Nat, pending : Nat, failed : Nat]]
    /\ acking \in [Ackers -> {<<>>} \cup (Tenants \X IDs)]
    /\ attempted \subseteq Target
    /\ accepts \in [Target -> Nat]
    /\ errored \subseteq Key
    /\ acked \subseteq IDs

TypeOK == StoreTypeOK /\ CallTypeOK

Init ==
    /\ StoreInit
    /\ now = 1
    /\ pc = [c \in Calls |-> "idle"]
    /\ req = [c \in Calls |-> {}]
    /\ chans = [c \in Calls |-> <<>>]
    /\ pos = [c \in Calls |-> <<1, 1>>]
    /\ rowID = [c \in Calls |-> NoID]
    /\ receipt = [c \in Calls |-> "pending"]
    /\ res = [c \in Calls |-> NoResult]
    /\ acking = [a \in Ackers |-> <<>>]
    /\ attempted = {}
    /\ accepts = [t \in Target |-> 0]
    /\ errored = {}
    /\ acked = {}

-----------------------------------------------------------------------------
(* The request.                                                            *)

\* ProviderRegistry.Enabled lists a map, in any order.
Enabled ==
    {s \in [1..Cardinality(Providers) -> Providers] :
        \A i, j \in DOMAIN s : i # j => s[i] # s[j]}

\* The channel lists Notify may walk: the named ones, or every enabled one.
Resolved(r) == IF Named(r.channels) # <<>> THEN {Named(r.channels)} ELSE Enabled

\* A provider is configured and addressFor returns a destination: an explicit
\* address wins, even an empty one; in-app defaults to the user id.
Sendable(r, user, kind) ==
    /\ kind \in Providers
    /\ \/ r.addresses[<<user, kind>>] = "given"
       \/ r.addresses[<<user, kind>>] = "absent" /\ kind = "in_app"

\* The receipt statuses of the channels' providers (in-app: inapp.go).
Receipts(kind) == IF kind = "in_app" THEN {"pending", "delivered"} ELSE {"delivered", ""}

Normalised(status) == IF status = "" THEN "delivered" ELSE status

-----------------------------------------------------------------------------
(* Notify.                                                                 *)

\* A valid request arrives: validateNotifyRequest refuses an empty user list.
Start(c, r) ==
    /\ pc[c] = "idle"
    /\ r.users # <<>>
    /\ req' = [req EXCEPT ![c] = {r}]
    /\ \E ks \in Resolved(r) :
         /\ chans' = [chans EXCEPT ![c] = ks]
         /\ pc' = [pc EXCEPT ![c] = IF ks = <<>> THEN "done" ELSE "create"]
    /\ UNCHANGED <<storeVars, now, pos, rowID, receipt, res, acking, history>>

\* The next (user, channel) of the two nested loops.
NextPos(c) == IF pos[c][2] < Len(chans[c]) THEN <<pos[c][1], pos[c][2] + 1>>
                                           ELSE <<pos[c][1] + 1, 1>>

Advance(c) ==
    /\ pos' = [pos EXCEPT ![c] = NextPos(c)]
    /\ pc' = [pc EXCEPT ![c] = IF NextPos(c)[1] > Len(Req(c).users) THEN "done" ELSE "create"]

\* Mutant: a row that already existed is not dispatched again.
CreateSkipsRepeats(c) ==
    /\ pc[c] = "create"
    /\ \E id \in IDs :
         /\ CreateNotification(NewRow(KeyOf(c), Kind(c), now), id)
         /\ rowID' = [rowID EXCEPT ![c] = id]
    /\ IF Sendable(Req(c), User(c), Kind(c)) /\ notifByKey[KeyOf(c)] = NoID
         THEN pc' = [pc EXCEPT ![c] = "send"] /\ UNCHANGED <<pos, res>>
         ELSE res' = [res EXCEPT ![c].pending = @ + 1] /\ Advance(c)
    /\ UNCHANGED <<now, req, chans, receipt, acking, history>>

\* The row is stored; without a provider or a destination it stays pending.
\* Notify ignores whether the row was created by this call.
Create(c) ==
    /\ pc[c] = "create"
    /\ \E id \in IDs :
         /\ CreateNotification(NewRow(KeyOf(c), Kind(c), now), id)
         /\ rowID' = [rowID EXCEPT ![c] = id]
    /\ IF Sendable(Req(c), User(c), Kind(c))
         THEN pc' = [pc EXCEPT ![c] = "send"] /\ UNCHANGED <<pos, res>>
         ELSE res' = [res EXCEPT ![c].pending = @ + 1] /\ Advance(c)
    /\ UNCHANGED <<now, req, chans, receipt, acking, history>>

\* Mutant: the error of CreateNotification is ignored.
CreateFailsUnnoticed(c) ==
    /\ pc[c] = "create"
    /\ Sendable(Req(c), User(c), Kind(c))
    /\ pc' = [pc EXCEPT ![c] = "send"]
    /\ UNCHANGED <<storeVars, now, req, chans, pos, rowID, receipt, res, acking, history>>

\* CreateNotification returns an error, applied or not: the call aborts.
CreateFails(c) ==
    /\ pc[c] = "create"
    /\ \/ UNCHANGED storeVars
       \/ \E id \in IDs : CreateNotification(NewRow(KeyOf(c), Kind(c), now), id)
    /\ pc' = [pc EXCEPT ![c] = "error"]
    /\ UNCHANGED <<now, req, chans, pos, rowID, receipt, res, acking, history>>

\* provider.Send returns a receipt.
Send(c) ==
    /\ pc[c] = "send"
    /\ attempted' = attempted \cup {TargetOf(c)}
    /\ \E status \in Receipts(Kind(c)) :
         /\ receipt' = [receipt EXCEPT ![c] = Normalised(status)]
         /\ accepts' = IF status = "pending" THEN accepts
                       ELSE [accepts EXCEPT ![TargetOf(c)] = @ + 1]
    /\ pc' = [pc EXCEPT ![c] = "record"]
    /\ UNCHANGED <<storeVars, now, req, chans, pos, rowID, res, acking, errored, acked>>

\* provider.Send returns an error.
SendFails(c) ==
    /\ pc[c] = "send"
    /\ attempted' = attempted \cup {TargetOf(c)}
    /\ errored' = errored \cup {KeyOf(c)}
    /\ res' = [res EXCEPT ![c].failed = @ + 1]
    /\ pc' = [pc EXCEPT ![c] = "recordFailed"]
    /\ UNCHANGED <<storeVars, now, req, chans, pos, rowID, receipt, acking, accepts, acked>>

\* Mutant: the receipt's empty status is stored as it is.
RecordRaw(c) ==
    /\ pc[c] = "record"
    /\ UpdateStatus(Req(c).tenant, rowID[c], "", now)
    /\ res' = [res EXCEPT ![c].delivered = @ + 1]
    /\ Advance(c)
    /\ UNCHANGED <<now, req, chans, rowID, receipt, acking, history>>

\* Mutant: the delivered counter is forgotten.
RecordUncounted(c) ==
    /\ pc[c] = "record"
    /\ UpdateStatus(Req(c).tenant, rowID[c], receipt[c], now)
    /\ Advance(c)
    /\ UNCHANGED <<now, req, chans, rowID, receipt, res, acking, history>>

Record(c) ==
    /\ pc[c] = "record"
    /\ UpdateStatus(Req(c).tenant, rowID[c], receipt[c], now)
    /\ res' = [res EXCEPT ![c].delivered = @ + 1]
    /\ Advance(c)
    /\ UNCHANGED <<now, req, chans, rowID, receipt, acking, history>>

\* The store's error aborts the call, with the message already sent.
RecordFails(c) ==
    /\ pc[c] = "record"
    /\ \/ UNCHANGED storeVars
       \/ UpdateStatus(Req(c).tenant, rowID[c], receipt[c], now)
    /\ pc' = [pc EXCEPT ![c] = "error"]
    /\ UNCHANGED <<now, req, chans, pos, rowID, receipt, res, acking, history>>

\* Mutant: a failed send is tried again until the provider takes it.
RecordFailureResends(c) ==
    /\ pc[c] = "recordFailed"
    /\ pc' = [pc EXCEPT ![c] = "send"]
    /\ res' = [res EXCEPT ![c].failed = 0]
    /\ UNCHANGED <<storeVars, now, req, chans, pos, rowID, receipt, acking, history>>

\* Mutant: the failed send is recorded as delivered.
RecordFailureAsDelivered(c) ==
    /\ pc[c] = "recordFailed"
    /\ UpdateStatus(Req(c).tenant, rowID[c], "delivered", now)
    /\ Advance(c)
    /\ UNCHANGED <<now, req, chans, rowID, receipt, res, acking, history>>

\* The failed status is written, or not: that error is dropped.
RecordFailure(c) ==
    /\ pc[c] = "recordFailed"
    /\ \/ UpdateStatus(Req(c).tenant, rowID[c], "failed", now)
       \/ UNCHANGED storeVars
    /\ Advance(c)
    /\ UNCHANGED <<now, req, chans, rowID, receipt, res, acking, history>>

-----------------------------------------------------------------------------
(* AckNotification: a lookup scoped to the caller, then the update.        *)

AckLookup(a, tenant, user, id) ==
    /\ acking[a] = <<>>
    /\ GetFinds(tenant, user, id)
    /\ acking' = [acking EXCEPT ![a] = <<tenant, id>>]
    /\ UNCHANGED <<storeVars, now, callVars, history>>

AckUpdate(a) ==
    /\ acking[a] # <<>>
    /\ UpdateStatus(acking[a][1], acking[a][2], "read", now)
    /\ acked' = acked \cup {acking[a][2]}
    /\ acking' = [acking EXCEPT ![a] = <<>>]
    /\ UNCHANGED <<now, callVars, attempted, accepts, errored>>

AckFails(a) ==
    /\ acking[a] # <<>>
    /\ \/ UNCHANGED storeVars
       \/ UpdateStatus(acking[a][1], acking[a][2], "read", now)
    /\ acking' = [acking EXCEPT ![a] = <<>>]
    /\ UNCHANGED <<now, callVars, history>>

-----------------------------------------------------------------------------
\* The process dies: every request in flight is lost, the rows are not.
Crash ==
    /\ pc' = [c \in Calls |-> IF pc[c] \in InFlight THEN "error" ELSE pc[c]]
    /\ acking' = [a \in Ackers |-> <<>>]
    /\ UNCHANGED <<storeVars, now, req, chans, pos, rowID, receipt, res, history>>

Tick ==
    /\ now < MaxTime
    /\ now' = now + 1
    /\ UNCHANGED <<storeVars, callVars, acking, history>>

Next ==
    \/ \E c \in Calls, r \in Requests : Start(c, r)
    \/ \E c \in Calls : Create(c)
    \/ \E c \in Calls : CreateFails(c)
    \/ \E c \in Calls : Send(c)
    \/ \E c \in Calls : SendFails(c)
    \/ \E c \in Calls : Record(c)
    \/ \E c \in Calls : RecordFails(c)
    \/ \E c \in Calls : RecordFailure(c)
    \/ \E a \in Ackers, t \in Tenants, u \in Users, id \in IDs : AckLookup(a, t, u, id)
    \/ \E a \in Ackers : AckUpdate(a)
    \/ \E a \in Ackers : AckFails(a)
    \/ Crash
    \/ Tick

Spec == Init /\ [][Next]_vars

-----------------------------------------------------------------------------
(* Properties.                                                             *)

TargetAt(c, i, j) == <<<<Req(c).tenant, Req(c).users[i], Req(c).nid>>, chans[c][j]>>

\* A provider is only handed a notification whose row is stored: a crash after
\* the send cannot leave a delivered message without a row (notifier.go:103-114).
PersistBeforeSend == \A t \in attempted : notifByKey[t[1]] # NoID

\* Notify returns success only after every (user, channel) with a provider and
\* a destination was handed to it, also when an earlier call with the same
\* idempotency key stored the row and then crashed or failed (notifier.go:89-135).
CompletedWasAttempted ==
    \A c \in Calls : pc[c] = "done" =>
        \A i \in 1..Len(Req(c).users), j \in 1..Len(chans[c]) :
            Sendable(Req(c), Req(c).users[i], chans[c][j]) => TargetAt(c, i, j) \in attempted

\* The counters of a successful NotifyResult account for every (user, channel)
\* exactly once (notifier.go:68-75).
TallyComplete ==
    \A c \in Calls : pc[c] = "done" =>
        res[c].delivered + res[c].pending + res[c].failed = Len(Req(c).users) * Len(chans[c])

\* A stored status always has its cause, whichever calls raced to write it:
\* delivered needs a provider that took the message over some channel, failed
\* one that returned an error (model.go:38-45).
StatusHasCause ==
    \A id \in IDs : notifications[id] # NoRow =>
        LET row == notifications[id]
        IN  /\ row.status = "delivered" => \E kind \in Channels : accepts[<<row.key, kind>>] > 0
            /\ row.status = "failed" => row.key \in errored

\* A successful AckNotification leaves its read stamp for good: neither a
\* producer's retry of the same key nor a late delivery status erases it.
AckKeepsStamp == \A id \in acked : notifications[id] # NoRow /\ notifications[id].readAt # 0

\* How far a call is with the target at hand.
Phase(c) == IF pc[c] = "create" THEN 1 ELSE IF pc[c] = "send" THEN 2 ELSE 3

\* The call gets on in its walk: a later user, channel or step.
GetsOn(c) ==
    \/ pos'[c][1] > pos[c][1]
    \/ pos'[c][1] = pos[c][1] /\ pos'[c][2] > pos[c][2]
    \/ pos'[c] = pos[c] /\ Phase(c)' > Phase(c)

\* A Notify call in flight is at a target of its request and only ever gets on from
\* there, or ends, whichever of its store and provider calls fail and whatever
\* other calls, clients and crashes do meanwhile: it hands no entry of its lists to
\* a provider twice and ends after at most three steps per (user, channel)
\* (notifier.go:89-135).
WalkGetsOn ==
    [][\A c \in Calls : pc[c] \in InFlight =>
          /\ pos[c][1] \in 1..Len(Req(c).users) /\ pos[c][2] \in 1..Len(chans[c])
          /\ \/ pc'[c] = pc[c] /\ pos'[c] = pos[c]
             \/ pc'[c] \in {"done", "error"}
             \/ pc'[c] \in InFlight /\ GetsOn(c)
          /\ req'[c] = req[c] /\ chans'[c] = chans[c]]_vars

\* Seen through the index, Notify and AckNotification treat the store as the
\* contract's mailbox: one row per key, inserted once, then only re-stamped.
ImplementsContract == Contract!Spec

\* introduction.astro:54-55, retries "never duplicate stored rows or provider
\* dispatches"; notify.proto:88-89, they "do not duplicate deliveries".
NoDuplicateDelivery == \A t \in Target : accepts[t] <= 1
=============================================================================
