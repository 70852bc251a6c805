-------------------------- MODULE NotificationModel --------------------------
(***************************************************************************)
(* The stored notification row: model.go and the UpdateStatus clause of    *)
(* the Store contract, store.go.  Opaque payload (subject, title, body) is *)
(* left out: it is stored once and never interpreted.                      *)
(***************************************************************************)
EXTENDS Naturals

CONSTANTS Tenants,
          Users,
          NotificationIDs,   \* the producers' idempotency keys
          Channels,          \* ChannelKind values, "in_app" among them
          MaxTime            \* bound: the clock runs over 1..MaxTime

ASSUME ModelConstants ==
    /\ "in_app" \in Channels
    /\ MaxTime \in Nat \ {0}

Status == {"pending", "delivered", "acked", "read", "failed"}

\* (TenantID, UserID, NotificationID) is unique.
Key == Tenants \X Users \X NotificationIDs

Stamp == 0..MaxTime                 \* 0: never stamped

Row == [key : Key, channel : Channels, status : Status, createdAt : Stamp,
        deliveredAt : Stamp, ackAt : Stamp, readAt : Stamp]

\* The row Notify builds for one (user, channel).
NewRow(key, kind, at) ==
    [key |-> key, channel |-> kind, status |-> "pending", createdAt |-> at,
     deliveredAt |-> 0, ackAt |-> 0, readAt |-> 0]

\* The row after UpdateStatus: the status is set whatever it was, and the
\* timestamp that matches the new status is stamped.
Stamped(row, status, at) ==
    [row EXCEPT !.status = status,
                !.deliveredAt = IF status = "delivered" THEN at ELSE @,
                !.ackAt = IF status = "acked" THEN at ELSE @,
                !.readAt = IF status = "read" THEN at ELSE @]
=============================================================================
