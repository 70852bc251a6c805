----------------------------- MODULE MCNotifier -----------------------------
(* Model-checking instances of Notifier: the requests producers make.       *)
EXTENDS Notifier, TLC

NoAddress == [p \in Users \X Channels |-> "absent"]
WithEmail == [p \in Users \X Channels |-> IF p[2] = "email" THEN "given" ELSE "absent"]
AnyUser == CHOOSE u \in Users : TRUE

\* The other users opt out of in-app: an empty address wins over the user id.
OthersOut == [p \in Users \X Channels |->
                IF p[2] = "in_app" /\ p[1] # AnyUser THEN "empty" ELSE "absent"]

Make(users, channels, addresses) ==
    {[tenant |-> t, nid |-> n, users |-> users, channels |-> channels,
      addresses |-> addresses] : t \in Tenants, n \in NotificationIDs}

EmailRequests == Make(<<AnyUser>>, <<"email">>, WithEmail)

\* Every enabled channel, in either order (a list of unspecified kinds only); a
\* channel without provider and one without address; two users, of which one opts
\* out.
ManyRequests ==
    UNION {Make(<<AnyUser>>, <<Unspecified>>, WithEmail),
           Make(<<AnyUser>>, <<"sms", "email">>, NoAddress),
           UNION {Make(<<AnyUser, u>>, <<"in_app">>, OthersOut) : u \in Users \ {AnyUser}}}

Symmetry == Permutations(Calls) \cup Permutations(IDs)
=============================================================================
