---------------------------- MODULE MCLiveStream ----------------------------
(* Model-checking instances of LiveStream: the accounts, who owns which     *)
(* connection, and whose notification an event carries.                     *)
EXTENDS LiveStream, TLC

CONSTANTS t1, t2, u1, c1, c2, e1, e2

\* One user id, known in two tenants.
Namesakes == {<<t1, u1>>, <<t2, u1>>}

\* A connection of each: the registry keeps both in one list.
OneEach == c1 :> <<t1, u1>> @@ c2 :> <<t2, u1>>

\* Only the first's notifications, or one of each.
FirstOnly == [e \in Events |-> <<t1, u1>>]
RowOfEach == e1 :> <<t1, u1>> @@ e2 :> <<t2, u1>>

\* One account, and both connections are its own.
JustOne == {<<t1, u1>>}
OneAccount == [c \in Conns |-> <<t1, u1>>]
=============================================================================
