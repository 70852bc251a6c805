---------------------------- MODULE StoresProofs ----------------------------
(***************************************************************************)
(* Proofs about Stores, for every number of clients, every set of keys and *)
(* queries, every page size and each of the three drivers.                 *)
(***************************************************************************)
EXTENDS Stores, FiniteSetTheorems, SequenceTheorems, TLAPS

\* At most one row per key.
UniqueKeys == \A i, j \in Present : rows[i].key = rows[j].key => i = j

\* What a create that met a row remembers: rows are never deleted.
CreateOK(c) ==
    step[c] = "find" =>
        /\ call[c].op = "create"
        /\ call[c].key \in Key
        /\ \E id \in Present : rows[id].key = call[c].key

\* What an update remembers: the row is there, and a reader owns it.
UpdateOK(c) ==
    step[c] \in {"update", "write"} =>
        /\ call[c].op \in {"read", "delivered"}
        /\ call[c].id \in Present
        /\ call[c].op = "read" => rows[call[c].id].key[2] = call[c].user

UnreadOf(ask) == Unread(OfUser(ask.tenant, ask.user))

\* The window of a query brackets what is unread now.
WindowOK(q) ==
    /\ q.always \subseteq UnreadOf(q.ask)
    /\ UnreadOf(q.ask) \subseteq q.ever
    /\ q.ever \subseteq IDs

\* What a query has read: rows that are still there, with the creation time
\* they have now and a status they had at some moment of the window.
ReadOK(q) ==
    /\ DOMAIN q.read \subseteq Present
    /\ \A i \in DOMAIN q.read :
          /\ q.read[i].createdAt = rows[i].createdAt
          /\ i \in q.always => q.read[i].status # "read"
          /\ q.read[i].status # "read" => i \in q.ever

\* What a query has not read yet are rows of its user.
TodoOK(q) ==
    /\ q.todo \subseteq OfUser(q.ask.tenant, q.ask.user)
    /\ q.always \subseteq DOMAIN q.read \cup q.todo

QueryRecord(q) ==
    q = [op |-> "query", ask |-> q.ask, read |-> q.read, todo |-> q.todo,
         always |-> q.always, ever |-> q.ever]

QueryOK(c) ==
    step[c] \in {"count", "node"} =>
        /\ QueryRecord(call[c])
        /\ WindowOK(call[c])
        /\ ReadOK(call[c])
        /\ TodoOK(call[c])
        /\ step[c] = "count" => call[c].todo = {}

\* What a registration remembers: the device is there, and once its own token
\* is written, the stored token is its own or a later one.
DeviceOK(c) ==
    step[c] \in {"findDevice", "rotate", "readBack"} =>
        /\ call[c].op = "register"
        /\ call[c].key \in DeviceKeys
        /\ devices[call[c].key] # NoDevice
        /\ step[c] = "readBack" => devices[call[c].key].token \in since[c]

CallOK(c) == CreateOK(c) /\ UpdateOK(c) /\ QueryOK(c) /\ DeviceOK(c)

\* The answers of the last step are true.
AnswerOK ==
    /\ CreateReturnsStoredRow
    /\ ConflictResolves
    /\ ReadOnlyByOwner
    /\ RegisterReturnsOwnOrLater
    /\ UnreadWithinWindow
    /\ PageHasNoHoles

\* What calls remember, whatever was answered.
Kernel ==
    /\ TypeOK
    /\ call = [c \in Clients |-> call[c]]
    /\ UniqueKeys
    /\ \A c \in Clients : CallOK(c)

\* The inductive invariant: what a call keeps from one statement to the next
\* stays true while other calls write, next to the properties themselves.
IInv == Kernel /\ AnswerOK

-----------------------------------------------------------------------------
(* Composite keys.                                                         *)

Part == Tenants \cup Users \cup NotificationIDs

\* Concatenation, under a name of its own.
Cat(s, t) == s \o t

\* Where the characters of a concatenation come from.
LEMMA CatProperties ==
    ASSUME NEW S, NEW s \in Seq(S), NEW t \in Seq(S)
    PROVE  /\ Cat(s, t) \in Seq(S)
           /\ Len(Cat(s, t)) = Len(s) + Len(t)
           /\ \A i \in 1..Len(s) : Cat(s, t)[i] = s[i]
           /\ Len(t) > 0 => Cat(s, t)[Len(s) + 1] = t[1]
BY ConcatProperties DEF Cat

\* Concatenation is associative.
LEMMA CatAssociative ==
    ASSUME NEW S, NEW s \in Seq(S), NEW t \in Seq(S), NEW u \in Seq(S)
    PROVE  Cat(Cat(s, t), u) = Cat(s, Cat(t, u))
BY ConcatAssociative DEF Cat

\* Equal strings have equal prefixes of equal length, and equal rests.
LEMMA SplitAt ==
    ASSUME NEW S, NEW s \in Seq(S), NEW t \in Seq(S), NEW x \in Seq(S), NEW y \in Seq(S),
           Cat(s, x) = Cat(t, y), Len(s) = Len(t)
    PROVE  s = t /\ x = y
<1>1. (\A i \in 1..Len(s) : Cat(s, x)[i] = s[i]) /\ (\A i \in 1..Len(t) : Cat(t, y)[i] = t[i])
  <2>1. \A i \in 1..Len(s) : Cat(s, x)[i] = s[i]
    BY CatProperties
  <2>2. \A i \in 1..Len(t) : Cat(t, y)[i] = t[i]
    BY CatProperties
  <2>3. QED
    BY <2>1, <2>2
<1>2. s = t
  <2>1. \A i \in 1..Len(s) : s[i] = t[i]
    BY <1>1
  <2>2. QED
    BY <2>1, SeqEqual
<1>3. QED
  BY <1>2, ConcatSimplifications DEF Cat

\* A separator in front of a string.
LEMMA OneAhead ==
    ASSUME NEW S, NEW sep \in Seq(S), NEW x \in Seq(S), Len(sep) = 1
    PROVE  Cat(sep, x) \in Seq(S) /\ Len(Cat(sep, x)) = 1 + Len(x) /\ Cat(sep, x)[1] = sep[1]
<1>1. Cat(sep, x) \in Seq(S) /\ Len(Cat(sep, x)) = Len(sep) + Len(x)
  BY CatProperties
<1>2. \A i \in 1..Len(sep) : Cat(sep, x)[i] = sep[i]
  BY CatProperties
<1>3. 1 \in 1..Len(sep)
  OBVIOUS
<1>4. QED
  BY <1>1, <1>2, <1>3

\* A string without the separator.
Without(A, sep) == \A i \in 1..Len(A) : A[i] # sep[1]

\* A string without a colon, and then a colon.
ColonAfter(A, e, colon) == e[Len(A) + 1] = colon /\ \A i \in 1..Len(A) : e[i] # colon

\* The colon of an encoded string comes behind its length.
LEMMA ColonAfterPrefix ==
    ASSUME NEW S, NEW A \in Seq(S), NEW sep \in Seq(S), NEW x \in Seq(S), Len(sep) = 1,
           Without(A, sep)
    PROVE  ColonAfter(A, Cat(A, Cat(sep, x)), sep[1])
<1> DEFINE u == Cat(sep, x)
<1>1. u \in Seq(S) /\ Len(u) = 1 + Len(x) /\ u[1] = sep[1]
  BY OneAhead
<1> HIDE DEF u
<1>2. Len(u) > 0
  BY <1>1
<1>3. Len(u) > 0 => Cat(A, u)[Len(A) + 1] = u[1]
  BY <1>1, CatProperties
<1>4. \A i \in 1..Len(A) : Cat(A, u)[i] = A[i]
  BY <1>1, CatProperties
<1>5. QED
  BY <1>1, <1>2, <1>3, <1>4 DEF ColonAfter, Without, u

\* What stands before the first colon is determined.
LEMMA FirstColon ==
    ASSUME NEW S, NEW A \in Seq(S), NEW B \in Seq(S), NEW sep \in Seq(S), Len(sep) = 1,
           Without(A, sep), Without(B, sep),
           NEW x \in Seq(S), NEW y \in Seq(S), Cat(A, Cat(sep, x)) = Cat(B, Cat(sep, y))
    PROVE  A = B /\ x = y
<1>1. PICK e : e = Cat(A, Cat(sep, x))
  OBVIOUS
<1>2. PICK colon : colon = sep[1]
  OBVIOUS
<1>3. ColonAfter(A, e, colon) /\ ColonAfter(B, e, colon)
  BY <1>1, <1>2, ColonAfterPrefix
<1>4. Len(A) = Len(B)
  <2>1. PICK m \in Nat : m = Len(A)
    OBVIOUS
  <2>2. PICK n \in Nat : n = Len(B)
    OBVIOUS
  <2>3. /\ e[m + 1] = colon /\ \A i \in 1..m : e[i] # colon
        /\ e[n + 1] = colon /\ \A i \in 1..n : e[i] # colon
    BY <1>3, <2>1, <2>2 DEF ColonAfter
  <2>4. ~(m < n) /\ ~(n < m)
    BY ONLY <2>3, m \in Nat, n \in Nat
  <2>5. QED
    BY <2>1, <2>2, <2>4
<1>5. Cat(sep, x) \in Seq(S) /\ Cat(sep, y) \in Seq(S)
  BY OneAhead
<1>6. A = B /\ Cat(sep, x) = Cat(sep, y)
  BY <1>4, <1>5, SplitAt
<1>7. x = y
  BY <1>6, SplitAt
<1>8. QED
  BY <1>6, <1>7

\* lpEncode is a prefix code: the length, which holds no colon, says where the
\* part ends, whatever characters the part is made of.
LEMMA LPEncodeIsPrefixCode ==
    ASSUME NEW s \in Part, NEW t \in Part, NEW S, ":" \in S, Chars \subseteq S,
           NEW x \in Seq(S), NEW y \in Seq(S),
           Cat(LPEncode(s), x) = Cat(LPEncode(t), y)
    PROVE  s = t /\ x = y
<1>1. PICK sep : sep = <<":">>
  OBVIOUS
<1>2. sep \in Seq(S) /\ Len(sep) = 1 /\ sep[1] = ":"
  BY <1>1
<1> DEFINE A == Itoa[Len(s)]
           B == Itoa[Len(t)]
<1>3. /\ s \in Seq(Chars) /\ t \in Seq(Chars)
      /\ A \in Seq(Chars \ {":"}) /\ B \in Seq(Chars \ {":"})
      /\ A = B => Len(s) = Len(t)
  BY KeyConstants DEF Part
<1>4. LPEncode(s) = Cat(Cat(A, sep), s) /\ LPEncode(t) = Cat(Cat(B, sep), t)
  BY <1>1 DEF LPEncode, Cat
<1> HIDE DEF A, B
<1>5. s \in Seq(S) /\ t \in Seq(S) /\ A \in Seq(S) /\ B \in Seq(S)
  BY <1>3, SeqMonotonic
<1>6. Without(A, sep) /\ Without(B, sep)
  BY <1>2, <1>3 DEF Without
<1>7. /\ Cat(A, sep) \in Seq(S) /\ Cat(B, sep) \in Seq(S)
      /\ Cat(s, x) \in Seq(S) /\ Cat(t, y) \in Seq(S)
  BY <1>2, <1>5, CatProperties
<1>8. /\ Cat(LPEncode(s), x) = Cat(A, Cat(sep, Cat(s, x)))
      /\ Cat(LPEncode(t), y) = Cat(B, Cat(sep, Cat(t, y)))
  BY <1>2, <1>4, <1>5, <1>7, CatAssociative
<1>9. A = B /\ Cat(s, x) = Cat(t, y)
  <2>1. sep \in Seq(S) /\ Len(sep) = 1
    BY <1>2
  <2>2. PICK sx : sx = Cat(s, x)
    OBVIOUS
  <2>3. PICK ty : ty = Cat(t, y)
    OBVIOUS
  <2>4. sx \in Seq(S) /\ ty \in Seq(S) /\ Cat(A, Cat(sep, sx)) = Cat(B, Cat(sep, ty))
    BY <1>7, <1>8, <2>2, <2>3
  <2>5. A = B /\ sx = ty
    BY ONLY <1>5, <1>6, <2>1, <2>4, FirstColon
  <2>6. QED
    BY <2>2, <2>3, <2>5
<1>10. QED
  BY <1>3, <1>5, <1>9, SplitAt

\* The unique constraint of each driver tells all keys apart: entdb's composite
\* key is injective.
LEMMA SameKeyIsEqual ==
    ASSUME NEW j \in Key, NEW k \in Key
    PROVE  SameKey(j, k) <=> j = k
<1> DEFINE S == Chars \cup {":"}
<1>1. /\ j = <<j[1], j[2], j[3]>> /\ k = <<k[1], k[2], k[3]>>
      /\ j[1] \in Part /\ j[2] \in Part /\ j[3] \in Part
      /\ k[1] \in Part /\ k[2] \in Part /\ k[3] \in Part
  BY DEF Key, Part
<1>2. ":" \in S /\ Chars \subseteq S
  OBVIOUS
<1>3. ASSUME NEW s \in Part PROVE LPEncode(s) \in Seq(S)
  <2>1. s \in Seq(Chars) /\ Itoa[Len(s)] \in Seq(Chars \ {":"})
    BY KeyConstants DEF Part
  <2>2. s \in Seq(S) /\ Itoa[Len(s)] \in Seq(S) /\ <<":">> \in Seq(S)
    BY <2>1, SeqMonotonic
  <2> HIDE DEF S
  <2>3. Cat(Cat(Itoa[Len(s)], <<":">>), s) \in Seq(S)
    BY <2>2, CatProperties
  <2>4. QED
    BY <2>3 DEF LPEncode, Cat
<1> HIDE DEF S
<1>4. ASSUME CompositeKey(j) = CompositeKey(k) PROVE j = k
  <2> DEFINE j1 == LPEncode(j[1])   j2 == LPEncode(j[2])   j3 == LPEncode(j[3])
             k1 == LPEncode(k[1])   k2 == LPEncode(k[2])   k3 == LPEncode(k[3])
  <2>1. /\ j1 \in Seq(S) /\ j2 \in Seq(S) /\ j3 \in Seq(S)
        /\ k1 \in Seq(S) /\ k2 \in Seq(S) /\ k3 \in Seq(S)
    BY <1>1, <1>3
  <2>2. Cat(Cat(j1, j2), j3) = Cat(Cat(k1, k2), k3)
    BY <1>4 DEF CompositeKey, Cat
  <2>3. Cat(j2, j3) \in Seq(S) /\ Cat(k2, k3) \in Seq(S)
    BY <2>1, CatProperties
  <2>4. Cat(j1, Cat(j2, j3)) = Cat(k1, Cat(k2, k3))
    BY <2>1, <2>2, CatAssociative
  <2>5. j[1] = k[1] /\ Cat(j2, j3) = Cat(k2, k3)
    BY <1>1, <1>2, <2>3, <2>4, LPEncodeIsPrefixCode
  <2>6. j[2] = k[2] /\ j3 = k3
    BY <1>1, <1>2, <2>1, <2>5, LPEncodeIsPrefixCode
  <2>7. PICK e : e \in Seq(S)
    BY EmptySeq
  <2>8. j[3] = k[3]
    <3>1. Cat(LPEncode(j[3]), e) = Cat(LPEncode(k[3]), e)
      BY <2>6
    <3>2. QED
      BY <1>1, <1>2, <2>7, <3>1, LPEncodeIsPrefixCode
  <2>9. QED
    BY <1>1, <2>5, <2>6, <2>8
<1>5. QED
  BY <1>4 DEF SameKey

-----------------------------------------------------------------------------
(* What the steps of one call leave of the others.                         *)

Steps == {"idle", "find", "update", "write", "count", "node", "findDevice", "rotate", "readBack"}

\* A call that is not touched remembers what it did.
LEMMA Untouched ==
    ASSUME NEW d, CallOK(d), step'[d] = step[d], call'[d] = call[d],
           rows' = rows, devices' = devices, since'[d] = since[d]
    PROVE  CallOK(d)'
<1>1. CreateOK(d)' /\ UpdateOK(d)'
  BY DEF CallOK, CreateOK, UpdateOK, Present
<1>2. QueryOK(d)'
  BY DEF CallOK, QueryOK, QueryRecord, WindowOK, ReadOK, TodoOK, UnreadOf, Unread, OfUser, Present
<1>3. DeviceOK(d)'
  BY DEF CallOK, DeviceOK
<1>4. QED
  BY <1>1, <1>2, <1>3 DEF CallOK

\* A call that returns without writing.
LEMMA ReturnKeeps ==
    ASSUME Kernel, NEW c \in Clients, NEW r, Return(c, r), UNCHANGED <<driver, rows, deviceVars>>
    PROVE  Kernel'
<1> USE DEF Kernel
<1>1. /\ step' \in [Clients -> Steps] /\ step'[c] = "idle" /\ call'[c] = NoCall
      /\ call' = [d \in Clients |-> call'[d]]
      /\ \A d \in Clients \ {c} : step'[d] = step[d] /\ call'[d] = call[d]
  BY DEF Return, TypeOK, RowTypeOK, Steps
<1>2. rows' = rows /\ driver' = driver /\ devices' = devices /\ since' = since
  BY DEF deviceVars
<1>3. TypeOK'
  <2>1. \A d \in Clients : step'[d] = "idle" <=> call'[d] = NoCall
    BY <1>1 DEF TypeOK, RowTypeOK
  <2>2. QED
    BY <1>1, <1>2, <2>1 DEF TypeOK, RowTypeOK, DeviceTypeOK, Steps
<1>4. UniqueKeys'
  BY <1>2 DEF UniqueKeys, Present
<1>5. ASSUME NEW d \in Clients PROVE CallOK(d)'
  <2>1. CASE d = c
    BY <1>1, <2>1 DEF CallOK, CreateOK, UpdateOK, QueryOK, DeviceOK
  <2>2. CASE d # c
    BY <1>1, <1>2, <2>2, Untouched
  <2>3. QED
    BY <2>1, <2>2
<1>6. QED
  BY <1>1, <1>3, <1>4, <1>5

\* A call that goes on to its next statement.
LEMMA GotoKeeps ==
    ASSUME Kernel, NEW c \in Clients, NEW next \in Steps \ {"idle"}, NEW locals, locals # NoCall,
           Goto(c, next, locals), UNCHANGED <<driver, rows, devices>>,
           since' \in [Clients -> SUBSET Clients], \A d \in Clients \ {c} : since'[d] = since[d], CallOK(c)'
    PROVE  Kernel'
<1> USE DEF Kernel
<1>1. /\ step' \in [Clients -> Steps] /\ step'[c] = next /\ call'[c] = locals
      /\ call' = [d \in Clients |-> call'[d]]
      /\ \A d \in Clients \ {c} : step'[d] = step[d] /\ call'[d] = call[d]
  BY DEF Goto, TypeOK, RowTypeOK, Steps
<1>2. rows' = rows /\ driver' = driver /\ devices' = devices
  OBVIOUS
<1>3. TypeOK'
  <2>1. \A d \in Clients : step'[d] = "idle" <=> call'[d] = NoCall
    BY <1>1 DEF TypeOK, RowTypeOK
  <2>2. QED
    BY <1>1, <1>2, <2>1 DEF TypeOK, RowTypeOK, DeviceTypeOK, Steps
<1>4. UniqueKeys'
  BY <1>2 DEF UniqueKeys, Present
<1>5. ASSUME NEW d \in Clients PROVE CallOK(d)'
  <2>1. CASE d = c
    BY <2>1
  <2>2. CASE d # c
    BY <1>1, <1>2, <2>2, Untouched
  <2>3. QED
    BY <2>1, <2>2
<1>6. QED
  BY <1>1, <1>3, <1>4, <1>5

\* Rows are written: none disappears, and keys and creation times stay.
RowsKept(new) ==
    /\ new \in [IDs -> Row \cup {NoRow}]
    /\ \A id \in Present : /\ new[id] # NoRow
                           /\ new[id].key = rows[id].key
                           /\ new[id].createdAt = rows[id].createdAt

\* A call in flight remembers what is true of the new rows, too; the window of
\* a query is adjusted.
LEMMA Watched ==
    ASSUME NEW d, CallOK(d), step'[d] = step[d], RowsKept(rows'), devices' = devices, since' = since,
           call'[d] = IF call[d].op = "query" THEN Watch(call[d], rows') ELSE call[d]
    PROVE  CallOK(d)'
<1>1. Present \subseteq Present'
  BY DEF RowsKept, Present
<1>2. CreateOK(d)'
  BY <1>1 DEF CallOK, CreateOK, RowsKept
<1>3. UpdateOK(d)'
  BY <1>1 DEF CallOK, UpdateOK, RowsKept
<1>4. DeviceOK(d)'
  BY DEF CallOK, DeviceOK
<1>5. ASSUME step[d] \in {"count", "node"} PROVE QueryOK(d)'
  <2>1. PICK q : q = call[d]
    OBVIOUS
  <2>2. PICK ask : ask = q.ask
    OBVIOUS
  <2>3. PICK new : new = rows'
    OBVIOUS
  <2> DEFINE now == {id \in IDs : /\ new[id] # NoRow /\ new[id].status # "read"
                                  /\ new[id].key[1] = ask.tenant /\ new[id].key[2] = ask.user}
  <2>4. QueryRecord(q) /\ WindowOK(q) /\ ReadOK(q) /\ TodoOK(q) /\ (step[d] = "count" => q.todo = {})
    BY <1>5, <2>1 DEF CallOK, QueryOK
  <2>5. q.op = "query"
    BY <2>4 DEF QueryRecord
  <2>6. call'[d] = [q EXCEPT !.always = @ \cap now, !.ever = @ \cup now]
    BY <2>1, <2>2, <2>3, <2>5 DEF Watch
  <2>7. now \subseteq IDs /\ UnreadOf(ask)' = now
    <3>1. UnreadOf(ask)' = {id \in IDs : /\ rows'[id] # NoRow /\ rows'[id].status # "read"
                                         /\ rows'[id].key[1] = ask.tenant /\ rows'[id].key[2] = ask.user}
      BY Zenon DEF UnreadOf, Unread, OfUser, Present
    <3>2. QED
      BY <2>3, <3>1
  <2> HIDE DEF now
  <2>8. call'[d] = [op |-> "query", ask |-> q.ask, read |-> q.read, todo |-> q.todo,
                    always |-> q.always \cap now, ever |-> q.ever \cup now]
    <3>1. PICK rd, td, al, ev : rd = q.read /\ td = q.todo /\ al = q.always /\ ev = q.ever
      OBVIOUS
    <3>2. q = [op |-> "query", ask |-> ask, read |-> rd, todo |-> td, always |-> al, ever |-> ev]
      BY <2>2, <2>4, <3>1 DEF QueryRecord
    <3>3. call'[d] = [op |-> "query", ask |-> ask, read |-> rd, todo |-> td,
                      always |-> al \cap now, ever |-> ev \cup now]
      BY <2>6, <3>2
    <3>4. QED
      BY <2>2, <3>1, <3>3
  <2>9. /\ call'[d].op = "query" /\ call'[d].ask = ask /\ call'[d].read = q.read /\ call'[d].todo = q.todo
        /\ call'[d].always = q.always \cap now /\ call'[d].ever = q.ever \cup now
        /\ QueryRecord(call[d])'
    BY <2>2, <2>8 DEF QueryRecord
  <2>10. WindowOK(call[d])'
    <3>1. UnreadOf(call[d].ask)' = now
      BY <2>7, <2>9 DEF UnreadOf
    <3>2. call'[d].ever \subseteq IDs
      BY <2>4, <2>7, <2>9 DEF WindowOK
    <3>3. QED
      BY <2>9, <3>1, <3>2 DEF WindowOK
  <2>11. ReadOK(call[d])'
    BY <1>1, <2>4, <2>9 DEF ReadOK, RowsKept
  <2>12. TodoOK(call[d])'
    <3>1. OfUser(ask.tenant, ask.user) \subseteq OfUser(ask.tenant, ask.user)'
      BY <1>1 DEF OfUser, RowsKept
    <3>2. OfUser(call[d].ask.tenant, call[d].ask.user)' = OfUser(ask.tenant, ask.user)'
      BY <2>9 DEF OfUser
    <3>3. q.todo \subseteq OfUser(ask.tenant, ask.user) /\ q.always \subseteq DOMAIN q.read \cup q.todo
      BY <2>2, <2>4 DEF TodoOK
    <3>4. QED
      BY <2>9, <3>1, <3>2, <3>3 DEF TodoOK
  <2>13. QED
    BY <2>4, <2>9, <2>10, <2>11, <2>12, <2>1 DEF QueryOK
<1>6. QED
  BY <1>2, <1>3, <1>4, <1>5 DEF CallOK, QueryOK

\* A call whose last statement writes rows.
LEMMA CommitKeeps ==
    ASSUME Kernel, NEW c \in Clients, NEW new, NEW r, Commit(c, new, r), RowsKept(new),
           UNCHANGED <<driver, deviceVars>>, UniqueKeys'
    PROVE  Kernel'
<1> USE DEF Kernel
<1>1. /\ step' \in [Clients -> Steps] /\ step'[c] = "idle"
      /\ \A d \in Clients \ {c} : step'[d] = step[d]
      /\ rows' = new /\ RowsKept(rows')
  BY DEF Commit, TypeOK, RowTypeOK, Steps
<1>2. /\ call' = [d \in Clients |-> call'[d]] /\ call'[c] = NoCall
      /\ \A d \in Clients \ {c} :
            call'[d] = IF call[d].op = "query" THEN Watch(call[d], rows') ELSE call[d]
  BY <1>1 DEF Commit
<1>3. driver' = driver /\ devices' = devices /\ since' = since
  BY DEF deviceVars
<1>4. \A d \in Clients : CallOK(d)'
  <2> SUFFICES ASSUME NEW d \in Clients PROVE CallOK(d)'
    OBVIOUS
  <2>1. CASE d = c
    BY <1>1, <2>1 DEF CallOK, CreateOK, UpdateOK, QueryOK, DeviceOK
  <2>2. CASE d # c
    BY <1>1, <1>2, <1>3, <2>2, Watched
  <2>3. QED
    BY <2>1, <2>2
<1>5. ASSUME NEW d \in Clients PROVE step'[d] = "idle" <=> call'[d] = NoCall
  <2>1. CASE d = c
    BY <1>1, <1>2, <2>1
  <2>2. CASE d # c /\ step[d] = "idle"
    <3>1. call[d] = NoCall
      BY <2>2 DEF TypeOK, RowTypeOK
    <3>2. call[d].op # "query"
      BY <3>1 DEF NoCall
    <3>3. QED
      BY <1>1, <1>2, <2>2, <3>1, <3>2
  <2>3. CASE d # c /\ step[d] # "idle"
    <3>1. call'[d].op \in {"create", "read", "delivered", "query", "register"}
      <4>1. step'[d] \in Steps \ {"idle"}
        BY <1>1, <2>3 DEF TypeOK, RowTypeOK, Steps
      <4>2. CreateOK(d)' /\ UpdateOK(d)' /\ QueryOK(d)' /\ DeviceOK(d)'
        BY <1>4 DEF CallOK
      <4>3. step'[d] \in {"count", "node"} => call'[d].op = "query"
        BY <4>2 DEF QueryOK, QueryRecord
      <4>4. QED
        BY <4>1, <4>2, <4>3 DEF CreateOK, UpdateOK, DeviceOK, Steps
    <3>2. QED
      BY <1>1, <2>3, <3>1 DEF NoCall
  <2>4. QED
    BY <2>1, <2>2, <2>3
<1>6. TypeOK'
  BY <1>1, <1>3, <1>5 DEF TypeOK, RowTypeOK, DeviceTypeOK, RowsKept, Steps
<1>7. QED
  BY <1>2, <1>4, <1>6

-----------------------------------------------------------------------------
(* Answers.                                                                *)

\* A step that returns nothing answers nothing.
LEMMA Silent == ASSUME out' = NoCall PROVE AnswerOK'
<1>1. out'.op = "none"
  BY DEF NoCall
<1>2. QED
  BY <1>1 DEF AnswerOK, CreateReturnsStoredRow, ConflictResolves, ReadOnlyByOwner,
              RegisterReturnsOwnOrLater, UnreadWithinWindow, PageHasNoHoles

\* A create may answer with any row it finds under its key: there is one.
LEMMA AnswersCreate ==
    ASSUME UniqueKeys', NEW k, NEW id, id \in Present', rows'[id].key = k,
           out' = [op |-> "create", key |-> k, id |-> id]
    PROVE  AnswerOK'
<1>1. out'.op = "create" /\ out'.key = k /\ out'.id = id
  OBVIOUS
<1>2. {i \in Present' : rows'[i].key = k} = {id}
  BY DEF UniqueKeys
<1>3. CreateReturnsStoredRow'
  BY <1>1, <1>2 DEF CreateReturnsStoredRow
<1>4. QED
  BY <1>1, <1>3 DEF AnswerOK, ConflictResolves, ReadOnlyByOwner,
              RegisterReturnsOwnOrLater, UnreadWithinWindow, PageHasNoHoles

\* The owner of the row is its reader.
LEMMA AnswersUpdate ==
    ASSUME NEW u, u.op \in {"read", "delivered"}, out' = u,
           u.op = "read" => rows'[u.id].key[2] = u.user
    PROVE  AnswerOK'
BY DEF AnswerOK, CreateReturnsStoredRow, ConflictResolves, ReadOnlyByOwner,
       RegisterReturnsOwnOrLater, UnreadWithinWindow, PageHasNoHoles

-----------------------------------------------------------------------------
(* CreateNotification.                                                     *)

\* The rows with a key, to the driver, are the rows with that key.
LEMMA WithKeyIsKey ==
    ASSUME TypeOK, NEW k \in Key
    PROVE  WithKey(k) = {id \in Present : rows[id].key = k}
<1>1. \A id \in Present : rows[id].key \in Key
  BY DriverConstants DEF TypeOK, RowTypeOK, Present, Row
<1>2. QED
  BY <1>1, SameKeyIsEqual DEF WithKey

\* A row that is not under any id yet can be added.
LEMMA Inserted ==
    ASSUME Kernel, NEW k \in Key, NEW at \in Stamp, NEW id \in IDs \ Present, WithKey(k) = {},
           rows' = [rows EXCEPT ![id] = NewRow(k, "in_app", at)]
    PROVE  RowsKept(rows') /\ UniqueKeys' /\ id \in Present' /\ rows'[id].key = k
<1>1. NewRow(k, "in_app", at) \in Row /\ NewRow(k, "in_app", at).key = k
  BY ModelConstants DEF NewRow, Row, Status, Stamp
<1>2. rows \in [IDs -> Row \cup {NoRow}]
  BY DEF Kernel, TypeOK, RowTypeOK
<1>3. /\ rows' \in [IDs -> Row \cup {NoRow}]
      /\ rows'[id] = NewRow(k, "in_app", at)
      /\ \A i \in IDs \ {id} : rows'[i] = rows[i]
  BY <1>1, <1>2
<1>4. id \in Present' /\ Present' = Present \cup {id}
  BY <1>1, <1>3, DriverConstants DEF Present
<1>5. RowsKept(rows')
  BY <1>3 DEF RowsKept, Present
<1>6. \A i \in Present : rows[i].key # k
  BY WithKeyIsKey DEF Kernel
<1>7. UniqueKeys'
  BY <1>1, <1>3, <1>4, <1>5, <1>6 DEF UniqueKeys, RowsKept, Kernel
<1>8. QED
  BY <1>1, <1>3, <1>4, <1>5, <1>7

\* CreateNotification answers with the row under its key, or goes on to look
\* for the one it met.
LEMMA CreateStep ==
    ASSUME Kernel, NEW c \in Clients, NEW k \in Key, NEW at \in Stamp, Create(c, k, at), UNCHANGED deviceVars
    PROVE  IInv'
<1>1. CASE /\ WithKey(k) = {}
           /\ \E id \in IDs \ Present : Commit(c, [rows EXCEPT ![id] = NewRow(k, "in_app", at)],
                                               [op |-> "create", key |-> k, id |-> id])
  <2>1. PICK id \in IDs \ Present : Commit(c, [rows EXCEPT ![id] = NewRow(k, "in_app", at)],
                                           [op |-> "create", key |-> k, id |-> id])
    BY <1>1
  <2>2. /\ rows' = [rows EXCEPT ![id] = NewRow(k, "in_app", at)]
        /\ out' = [op |-> "create", key |-> k, id |-> id]
    BY <2>1 DEF Commit
  <2>3. RowsKept(rows') /\ UniqueKeys' /\ id \in Present' /\ rows'[id].key = k
    BY <1>1, <2>2, Inserted
  <2>4. Kernel'
    <3>1. PICK new : new = [rows EXCEPT ![id] = NewRow(k, "in_app", at)]
      OBVIOUS
    <3>2. PICK r : r = [op |-> "create", key |-> k, id |-> id]
      OBVIOUS
    <3>3. Commit(c, new, r) /\ RowsKept(new)
      BY <2>1, <2>2, <2>3, <3>1, <3>2
    <3>4. UNCHANGED <<driver, deviceVars>>
      BY DEF Create
    <3>5. QED
      BY <2>3, <3>3, <3>4, CommitKeeps
  <2>5. QED
    BY <2>2, <2>3, <2>4, AnswersCreate DEF IInv
<1>2. CASE /\ driver = "memory"
           /\ \E id \in WithKey(k) : Return(c, [op |-> "create", key |-> k, id |-> id])
           /\ UNCHANGED rows
  <2>1. PICK id \in WithKey(k) : Return(c, [op |-> "create", key |-> k, id |-> id])
    BY <1>2
  <2>2. Kernel'
    BY <1>2, <2>1, ReturnKeeps DEF Create
  <2>3. id \in Present /\ rows[id].key = k
    BY <2>1, WithKeyIsKey DEF Kernel
  <2>4. id \in Present' /\ rows'[id].key = k
    BY <1>2, <2>3 DEF Present
  <2>5. out' = [op |-> "create", key |-> k, id |-> id]
    BY <2>1 DEF Return
  <2>6. QED
    BY <2>2, <2>4, <2>5, AnswersCreate DEF IInv, Kernel
<1>3. CASE /\ driver # "memory" /\ WithKey(k) # {}
           /\ Goto(c, "find", [op |-> "create", key |-> k])
           /\ UNCHANGED rows
  <2>1. PICK locals : locals = [op |-> "create", key |-> k]
    OBVIOUS
  <2>2. locals.op = "create" /\ locals.key = k /\ locals # NoCall
    BY <2>1 DEF NoCall
  <2>3. Goto(c, "find", locals) /\ step'[c] = "find" /\ call'[c] = locals /\ out' = NoCall
    BY <1>3, <2>1 DEF Goto, Kernel, TypeOK, RowTypeOK
  <2>4. \E id \in Present : rows[id].key = k
    BY <1>3, WithKeyIsKey DEF Kernel
  <2>5. CallOK(c)'
    BY <1>3, <2>2, <2>3, <2>4 DEF CallOK, CreateOK, UpdateOK, QueryOK, DeviceOK, Present
  <2>6. Kernel'
    BY <1>3, <2>2, <2>3, <2>5, GotoKeeps DEF Create, deviceVars, Kernel, TypeOK, DeviceTypeOK, Steps
  <2>7. QED
    BY <2>3, <2>6, Silent DEF IInv
<1>4. QED
  BY <1>1, <1>2, <1>3 DEF Create

\* The second statement of a create finds the row.
LEMMA FindExistingStep ==
    ASSUME Kernel, NEW c \in Clients, FindExisting(c), UNCHANGED deviceVars
    PROVE  IInv'
<1>1. PICK k : k = call[c].key
  OBVIOUS
<1>2. k \in Key /\ \E id \in Present : rows[id].key = k
  BY <1>1 DEF FindExisting, Kernel, CallOK, CreateOK
<1>3. WithKey(k) = {id \in Present : rows[id].key = k}
  BY <1>2, WithKeyIsKey DEF Kernel
<1>4. PICK id \in WithKey(k) : Return(c, [op |-> "create", key |-> k, id |-> id])
  BY <1>1, <1>2, <1>3 DEF FindExisting
<1>5. UNCHANGED <<driver, rows>>
  BY DEF FindExisting
<1>6. Kernel'
  BY <1>4, <1>5, ReturnKeeps
<1>7. id \in Present' /\ rows'[id].key = k
  BY <1>3, <1>4, <1>5 DEF Present
<1>8. out' = [op |-> "create", key |-> k, id |-> id]
  BY <1>4 DEF Return
<1>9. QED
  BY <1>6, <1>7, <1>8, AnswersCreate DEF IInv, Kernel

-----------------------------------------------------------------------------
(* GetNotification and UpdateStatus.                                       *)

\* Stamping a row keeps its key, its channel and its creation time.
LEMMA StampedRow ==
    ASSUME NEW row \in Row, NEW status \in Status
    PROVE  /\ Stamped(row, status, MaxTime) \in Row
           /\ Stamped(row, status, MaxTime).key = row.key
           /\ Stamped(row, status, MaxTime).createdAt = row.createdAt
<1>1. MaxTime \in Stamp
  BY ModelConstants DEF Stamp
<1>2. QED
  BY <1>1 DEF Stamped, Row

PatchesRow(u) == rows' = [rows EXCEPT ![u.id] = Patched(u)]

\* A patch changes the status and stamps of one row.
LEMMA PatchedRows ==
    ASSUME Kernel, NEW u, u.op \in {"read", "delivered"}, u.id \in Present, PatchesRow(u)
    PROVE  RowsKept(rows') /\ UniqueKeys' /\ rows'[u.id].key = rows[u.id].key
<1>1. PICK id \in Present : id = u.id
  OBVIOUS
<1>2. rows \in [IDs -> Row \cup {NoRow}] /\ id \in IDs /\ rows[id] \in Row
  BY DEF Kernel, TypeOK, RowTypeOK, Present
<1>3. u.op \in Status
  BY DEF Status
<1>4. PICK p : p = Patched(u)
  OBVIOUS
<1>5. p \in Row /\ p.key = rows[id].key /\ p.createdAt = rows[id].createdAt
  BY <1>1, <1>2, <1>3, <1>4, StampedRow DEF Patched
<1>6. /\ rows' \in [IDs -> Row \cup {NoRow}] /\ rows'[id] = p
      /\ \A i \in IDs \ {id} : rows'[i] = rows[i]
  BY <1>1, <1>2, <1>4, <1>5 DEF PatchesRow
<1>7. Present' = Present
  BY <1>1, <1>5, <1>6, DriverConstants DEF Present
<1>8. \A i \in Present : rows'[i].key = rows[i].key /\ rows'[i].createdAt = rows[i].createdAt /\ rows'[i] # NoRow
  BY <1>5, <1>6, DriverConstants DEF Present
<1>9. RowsKept(rows')
  BY <1>6, <1>8 DEF RowsKept
<1>10. UniqueKeys'
  BY <1>7, <1>8 DEF UniqueKeys, Kernel
<1>11. QED
  BY <1>1, <1>8, <1>9, <1>10

\* The statement that writes a status.
LEMMA PatchStep ==
    ASSUME Kernel, NEW c \in Clients, NEW u, u.op \in {"read", "delivered"}, u.id \in Present,
           u.op = "read" => rows[u.id].key[2] = u.user,
           Commit(c, [rows EXCEPT ![u.id] = Patched(u)], u), UNCHANGED <<driver, deviceVars>>
    PROVE  IInv'
<1>1. PatchesRow(u) /\ out' = u
  BY DEF Commit, PatchesRow
<1>2. RowsKept(rows') /\ UniqueKeys' /\ rows'[u.id].key = rows[u.id].key
  BY <1>1, PatchedRows
<1>3. PICK new : new = [rows EXCEPT ![u.id] = Patched(u)]
  OBVIOUS
<1>4. Commit(c, new, u) /\ RowsKept(new)
  BY <1>1, <1>2, <1>3 DEF PatchesRow
<1>5. Kernel'
  BY <1>2, <1>4, CommitKeeps
<1>6. AnswerOK'
  BY <1>1, <1>2, AnswersUpdate
<1>7. QED
  BY <1>5, <1>6 DEF IInv

\* UpdateStatus of a row that is found, and that its reader owns.
LEMMA UpdateStatusStep ==
    ASSUME Kernel, NEW c \in Clients, NEW u, u.op \in {"read", "delivered"},
           u.id \in Present /\ u.op = "read" => rows[u.id].key[2] = u.user,
           UpdateStatus(c, u), UNCHANGED deviceVars
    PROVE  IInv'
<1>1. UNCHANGED driver
  BY DEF UpdateStatus
<1>2. CASE Return(c, NoCall) /\ UNCHANGED rows
  <2>1. Kernel'
    BY <1>1, <1>2, ReturnKeeps
  <2>2. out' = NoCall
    BY <1>2 DEF Return
  <2>3. QED
    BY <2>1, <2>2, Silent DEF IInv
<1>3. CASE Finds(u.tenant, u.id) /\ Commit(c, [rows EXCEPT ![u.id] = Patched(u)], u)
  <2>1. u.id \in Present
    BY <1>3 DEF Finds
  <2>2. QED
    BY <1>1, <1>3, <2>1, PatchStep
<1>4. CASE Finds(u.tenant, u.id) /\ Goto(c, "write", u) /\ UNCHANGED rows
  <2>1. u.id \in Present
    BY <1>4 DEF Finds
  <2>2. step'[c] = "write" /\ call'[c] = u /\ out' = NoCall
    BY <1>4 DEF Goto, Kernel, TypeOK, RowTypeOK
  <2>3. CallOK(c)'
    BY <1>4, <2>1, <2>2 DEF CallOK, CreateOK, UpdateOK, QueryOK, DeviceOK, Present
  <2>4. u # NoCall
    BY DEF NoCall
  <2>5. Kernel'
    BY <1>1, <1>4, <2>3, <2>4, GotoKeeps DEF deviceVars, Kernel, TypeOK, DeviceTypeOK, Steps
  <2>6. QED
    BY <2>2, <2>5, Silent DEF IInv
<1>5. QED
  BY <1>2, <1>3, <1>4 DEF UpdateStatus

\* GetNotification lets only the owner of a row go on to update it.
LEMMA GetStep ==
    ASSUME Kernel, NEW c \in Clients, NEW tenant, NEW user, NEW id, Get(c, tenant, user, id), UNCHANGED deviceVars
    PROVE  IInv'
<1>1. UNCHANGED <<driver, rows>>
  BY DEF Get
<1>2. CASE Return(c, NoCall)
  <2>1. Kernel' /\ out' = NoCall
    BY <1>1, <1>2, ReturnKeeps DEF Return
  <2>2. QED
    BY <2>1, Silent DEF IInv
<1>3. CASE Owns(tenant, user, id) /\ Goto(c, "update", [op |-> "read", tenant |-> tenant, user |-> user, id |-> id])
  <2>1. PICK u : u = [op |-> "read", tenant |-> tenant, user |-> user, id |-> id]
    OBVIOUS
  <2>2. u.op = "read" /\ u.user = user /\ u.id = id /\ u # NoCall
    BY <2>1 DEF NoCall
  <2>3. id \in Present /\ rows[id].key[2] = user
    BY <1>3 DEF Owns, Finds
  <2>4. Goto(c, "update", u) /\ step'[c] = "update" /\ call'[c] = u /\ out' = NoCall
    BY <1>3, <2>1 DEF Goto, Kernel, TypeOK, RowTypeOK
  <2>5. CallOK(c)'
    BY <1>1, <2>2, <2>3, <2>4 DEF CallOK, CreateOK, UpdateOK, QueryOK, DeviceOK, Present
  <2>6. Kernel'
    BY <1>1, <2>2, <2>4, <2>5, GotoKeeps DEF deviceVars, Kernel, TypeOK, DeviceTypeOK, Steps
  <2>7. QED
    BY <2>4, <2>6, Silent DEF IInv
<1>4. QED
  BY <1>2, <1>3 DEF Get

\* The steps of a call that updates a status.
LEMMA UpdateSteps ==
    ASSUME Kernel, NEW c \in Clients, UNCHANGED deviceVars,
           \/ Ack(c) \/ Write(c) \/ \E t \in Tenants, id \in IDs : RecordDelivery(c, t, id)
    PROVE  IInv'
<1>1. CASE Ack(c)
  <2>1. step[c] = "update" /\ UpdateStatus(c, call[c])
    BY <1>1 DEF Ack
  <2>2. call[c].op \in {"read", "delivered"} /\ (call[c].op = "read" => rows[call[c].id].key[2] = call[c].user)
    BY <2>1 DEF Kernel, CallOK, UpdateOK
  <2>3. QED
    BY <2>1, <2>2, UpdateStatusStep
<1>2. CASE Write(c)
  <2>1. /\ step[c] = "write" /\ UNCHANGED driver
        /\ Commit(c, [rows EXCEPT ![call[c].id] = Patched(call[c])], call[c])
    BY <1>2 DEF Write
  <2>2. /\ call[c].op \in {"read", "delivered"} /\ call[c].id \in Present
        /\ call[c].op = "read" => rows[call[c].id].key[2] = call[c].user
    BY <2>1 DEF Kernel, CallOK, UpdateOK
  <2>3. QED
    BY <2>1, <2>2, PatchStep
<1>3. ASSUME NEW t \in Tenants, NEW id \in IDs, RecordDelivery(c, t, id) PROVE IInv'
  <2>1. PICK u : u = [op |-> "delivered", tenant |-> t, id |-> id]
    OBVIOUS
  <2>2. u.op = "delivered" /\ UpdateStatus(c, u)
    BY <1>3, <2>1 DEF RecordDelivery
  <2>3. QED
    BY <2>2, UpdateStatusStep
<1>4. QED
  BY <1>1, <1>2, <1>3

-----------------------------------------------------------------------------
(* QueryUserNotifications.                                                 *)

\* Creation times and ids order the rows.
LEMMA NewerOrders ==
    ASSUME NEW f, NEW i \in Int, NEW j \in Int, NEW k \in Int,
           f[i].createdAt \in Int, f[j].createdAt \in Int, f[k].createdAt \in Int,
           Newer(f, j, k), ~Newer(f, i, k)
    PROVE  Newer(f, j, i)
BY DEF Newer

\* There are finitely many rows.
LEMMA FiniteRows ==
    ASSUME NEW S, S \subseteq IDs
    PROVE  IsFiniteSet(S) /\ Cardinality(S) \in Nat
<1>1. IsFiniteSet(IDs)
  BY DriverConstants, FS_Interval DEF IDs
<1>2. QED
  BY <1>1, FS_Subset, FS_CardinalityType

\* A page that leaves a row out has only newer ones.
LEMMA PageIsTop ==
    ASSUME NEW f, NEW ids, ids \subseteq IDs, \A i \in ids : f[i].createdAt \in Int,
           NEW id \in ids, id \notin Page(f, ids), NEW i \in Page(f, ids)
    PROVE  Newer(f, i, id)
<1> DEFINE before(k) == {j \in ids : Newer(f, j, k)}
<1>1. /\ before(i) \subseteq IDs /\ before(id) \subseteq IDs
      /\ i \in ids /\ Cardinality(before(i)) < Limit /\ ~(Cardinality(before(id)) < Limit)
  BY DEF Page
<1>2. SUFFICES ASSUME ~Newer(f, i, id) PROVE FALSE
  OBVIOUS
<1>3. IDs \subseteq Int
  BY DriverConstants DEF IDs
<1>4. before(id) \subseteq before(i)
  BY <1>1, <1>2, <1>3, NewerOrders
<1> HIDE DEF before
<1>5. /\ Cardinality(before(id)) \in Nat /\ Cardinality(before(i)) \in Nat
      /\ Cardinality(before(id)) <= Cardinality(before(i))
  BY <1>1, <1>4, FiniteRows, FS_Subset
<1>6. QED
  BY <1>1, <1>5, DriverConstants

\* What a query answers once it has read all rows that were unread all along.
LEMMA AnswersQuery ==
    ASSUME Kernel, NEW q, NEW f, NEW n, rows' = rows, out' = Listing(q, f, n),
           DOMAIN f \subseteq Present, \A i \in DOMAIN f : f[i].createdAt = rows[i].createdAt,
           q.always \subseteq {i \in DOMAIN f : f[i].status # "read"},
           Cardinality(q.always) <= n, n <= Cardinality(q.ever)
    PROVE  AnswerOK'
<1>1. PICK ids : ids = Matching(f, q.ask)
  OBVIOUS
<1>2. PICK items : items = Page(f, ids)
  OBVIOUS
<1>3. /\ out'.op = "query" /\ out'.cursor = q.ask.cursor /\ out'.always = q.always
      /\ out'.ever = Cardinality(q.ever) /\ out'.items = items /\ out'.more = (ids # items) /\ out'.unread = n
  BY <1>1, <1>2 DEF Listing
<1>4. UnreadWithinWindow'
  BY <1>3 DEF UnreadWithinWindow
<1>5. ASSUME NEW id \in q.always, q.ask.cursor = 0 \/ rows[id].createdAt < q.ask.cursor,
             id \notin items
      PROVE  ids # items /\ \A i \in items : Newer(rows, i, id)
  <2>1. id \in ids
    BY <1>1, <1>5 DEF Matching
  <2>2. ids \subseteq DOMAIN f /\ items \subseteq ids /\ Present \subseteq IDs
    BY <1>1, <1>2 DEF Matching, Page, Present
  <2>3. \A i \in Present : rows[i].createdAt \in Int
    BY DriverConstants, ModelConstants DEF Kernel, TypeOK, RowTypeOK, Present, Row, Stamp
  <2>4. ids \subseteq IDs /\ \A i \in ids : f[i].createdAt \in Int
    BY <2>2, <2>3
  <2>5. ASSUME NEW i \in items PROVE Newer(rows, i, id)
    <3>1. Newer(f, i, id)
      BY <1>2, <1>5, <2>1, <2>4, PageIsTop
    <3>2. f[i].createdAt = rows[i].createdAt /\ f[id].createdAt = rows[id].createdAt
      BY <2>1, <2>2
    <3>3. QED
      BY <3>1, <3>2 DEF Newer
  <2>6. QED
    BY <1>5, <2>1, <2>5
<1>6. PageHasNoHoles'
  <2>1. \A i, j : Newer(rows', i, j) <=> Newer(rows, i, j)
    OBVIOUS
  <2>2. \A id \in out'.always : (out'.cursor = 0 \/ rows'[id].createdAt < out'.cursor) =>
            \/ id \in out'.items
            \/ out'.more /\ \A i \in out'.items : Newer(rows', i, id)
    BY <1>3, <1>5, <2>1
  <2>3. QED
    BY <2>2 DEF PageHasNoHoles, Newer
<1>7. QED
  BY <1>3, <1>4, <1>6 DEF AnswerOK, CreateReturnsStoredRow, ConflictResolves, ReadOnlyByOwner,
                          RegisterReturnsOwnOrLater

\* A query that starts has an exact window.
LEMMA AskedFields ==
    ASSUME NEW ask, NEW read, NEW todo, NEW q, q = Asked(ask, read, todo)
    PROVE  /\ q.op = "query" /\ q.ask = ask /\ q.read = read /\ q.todo = todo
           /\ q.always = UnreadOf(ask) /\ q.ever = UnreadOf(ask)
           /\ QueryRecord(q) /\ q # NoCall
           /\ UnreadOf(ask) \subseteq OfUser(ask.tenant, ask.user)
           /\ OfUser(ask.tenant, ask.user) \subseteq Present /\ Present \subseteq IDs
<1>1. PICK u : u = UnreadOf(ask)
  OBVIOUS
<1>2. q = [op |-> "query", ask |-> ask, read |-> read, todo |-> todo, always |-> u, ever |-> u]
  BY <1>1 DEF Asked, UnreadOf
<1>3. /\ q.op = "query" /\ q.ask = ask /\ q.read = read /\ q.todo = todo /\ q.always = u /\ q.ever = u
      /\ QueryRecord(q)
  BY <1>2 DEF QueryRecord
<1>4. q # NoCall
  BY <1>3 DEF NoCall
<1>5. /\ UnreadOf(ask) \subseteq OfUser(ask.tenant, ask.user)
      /\ OfUser(ask.tenant, ask.user) \subseteq Present /\ Present \subseteq IDs
  BY DEF UnreadOf, Unread, OfUser, Present
<1>6. QED
  BY <1>1, <1>3, <1>4, <1>5

\* The rows as they are, read all at once, are what a query may have read.
LEMMA AskedOK ==
    ASSUME NEW ask, NEW q, NEW f, NEW todo, q = Asked(ask, f, todo), DOMAIN f \subseteq OfUser(ask.tenant, ask.user),
           \A i \in DOMAIN f : f[i] = rows[i], todo \subseteq OfUser(ask.tenant, ask.user),
           OfUser(ask.tenant, ask.user) \subseteq DOMAIN f \cup todo
    PROVE  WindowOK(q) /\ ReadOK(q) /\ TodoOK(q)
<1>1. /\ q.ask = ask /\ q.read = f /\ q.todo = todo /\ q.always = UnreadOf(ask) /\ q.ever = UnreadOf(ask)
      /\ UnreadOf(ask) \subseteq OfUser(ask.tenant, ask.user)
      /\ OfUser(ask.tenant, ask.user) \subseteq Present /\ Present \subseteq IDs
  BY AskedFields
<1>2. \A i \in OfUser(ask.tenant, ask.user) : i \in UnreadOf(ask) <=> rows[i].status # "read"
  BY DEF UnreadOf, Unread
<1>3. WindowOK(q)
  BY <1>1 DEF WindowOK
<1>4. ReadOK(q)
  BY <1>1, <1>2 DEF ReadOK
<1>5. TodoOK(q)
  BY <1>1 DEF TodoOK
<1>6. QED
  BY <1>3, <1>4, <1>5

\* A query goes on to read, with what it remembers.
LEMMA QueryGoesOn ==
    ASSUME Kernel, NEW c \in Clients, NEW next \in {"count", "node"}, NEW q, Goto(c, next, q),
           UNCHANGED <<driver, rows, deviceVars>>,
           QueryRecord(q), WindowOK(q), ReadOK(q), TodoOK(q), next = "count" => q.todo = {}
    PROVE  IInv'
<1>1. step'[c] = next /\ call'[c] = q /\ out' = NoCall
  BY DEF Goto, Kernel, TypeOK, RowTypeOK
<1>2. QueryOK(c)'
  <2>1. QueryRecord(call[c])'
    BY <1>1 DEF QueryRecord
  <2>2. WindowOK(call[c])' /\ ReadOK(call[c])' /\ TodoOK(call[c])'
    BY <1>1 DEF WindowOK, ReadOK, TodoOK, UnreadOf, Unread, OfUser, Present
  <2>3. QED
    BY <1>1, <2>1, <2>2 DEF QueryOK
<1>3. CallOK(c)'
  BY <1>1, <1>2 DEF CallOK, CreateOK, UpdateOK, DeviceOK
<1>4. q # NoCall
  BY DEF QueryRecord, NoCall
<1>5. Kernel'
  BY <1>3, <1>4, GotoKeeps DEF deviceVars, Kernel, TypeOK, DeviceTypeOK, Steps
<1>6. QED
  BY <1>1, <1>5, Silent DEF IInv

\* A query that returns answers with what it remembers.
LEMMA QueryReturns ==
    ASSUME Kernel, NEW c \in Clients, NEW q, NEW n, Return(c, Listing(q, q.read, n)),
           UNCHANGED <<driver, rows, deviceVars>>,
           ReadOK(q), TodoOK(q), q.todo = {},
           Cardinality(q.always) <= n, n <= Cardinality(q.ever)
    PROVE  IInv'
<1>1. out' = Listing(q, q.read, n)
  BY DEF Return
<1>2. Kernel'
  BY ReturnKeeps
<1>3. q.always \subseteq {i \in DOMAIN q.read : q.read[i].status # "read"}
  BY DEF ReadOK, TodoOK
<1>4. DOMAIN q.read \subseteq Present /\ \A i \in DOMAIN q.read : q.read[i].createdAt = rows[i].createdAt
  BY DEF ReadOK
<1>5. PICK f : f = q.read
  OBVIOUS
<1>6. AnswerOK'
  BY <1>1, <1>3, <1>4, <1>5, AnswersQuery
<1>7. QED
  BY <1>2, <1>6 DEF IInv

\* The first statement of a query.
LEMMA QueryStep ==
    ASSUME Kernel, NEW c \in Clients, NEW ask, Query(c, ask), UNCHANGED deviceVars
    PROVE  IInv'
<1>1. PICK mine : mine = OfUser(ask.tenant, ask.user)
  OBVIOUS
<1>2. PICK f : f = [id \in mine |-> rows[id]]
  OBVIOUS
<1>3. UNCHANGED <<driver, rows>>
  BY DEF Query
<1>4. DOMAIN f = mine /\ \A i \in DOMAIN f : f[i] = rows[i]
  BY <1>2
<1>5. CASE Return(c, Listing(Asked(ask, f, {}), f, Cardinality(Unread(mine))))
  <2>1. PICK q : q = Asked(ask, f, {})
    OBVIOUS
  <2>2. q.read = f /\ q.todo = {} /\ q.always = UnreadOf(ask) /\ q.ever = UnreadOf(ask)
    BY <2>1, AskedFields
  <2>3. ReadOK(q) /\ TodoOK(q)
    BY <1>1, <1>4, <2>1, AskedOK
  <2>4. PICK n : n = Cardinality(Unread(mine))
    OBVIOUS
  <2>5. n = Cardinality(UnreadOf(ask)) /\ n \in Nat
    <3>1. UnreadOf(ask) \subseteq IDs /\ UnreadOf(ask) = Unread(mine)
      BY <1>1 DEF UnreadOf, Unread, OfUser, Present
    <3>2. QED
      BY <2>4, <3>1, FiniteRows
  <2>6. Cardinality(q.always) <= n /\ n <= Cardinality(q.ever)
    BY <2>2, <2>5
  <2>7. Return(c, Listing(q, q.read, n))
    BY <1>5, <2>1, <2>2, <2>4
  <2>8. QED
    BY <1>3, <2>2, <2>3, <2>6, <2>7, QueryReturns
<1>6. CASE Goto(c, "count", Asked(ask, f, {}))
  <2>1. PICK q : q = Asked(ask, f, {})
    OBVIOUS
  <2>2. QueryRecord(q) /\ q.todo = {}
    BY <2>1, AskedFields
  <2>3. WindowOK(q) /\ ReadOK(q) /\ TodoOK(q)
    BY <1>1, <1>4, <2>1, AskedOK
  <2>4. Goto(c, "count", q)
    BY <1>6, <2>1
  <2>5. QED
    BY <1>3, <2>2, <2>3, <2>4, QueryGoesOn
<1>7. CASE Goto(c, "node", Asked(ask, <<>>, mine))
  <2>1. PICK none : none = <<>>
    OBVIOUS
  <2>2. DOMAIN none = {}
    BY <2>1
  <2>3. PICK q : q = Asked(ask, none, mine)
    OBVIOUS
  <2>4. QueryRecord(q)
    BY <2>3, AskedFields
  <2>5. WindowOK(q) /\ ReadOK(q) /\ TodoOK(q)
    BY <1>1, <2>2, <2>3, AskedOK
  <2>6. Goto(c, "node", q)
    BY <1>7, <2>1, <2>3
  <2>7. QED
    BY <1>3, <2>4, <2>5, <2>6, QueryGoesOn
<1>8. QED
  BY <1>1, <1>2, <1>5, <1>6, <1>7 DEF Query

\* What a query in flight remembers.
LEMMA InFlight ==
    ASSUME Kernel, NEW c \in Clients, step[c] \in {"count", "node"}
    PROVE  /\ QueryRecord(call[c]) /\ WindowOK(call[c]) /\ ReadOK(call[c]) /\ TodoOK(call[c])
           /\ step[c] = "count" => call[c].todo = {}
BY DEF Kernel, CallOK, QueryOK

\* The count of postgres, a statement later than the page.
LEMMA CountStep ==
    ASSUME Kernel, NEW c \in Clients, Count(c), UNCHANGED deviceVars
    PROVE  IInv'
<1>1. PICK q : q = call[c]
  OBVIOUS
<1>2. WindowOK(q) /\ ReadOK(q) /\ TodoOK(q) /\ q.todo = {}
  BY <1>1, InFlight DEF Count
<1>3. PICK n : n = Cardinality(UnreadOf(q.ask))
  OBVIOUS
<1>4. Return(c, Listing(q, q.read, n)) /\ UNCHANGED <<driver, rows>>
  BY <1>1, <1>3 DEF Count, UnreadOf
<1>5. Cardinality(q.always) <= n /\ n <= Cardinality(q.ever)
  <2>1. q.always \subseteq UnreadOf(q.ask) /\ UnreadOf(q.ask) \subseteq q.ever /\ q.ever \subseteq IDs
    BY <1>2 DEF WindowOK
  <2>2. IsFiniteSet(q.ever) /\ IsFiniteSet(UnreadOf(q.ask))
    BY <2>1, FiniteRows
  <2>3. QED
    BY <1>3, <2>1, <2>2, FS_Subset
<1>6. QED
  BY <1>2, <1>4, <1>5, QueryReturns

\* entdb assembles page and count from the nodes it has read.
LEMMA AssembleStep ==
    ASSUME Kernel, NEW c \in Clients, Assemble(c), UNCHANGED deviceVars
    PROVE  IInv'
<1>1. PICK q : q = call[c]
  OBVIOUS
<1>2. WindowOK(q) /\ ReadOK(q) /\ TodoOK(q) /\ q.todo = {}
  BY <1>1, InFlight DEF Assemble
<1>3. PICK U : U = {id \in DOMAIN q.read : q.read[id].status # "read"}
  OBVIOUS
<1>4. PICK n : n = Cardinality(U)
  OBVIOUS
<1>5. Return(c, Listing(q, q.read, n)) /\ UNCHANGED <<driver, rows>>
  BY <1>1, <1>3, <1>4 DEF Assemble
<1>6. Cardinality(q.always) <= n /\ n <= Cardinality(q.ever)
  <2>1. q.always \subseteq U /\ U \subseteq q.ever /\ q.ever \subseteq IDs
    BY <1>2, <1>3 DEF WindowOK, ReadOK, TodoOK
  <2>2. IsFiniteSet(q.ever) /\ IsFiniteSet(U)
    BY <2>1, FiniteRows
  <2>3. QED
    BY <1>4, <2>1, <2>2, FS_Subset
<1>7. QED
  BY <1>2, <1>5, <1>6, QueryReturns

\* entdb reads one more node.
LEMMA ReadNodeStep ==
    ASSUME Kernel, NEW c \in Clients, ReadNode(c), UNCHANGED deviceVars
    PROVE  IInv'
<1>1. PICK q : q = call[c]
  OBVIOUS
<1>2. QueryRecord(q) /\ WindowOK(q) /\ ReadOK(q) /\ TodoOK(q) /\ UNCHANGED <<driver, rows>>
  BY <1>1, InFlight DEF ReadNode
<1>3. PICK id \in q.todo : Goto(c, "node", NodeRead(q, id))
  BY <1>1 DEF ReadNode
<1>4. PICK rd, td, al, ev, ask : rd = q.read /\ td = q.todo /\ al = q.always /\ ev = q.ever /\ ask = q.ask
  OBVIOUS
<1>5. q = [op |-> "query", ask |-> ask, read |-> rd, todo |-> td, always |-> al, ever |-> ev]
  BY <1>2, <1>4 DEF QueryRecord
<1>6. PICK more : more = [i \in DOMAIN rd \cup {id} |-> IF i = id THEN rows[id] ELSE rd[i]]
  OBVIOUS
<1>7. PICK new : new = NodeRead(q, id)
  OBVIOUS
<1>8. new = [op |-> "query", ask |-> ask, read |-> more, todo |-> td \ {id}, always |-> al, ever |-> ev]
  <2>1. new = [q EXCEPT !.read = more, !.todo = td \ {id}]
    BY <1>4, <1>6, <1>7 DEF NodeRead
  <2>2. QED
    BY <1>5, <2>1
<1>9. /\ new.ask = ask /\ new.read = more /\ new.todo = td \ {id} /\ new.always = al /\ new.ever = ev
      /\ QueryRecord(new)
  BY <1>8 DEF QueryRecord
<1>10. /\ DOMAIN more = DOMAIN rd \cup {id} /\ more[id] = rows[id]
       /\ \A i \in DOMAIN rd \ {id} : more[i] = rd[i]
  BY <1>6
<1>11. WindowOK(new)
  BY <1>2, <1>4, <1>9 DEF WindowOK
<1>12. id \in OfUser(ask.tenant, ask.user) /\ (rows[id].status # "read" <=> id \in UnreadOf(ask))
  BY <1>2, <1>3, <1>4 DEF TodoOK, UnreadOf, Unread
<1>13. ReadOK(new)
  <2>1. id \in Present
    BY <1>12 DEF OfUser
  <2>2. /\ id \in al => rows[id].status # "read"
        /\ rows[id].status # "read" => id \in ev
    BY <1>2, <1>4, <1>12 DEF WindowOK
  <2>3. QED
    BY <1>2, <1>4, <1>9, <1>10, <2>1, <2>2 DEF ReadOK
<1>14. TodoOK(new)
  BY <1>2, <1>4, <1>9, <1>10 DEF TodoOK
<1>15. Goto(c, "node", new)
  BY <1>3, <1>7
<1>16. QED
  BY <1>2, <1>9, <1>11, <1>13, <1>14, <1>15, QueryGoesOn

-----------------------------------------------------------------------------
(* UpsertDevice.                                                           *)

\* Devices with c's token.
LEMMA TokenIsOwn ==
    ASSUME NEW c \in Clients
    PROVE  /\ C!Fresh(c) \in C!Device /\ C!Fresh(c).token = c
           /\ \A d \in C!Device : C!Rotated(d, c) \in C!Device /\ C!Rotated(d, c).token = c
           /\ NoDevice \notin C!Device
BY DeviceConstants DEF C!Fresh, C!Rotated, C!Device

\* A registration writes its token: every other one that has written its own
\* sees a later token, the others see a device.
LEMMA PutKeeps ==
    ASSUME Kernel, NEW c \in Clients, NEW k \in DeviceKeys, NEW v \in C!Device, v.token = c,
           Put(k, v, c), UNCHANGED <<driver, rows>>, NEW next \in {"idle", "readBack"}, NEW locals,
           step' = [step EXCEPT ![c] = next], call' = [call EXCEPT ![c] = locals],
           next = "idle" => locals = NoCall,
           next = "readBack" => locals.op = "register" /\ locals.key = k
    PROVE  Kernel' /\ since'[c] = {c}
<1> USE DEF Kernel
<1>1. /\ step' \in [Clients -> Steps] /\ step'[c] = next /\ call'[c] = locals
      /\ call' = [d \in Clients |-> call'[d]]
      /\ \A d \in Clients \ {c} : step'[d] = step[d] /\ call'[d] = call[d]
  BY DEF TypeOK, RowTypeOK, Steps
<1>2. /\ devices' \in [DeviceKeys -> C!Device \cup {NoDevice}]
      /\ devices'[k] = v /\ \A j \in DeviceKeys \ {k} : devices'[j] = devices[j]
  BY DEF Put, TypeOK, DeviceTypeOK
<1>3. since' \in [Clients -> SUBSET Clients] /\ since'[c] = {c}
  BY DEF Put, TypeOK, DeviceTypeOK
<1>4. \A d \in Clients \ {c} :
         since'[d] = IF call[d].op = "register" /\ call[d].key = k /\ since[d] # {}
                       THEN since[d] \cup {c} ELSE since[d]
  BY DEF Put
<1>5. rows' = rows /\ driver' = driver
  OBVIOUS
<1>6. v # NoDevice
  BY TokenIsOwn
<1>7. TypeOK'
  <2>1. \A d \in Clients : step'[d] = "idle" <=> call'[d] = NoCall
    <3>1. locals.op = "register" => locals # NoCall
      BY DEF NoCall
    <3>2. QED
      BY <1>1, <3>1 DEF TypeOK, RowTypeOK
  <2>2. QED
    BY <1>1, <1>2, <1>3, <1>5, <2>1 DEF TypeOK, RowTypeOK, DeviceTypeOK, Steps
<1>8. UniqueKeys'
  BY <1>5 DEF UniqueKeys, Present
<1>9. ASSUME NEW d \in Clients PROVE CallOK(d)'
  <2>1. CASE d = c /\ next = "idle"
    BY <1>1, <2>1 DEF CallOK, CreateOK, UpdateOK, QueryOK, DeviceOK
  <2>2. CASE d = c /\ next = "readBack"
    BY <1>1, <1>2, <1>3, <1>6, <2>2 DEF CallOK, CreateOK, UpdateOK, QueryOK, DeviceOK
  <2>3. CASE d # c
    <3>1. CallOK(d)
      OBVIOUS
    <3>2. CreateOK(d)' /\ UpdateOK(d)'
      BY <1>1, <1>5, <2>3, <3>1 DEF CallOK, CreateOK, UpdateOK, Present
    <3>3. QueryOK(d)'
      BY <1>1, <1>5, <2>3, <3>1
         DEF CallOK, QueryOK, QueryRecord, WindowOK, ReadOK, TodoOK, UnreadOf, Unread, OfUser, Present
    <3>4. DeviceOK(d)'
      <4>1. DeviceOK(d) /\ step'[d] = step[d] /\ call'[d] = call[d]
        BY <1>1, <2>3, <3>1 DEF CallOK
      <4>2. QED
        BY <1>2, <1>4, <1>6, <2>3, <4>1 DEF DeviceOK
    <3>5. QED
      BY <3>2, <3>3, <3>4 DEF CallOK
  <2>4. QED
    BY <2>1, <2>2, <2>3
<1>10. QED
  BY <1>1, <1>3, <1>7, <1>8, <1>9

\* What a registration answers.
LEMMA AnswersRegister ==
    ASSUME NEW c, NEW token, out' = Registered(c, token), token \in since'[c]
    PROVE  AnswerOK'
<1>1. out'.op = "registered" /\ out'.client = c /\ out'.token = token
  BY DEF Registered
<1>2. QED
  BY <1>1 DEF AnswerOK, CreateReturnsStoredRow, ConflictResolves, ReadOnlyByOwner,
              RegisterReturnsOwnOrLater, UnreadWithinWindow, PageHasNoHoles

\* The step is a registration of the contract.
LEMMA PutRegisters ==
    ASSUME NEW c \in Clients, NEW k \in DeviceKeys,
           Put(k, IF devices[k] = NoDevice THEN C!Fresh(c) ELSE C!Rotated(devices[k], c), c)
    PROVE  C!Next
<1>1. devices' = [devices EXCEPT ![k] = IF devices[k] = NoDevice THEN C!Fresh(c) ELSE C!Rotated(devices[k], c)]
  BY DEF Put
<1>2. C!Register(k, c)
  BY <1>1 DEF C!Register
<1>3. QED
  BY <1>2 DEF C!Next

\* A registration in one step, or its first one.
LEMMA UpsertDeviceStep ==
    ASSUME Kernel, NEW c \in Clients, NEW k \in DeviceKeys, UpsertDevice(c, k)
    PROVE  IInv' /\ [C!Next]_devices
<1>1. UNCHANGED <<driver, rows>>
  BY DEF UpsertDevice
<1>2. devices[k] \in C!Device \cup {NoDevice}
  BY DEF Kernel, TypeOK, DeviceTypeOK
<1>3. CASE /\ Put(k, IF devices[k] = NoDevice THEN C!Fresh(c) ELSE C!Rotated(devices[k], c), c)
           /\ Return(c, Registered(c, c))
  <2>1. PICK v : v = IF devices[k] = NoDevice THEN C!Fresh(c) ELSE C!Rotated(devices[k], c)
    OBVIOUS
  <2>2. v \in C!Device /\ v.token = c
    BY <1>2, <2>1, TokenIsOwn
  <2>3. Put(k, v, c)
    BY <1>3, <2>1
  <2>4. step' = [step EXCEPT ![c] = "idle"] /\ call' = [call EXCEPT ![c] = NoCall] /\ out' = Registered(c, c)
    BY <1>3 DEF Return
  <2>5. Kernel' /\ since'[c] = {c}
    BY <1>1, <2>2, <2>3, <2>4, PutKeeps
  <2>6. AnswerOK'
    BY <2>4, <2>5, AnswersRegister
  <2>7. C!Next
    BY <1>3, PutRegisters
  <2>8. QED
    BY <2>5, <2>6, <2>7 DEF IInv
<1>4. CASE /\ devices[k] = NoDevice
           /\ Put(k, C!Fresh(c), c)
           /\ Goto(c, "readBack", [op |-> "register", key |-> k])
  <2>1. C!Fresh(c) \in C!Device /\ C!Fresh(c).token = c
    BY TokenIsOwn
  <2>2. PICK locals : locals = [op |-> "register", key |-> k]
    OBVIOUS
  <2>3. locals.op = "register" /\ locals.key = k
    BY <2>2
  <2>4. step' = [step EXCEPT ![c] = "readBack"] /\ call' = [call EXCEPT ![c] = locals] /\ out' = NoCall
    BY <1>4, <2>2 DEF Goto
  <2>5. Kernel'
    BY <1>1, <1>4, <2>1, <2>3, <2>4, PutKeeps
  <2>6. C!Next
    BY <1>4, PutRegisters
  <2>7. QED
    BY <2>4, <2>5, <2>6, Silent DEF IInv
<1>5. CASE /\ devices[k] # NoDevice
           /\ Goto(c, "findDevice", [op |-> "register", key |-> k])
           /\ since' = [since EXCEPT ![c] = {}]
           /\ UNCHANGED devices
  <2>1. PICK locals : locals = [op |-> "register", key |-> k]
    OBVIOUS
  <2>2. locals.op = "register" /\ locals.key = k /\ locals # NoCall
    BY <2>1 DEF NoCall
  <2>3. Goto(c, "findDevice", locals) /\ step'[c] = "findDevice" /\ call'[c] = locals /\ out' = NoCall
    BY <1>5, <2>1 DEF Goto, Kernel, TypeOK, RowTypeOK
  <2>4. since' \in [Clients -> SUBSET Clients] /\ \A d \in Clients \ {c} : since'[d] = since[d]
    BY <1>5 DEF Kernel, TypeOK, DeviceTypeOK
  <2>5. CallOK(c)'
    BY <1>5, <2>2, <2>3 DEF CallOK, CreateOK, UpdateOK, QueryOK, DeviceOK
  <2>6. Kernel'
    BY <1>1, <1>5, <2>2, <2>3, <2>4, <2>5, GotoKeeps DEF Steps
  <2>7. QED
    BY <1>5, <2>3, <2>6, Silent DEF IInv
<1>6. QED
  BY <1>3, <1>4, <1>5 DEF UpsertDevice

\* The later steps of entdb's registration.
LEMMA DeviceSteps ==
    ASSUME Kernel, NEW c \in Clients, FindDevice(c) \/ Rotate(c) \/ ReadBack(c)
    PROVE  IInv' /\ [C!Next]_devices
<1>1. PICK k : k = call[c].key
  OBVIOUS
<1>2. /\ call[c].op = "register" /\ k \in DeviceKeys /\ devices[k] \in C!Device /\ devices[k] # NoDevice
      /\ step[c] = "readBack" => devices[k].token \in since[c]
  BY <1>1 DEF FindDevice, Rotate, ReadBack, Kernel, CallOK, DeviceOK, TypeOK, DeviceTypeOK
<1>3. CASE FindDevice(c)
  <2>1. Goto(c, "rotate", call[c]) /\ UNCHANGED <<driver, rows, deviceVars>>
    BY <1>1, <1>2, <1>3 DEF FindDevice
  <2>2. PICK locals : locals = call[c]
    OBVIOUS
  <2>3. Goto(c, "rotate", locals) /\ step'[c] = "rotate" /\ call'[c] = locals /\ out' = NoCall
    BY <2>1, <2>2 DEF Goto, Kernel, TypeOK, RowTypeOK
  <2>4. locals # NoCall
    BY <1>2, <2>2 DEF NoCall
  <2>5. CallOK(c)'
    BY <1>1, <1>2, <2>1, <2>2, <2>3 DEF CallOK, CreateOK, UpdateOK, QueryOK, DeviceOK, deviceVars
  <2>6. Kernel'
    BY <2>1, <2>3, <2>4, <2>5, GotoKeeps DEF Steps, deviceVars, Kernel, TypeOK, DeviceTypeOK
  <2>7. QED
    BY <2>1, <2>3, <2>6, Silent DEF IInv, deviceVars
<1>4. CASE Rotate(c)
  <2>1. Put(k, C!Rotated(devices[k], c), c) /\ Goto(c, "readBack", call[c]) /\ UNCHANGED <<driver, rows>>
    BY <1>1, <1>4 DEF Rotate
  <2>2. PICK v : v = C!Rotated(devices[k], c)
    OBVIOUS
  <2>3. v \in C!Device /\ v.token = c /\ Put(k, v, c)
    BY <1>2, <2>1, <2>2, TokenIsOwn
  <2>4. PICK locals : locals = call[c]
    OBVIOUS
  <2>5. step' = [step EXCEPT ![c] = "readBack"] /\ call' = [call EXCEPT ![c] = locals] /\ out' = NoCall
    BY <2>1, <2>4 DEF Goto
  <2>6. Kernel'
    BY <1>1, <1>2, <2>1, <2>3, <2>4, <2>5, PutKeeps
  <2>7. C!Next
    BY <1>2, <2>1, PutRegisters
  <2>8. QED
    BY <2>5, <2>6, <2>7, Silent DEF IInv
<1>5. CASE ReadBack(c)
  <2>1. Return(c, Registered(c, devices[k].token)) /\ UNCHANGED <<driver, rows, deviceVars>> /\ step[c] = "readBack"
    BY <1>1, <1>5 DEF ReadBack
  <2>2. PICK token : token = devices[k].token
    OBVIOUS
  <2>3. out' = Registered(c, token) /\ token \in since'[c]
    BY <1>2, <2>1, <2>2 DEF Return, deviceVars
  <2>4. Kernel' /\ AnswerOK'
    BY <2>1, <2>3, ReturnKeeps, AnswersRegister
  <2>5. QED
    BY <2>1, <2>4 DEF IInv, deviceVars
<1>6. QED
  BY <1>3, <1>4, <1>5

-----------------------------------------------------------------------------
(* The theorems.                                                           *)

\* The invariant holds of an empty store.
LEMMA InitIInv == Init => IInv
<1> SUFFICES ASSUME Init PROVE IInv
  OBVIOUS
<1>1. Kernel
  <2>1. Present = {}
    BY DEF Init, RowInit, Present
  <2>2. TypeOK
    BY DEF Init, RowInit, DeviceInit, TypeOK, RowTypeOK, DeviceTypeOK
  <2>3. \A c \in Clients : CallOK(c)
    BY DEF Init, RowInit, CallOK, CreateOK, UpdateOK, QueryOK, DeviceOK
  <2>4. QED
    BY <2>1, <2>2, <2>3 DEF Init, RowInit, Kernel, UniqueKeys
<1>2. out.op = "none"
  BY DEF Init, RowInit, NoCall
<1>3. AnswerOK
  BY <1>2 DEF AnswerOK, CreateReturnsStoredRow, ConflictResolves, ReadOnlyByOwner,
              RegisterReturnsOwnOrLater, UnreadWithinWindow, PageHasNoHoles
<1>4. QED
  BY <1>1, <1>3 DEF IInv

\* Every statement of every call keeps the invariant, and is a registration of
\* the device contract or leaves the devices alone.
LEMMA NextIInv == IInv /\ [Next]_vars => IInv' /\ [C!Next]_devices
<1> SUFFICES ASSUME IInv, [Next]_vars PROVE IInv' /\ [C!Next]_devices
  OBVIOUS
<1> USE DEF IInv
<1>1. ASSUME NEW c \in Clients, RowNext(c) PROVE IInv' /\ [C!Next]_devices
  <2>1. UNCHANGED deviceVars
    BY <1>1 DEF RowNext
  <2>2. ASSUME NEW p \in Creates, Create(c, p[1], p[2]) PROVE IInv'
    <3>1. p[1] \in Key /\ p[2] \in Stamp
      BY DriverConstants
    <3>2. QED
      BY <2>1, <2>2, <3>1, CreateStep
  <2>3. ASSUME NEW t \in Tenants, NEW u \in Users, NEW id \in IDs \cup {BadID}, Get(c, t, u, id) PROVE IInv'
    BY <2>1, <2>3, GetStep
  <2>4. ASSUME NEW t \in Tenants, NEW id \in IDs, RecordDelivery(c, t, id) PROVE IInv'
    BY <2>1, <2>4, UpdateSteps
  <2>5. ASSUME NEW q \in Queries, Query(c, q) PROVE IInv'
    BY <2>1, <2>5, QueryStep
  <2>6. CASE FindExisting(c)
    BY <2>1, <2>6, FindExistingStep DEF deviceVars
  <2>7. CASE Ack(c) \/ Write(c)
    BY <2>1, <2>7, UpdateSteps DEF deviceVars
  <2>8. CASE Count(c)
    BY <2>1, <2>8, CountStep DEF deviceVars
  <2>9. CASE ReadNode(c)
    BY <2>1, <2>9, ReadNodeStep DEF deviceVars
  <2>10. CASE Assemble(c)
    BY <2>1, <2>10, AssembleStep DEF deviceVars
  <2>11. QED
    BY <1>1, <2>1, <2>2, <2>3, <2>4, <2>5, <2>6, <2>7, <2>8, <2>9, <2>10 DEF RowNext, deviceVars
<1>2. ASSUME NEW c \in Clients, DeviceNext(c) PROVE IInv' /\ [C!Next]_devices
  <2>1. ASSUME NEW u \in Users, NEW type \in DeviceTypes, RegisterPushToken(c, u, type)
        PROVE  IInv' /\ [C!Next]_devices
    <3>1. <<u, type>> \in DeviceKeys /\ UpsertDevice(c, <<u, type>>)
      BY <2>1 DEF RegisterPushToken, DeviceKeys
    <3>2. PICK k \in DeviceKeys : k = <<u, type>>
      BY <3>1
    <3>3. QED
      BY <3>1, <3>2, UpsertDeviceStep
  <2>2. QED
    BY <1>2, <2>1, DeviceSteps DEF DeviceNext
<1>3. ASSUME NEW c \in Clients, Fails(c) PROVE IInv' /\ [C!Next]_devices
  <2>1. Return(c, NoCall) /\ UNCHANGED <<driver, rows, deviceVars>>
    BY <1>3 DEF Fails, CallFails
  <2>2. Kernel' /\ out' = NoCall
    BY <2>1, ReturnKeeps DEF Return
  <2>3. QED
    BY <2>1, <2>2, Silent DEF deviceVars
<1>4. CASE UNCHANGED vars
  <2>1. /\ driver' = driver /\ rows' = rows /\ step' = step /\ call' = call /\ out' = out
        /\ devices' = devices /\ since' = since
    BY <1>4 DEF vars, rowVars, deviceVars
  <2>2. \A c \in Clients : CallOK(c)'
    BY <2>1, Untouched DEF Kernel
  <2>3. Kernel'
    BY <2>1, <2>2 DEF Kernel, TypeOK, RowTypeOK, DeviceTypeOK, UniqueKeys, Present
  <2>4. AnswerOK'
    BY <2>1 DEF AnswerOK, CreateReturnsStoredRow, ConflictResolves, ReadOnlyByOwner,
                RegisterReturnsOwnOrLater, UnreadWithinWindow, PageHasNoHoles, Present, Newer
  <2>5. QED
    BY <2>1, <2>3, <2>4
<1>5. QED
  BY <1>1, <1>2, <1>3, <1>4 DEF Next

\* Whatever the driver and however the statements of calls interleave, the
\* answers to creates, acknowledgements and registrations are true.
THEOREM WritesAnswered == Spec => []WritesAreAnsweredTruly
<1>1. IInv => WritesAreAnsweredTruly
  BY DEF IInv, Kernel, AnswerOK, WritesAreAnsweredTruly
<1>2. QED
  BY <1>1, InitIInv, NextIInv, PTL DEF Spec

\* The page and the unread count of a query fit the time the query took,
\* although its statements are not one transaction.
THEOREM QueriesFit == Spec => []QueryFitsItsWindow
<1>1. IInv => QueryFitsItsWindow
  BY DEF IInv, AnswerOK, QueryFitsItsWindow
<1>2. QED
  BY <1>1, InitIInv, NextIInv, PTL DEF Spec

\* Each registration is one atomic registration of the device contract.
THEOREM DevicesRefineContract == Spec => ImplementsDeviceContract
<1>1. Init => C!Init
  BY DEF Init, DeviceInit, C!Init
<1>2. QED
  BY <1>1, InitIInv, NextIInv, PTL DEF Spec, ImplementsDeviceContract, C!Spec

-----------------------------------------------------------------------------
(* The rows are the contract's mailbox.                                    *)

\* The mailbox of the rows r.
MailOf(r) == [k \in Key |-> LET ids == {id \in {i \in IDs : r[i] # NoRow} : r[id].key = k}
                            IN  IF ids = {} THEN NoRow ELSE r[CHOOSE id \in ids : TRUE]]

UniqueIn(r) == \A i, j \in IDs : r[i] # NoRow /\ r[j] # NoRow /\ r[i].key = r[j].key => i = j

\* The mailbox shows every row under its key, and nothing else.
LEMMA MailShowsRows ==
    ASSUME NEW r, UniqueIn(r), NEW k \in Key
    PROVE  /\ \A id \in IDs : r[id] # NoRow /\ r[id].key = k => MailOf(r)[k] = r[id]
           /\ (\A id \in IDs : r[id] # NoRow => r[id].key # k) => MailOf(r)[k] = NoRow
<1> DEFINE ids == {id \in {i \in IDs : r[i] # NoRow} : r[id].key = k}
<1>1. MailOf(r)[k] = IF ids = {} THEN NoRow ELSE r[CHOOSE id \in ids : TRUE]
  BY DEF MailOf
<1>2. ASSUME NEW id \in IDs, r[id] # NoRow, r[id].key = k PROVE MailOf(r)[k] = r[id]
  <2>1. ids = {id}
    BY <1>2 DEF UniqueIn
  <2> HIDE DEF ids
  <2>2. (CHOOSE i \in ids : TRUE) = id
    BY <2>1
  <2>3. QED
    BY <1>1, <2>1, <2>2
<1>3. ASSUME \A id \in IDs : r[id] # NoRow => r[id].key # k PROVE MailOf(r)[k] = NoRow
  <2>1. ids = {}
    BY <1>3
  <2>2. QED
    BY <1>1, <2>1
<1>4. QED
  BY <1>2, <1>3

\* A mailbox that changes under one key.
LEMMA MailChanges ==
    ASSUME NEW k \in Key, \A q \in Key : q # k => Mailbox'[q] = Mailbox[q]
    PROVE  Mailbox' = [Mailbox EXCEPT ![k] = Mailbox'[k]]
<1>1. PICK m : m = Mailbox
  OBVIOUS
<1>2. PICK n : n = Mailbox'
  OBVIOUS
<1>3. DOMAIN m = Key /\ m = [q \in Key |-> m[q]]
  BY <1>1 DEF Mailbox
<1>4. DOMAIN n = Key /\ n = [q \in Key |-> n[q]]
  BY <1>2 DEF Mailbox
<1>5. \A q \in Key : q # k => n[q] = m[q]
  BY <1>1, <1>2
<1>6. n = [m EXCEPT ![k] = n[k]]
  BY <1>3, <1>4, <1>5
<1>7. QED
  BY <1>1, <1>2, <1>6

\* How the rows change: not at all, by a new row, or by a patch of one row.
Inserts(id, k, at) ==
    k \in Key /\ at \in Stamp /\ id \in IDs \ Present /\ WithKey(k) = {} /\ rows' = [rows EXCEPT ![id] = NewRow(k, "in_app", at)]
Patches(u) == u.op \in {"read", "delivered"} /\ u.id \in Present /\ PatchesRow(u)

\* No statement changes the rows in another way.
LEMMA RowsChange ==
    ASSUME Kernel, NEW c \in Clients, RowNext(c)
    PROVE  UNCHANGED rows \/ (\E id, k, at : Inserts(id, k, at)) \/ (\E u : Patches(u))
<1>1. ASSUME NEW p \in Creates, Create(c, p[1], p[2])
      PROVE  UNCHANGED rows \/ \E id, k, at : Inserts(id, k, at)
  <2>1. p[1] \in Key /\ p[2] \in Stamp
    BY DriverConstants
  <2>2. PICK k, at : k = p[1] /\ at = p[2]
    OBVIOUS
  <2>3. Create(c, k, at)
    BY <1>1, <2>2
  <2>4. CASE /\ WithKey(k) = {}
             /\ \E id \in IDs \ Present : Commit(c, [rows EXCEPT ![id] = NewRow(k, "in_app", at)],
                                                 [op |-> "create", key |-> k, id |-> id])
    <3>1. PICK id \in IDs \ Present : Commit(c, [rows EXCEPT ![id] = NewRow(k, "in_app", at)],
                                             [op |-> "create", key |-> k, id |-> id])
      BY <2>4
    <3>2. Inserts(id, k, at)
      BY <2>1, <2>2, <2>4, <3>1 DEF Inserts, Commit
    <3>3. QED
      BY <3>2
  <2>5. QED
    BY <2>3, <2>4 DEF Create
<1>2. ASSUME NEW u, u.op \in {"read", "delivered"}, UpdateStatus(c, u)
      PROVE  UNCHANGED rows \/ Patches(u)
  BY <1>2 DEF UpdateStatus, Patches, PatchesRow, Commit, Finds
<1>3. CASE Ack(c)
  <2>1. call[c].op \in {"read", "delivered"} /\ UpdateStatus(c, call[c])
    BY <1>3 DEF Ack, Kernel, CallOK, UpdateOK
  <2>2. QED
    BY <1>2, <2>1
<1>4. CASE Write(c)
  <2>1. PICK u : u = call[c]
    OBVIOUS
  <2>2. u.op \in {"read", "delivered"} /\ u.id \in Present /\ PatchesRow(u)
    BY <1>4, <2>1 DEF Write, Kernel, CallOK, UpdateOK, Commit, PatchesRow
  <2>3. QED
    BY <2>2 DEF Patches
<1>5. ASSUME NEW t \in Tenants, NEW id \in IDs, RecordDelivery(c, t, id)
      PROVE  UNCHANGED rows \/ \E u : Patches(u)
  <2>1. PICK u : u = [op |-> "delivered", tenant |-> t, id |-> id]
    OBVIOUS
  <2>2. u.op = "delivered" /\ UpdateStatus(c, u)
    BY <1>5, <2>1 DEF RecordDelivery
  <2>3. QED
    BY <1>2, <2>2
<1>6. ASSUME NEW t \in Tenants, NEW u \in Users, NEW id \in IDs \cup {BadID}, Get(c, t, u, id) PROVE UNCHANGED rows
  BY <1>6 DEF Get
<1>7. ASSUME NEW q \in Queries, Query(c, q) PROVE UNCHANGED rows
  BY <1>7 DEF Query
<1>8. CASE FindExisting(c) \/ Count(c) \/ ReadNode(c) \/ Assemble(c)
  BY <1>8 DEF FindExisting, Count, ReadNode, Assemble
<1>9. QED
  BY <1>1, <1>3, <1>4, <1>5, <1>6, <1>7, <1>8 DEF RowNext

\* A row inserted shows in the mailbox under its own key only.
LEMMA InsertSimulates ==
    ASSUME Kernel, Kernel', NEW id, NEW k, NEW at, Inserts(id, k, at)
    PROVE  Rows!Insert(k)
<1>1. UniqueIn(rows) /\ UniqueIn(rows')
  BY DEF Kernel, UniqueKeys, UniqueIn, Present
<1>2. Mailbox = MailOf(rows) /\ Mailbox' = MailOf(rows')
  BY Zenon DEF Mailbox, MailOf, Present
<1>3. k \in Key /\ at \in Stamp /\ id \in IDs
  BY DEF Inserts
<1>4. RowsKept(rows') /\ id \in Present' /\ rows'[id].key = k
  BY Inserted DEF Inserts
<1>5. rows'[id] = NewRow(k, "in_app", at) /\ \A i \in IDs \ {id} : rows'[i] = rows[i]
  BY DEF Inserts, Kernel, TypeOK, RowTypeOK
<1>6. \A i \in Present : rows[i].key # k
  BY <1>3, WithKeyIsKey DEF Inserts, Kernel
<1>7. Mailbox[k] = NoRow
  BY <1>1, <1>2, <1>3, <1>6, MailShowsRows DEF Present
<1>8. Mailbox'[k] = NewRow(k, "in_app", at)
  BY <1>1, <1>2, <1>3, <1>4, <1>5, MailShowsRows DEF Present
<1>9. ASSUME NEW q \in Key, q # k PROVE Mailbox'[q] = Mailbox[q]
  <2>1. CASE \E i \in Present : rows[i].key = q
    <3>1. PICK i \in IDs : rows[i] # NoRow /\ rows[i].key = q
      BY <2>1 DEF Present
    <3>2. rows'[i] = rows[i]
      BY <1>4, <1>5, <1>9, <3>1 DEF Inserts, Present
    <3>3. Mailbox[q] = rows[i] /\ Mailbox'[q] = rows'[i]
      BY <1>1, <1>2, <3>1, <3>2, MailShowsRows
    <3>4. QED
      BY <3>2, <3>3
  <2>2. CASE \A i \in Present : rows[i].key # q
    <3>1. \A i \in IDs : rows[i] # NoRow => rows[i].key # q
      BY <2>2 DEF Present
    <3>2. \A i \in IDs : rows'[i] # NoRow => rows'[i].key # q
      BY <1>4, <1>5, <1>9, <3>1
    <3>3. Mailbox[q] = NoRow /\ Mailbox'[q] = NoRow
      BY <1>1, <1>2, <3>1, <3>2, MailShowsRows
    <3>4. QED
      BY <3>3
  <2>3. QED
    BY <2>1, <2>2
<1>10. Mailbox' = [Mailbox EXCEPT ![k] = NewRow(k, "in_app", at)]
  BY <1>3, <1>8, <1>9, MailChanges
<1>11. PICK kind \in Channels : kind = "in_app"
  BY ModelConstants
<1>12. Mailbox' = [Mailbox EXCEPT ![k] = Rows!NewRow(k, kind, at)]
  BY <1>10, <1>11 DEF Rows!NewRow, NewRow
<1>13. at \in Rows!Stamp
  BY <1>3 DEF Rows!Stamp, Stamp
<1>14. QED
  BY <1>7, <1>12, <1>13 DEF Rows!Insert

\* A patched row is restamped in the mailbox.
LEMMA PatchSimulates ==
    ASSUME Kernel, Kernel', NEW u, Patches(u)
    PROVE  \E k \in Key : Rows!SetStatus(k)
<1>1. UniqueIn(rows) /\ UniqueIn(rows')
  BY DEF Kernel, UniqueKeys, UniqueIn, Present
<1>2. Mailbox = MailOf(rows) /\ Mailbox' = MailOf(rows')
  BY Zenon DEF Mailbox, MailOf, Present
<1>3. PICK id \in Present : id = u.id
  BY DEF Patches
<1>4. PICK status \in Status : status = u.op
  BY DEF Patches, Status
<1>5. rows \in [IDs -> Row \cup {NoRow}] /\ id \in IDs /\ rows[id] \in Row /\ rows[id] # NoRow
  BY DEF Kernel, TypeOK, RowTypeOK, Present
<1>6. PICK k \in Key : k = rows[id].key
  BY <1>5 DEF Row
<1>7. RowsKept(rows') /\ rows'[id].key = k
  BY <1>3, <1>6, PatchedRows DEF Patches
<1>8. rows'[id] = Stamped(rows[id], status, MaxTime) /\ \A i \in IDs \ {id} : rows'[i] = rows[i]
  BY <1>3, <1>4, <1>5 DEF Patches, PatchesRow, Patched
<1>9. rows'[id] # NoRow
  BY <1>7 DEF RowsKept
<1>10. Mailbox[k] = rows[id] /\ Mailbox'[k] = rows'[id]
  BY <1>1, <1>2, <1>5, <1>6, <1>7, <1>9, MailShowsRows
<1>11. ASSUME NEW q \in Key, q # k PROVE Mailbox'[q] = Mailbox[q]
  <2>1. CASE \E i \in IDs : rows[i] # NoRow /\ rows[i].key = q
    <3>1. PICK i \in IDs : rows[i] # NoRow /\ rows[i].key = q
      BY <2>1
    <3>2. rows'[i] = rows[i]
      BY <1>6, <1>8, <1>11, <3>1
    <3>3. Mailbox[q] = rows[i] /\ Mailbox'[q] = rows'[i]
      BY <1>1, <1>2, <3>1, <3>2, MailShowsRows
    <3>4. QED
      BY <3>2, <3>3
  <2>2. CASE \A i \in IDs : rows[i] # NoRow => rows[i].key # q
    <3>1. \A i \in IDs : rows'[i] # NoRow => rows'[i].key # q
      BY <1>7, <1>8, <1>11, <2>2
    <3>2. Mailbox[q] = NoRow /\ Mailbox'[q] = NoRow
      BY <1>1, <1>2, <2>2, <3>1, MailShowsRows
    <3>3. QED
      BY <3>2
  <2>3. QED
    BY <2>1, <2>2
<1>12. Mailbox' = [Mailbox EXCEPT ![k] = Stamped(Mailbox[k], status, MaxTime)]
  BY <1>8, <1>10, <1>11, MailChanges
<1>13. MaxTime \in Stamp
  BY ModelConstants DEF Stamp
<1>14. Rows!SetStatus(k)
  <2>1. Mailbox' = [Mailbox EXCEPT ![k] = Rows!Stamped(Mailbox[k], status, MaxTime)]
    BY <1>12 DEF Rows!Stamped, Stamped
  <2>2. MaxTime \in Rows!Stamp /\ status \in Rows!Status
    BY <1>13 DEF Rows!Stamp, Stamp, Rows!Status, Status
  <2>3. Mailbox[k] # NoRow
    BY <1>5, <1>10
  <2>4. QED
    BY <2>1, <2>2, <2>3 DEF Rows!SetStatus
<1>15. QED
  BY <1>14

\* Every statement is a step of the mailbox or leaves it alone.
LEMMA RowsSimulate == IInv /\ [Next]_vars => (rows' # rows => Rows!Next)
<1> SUFFICES ASSUME IInv, [Next]_vars, rows' # rows PROVE Rows!Next
  OBVIOUS
<1>1. Kernel /\ Kernel'
  BY NextIInv DEF IInv
<1>2. PICK c \in Clients : RowNext(c)
  <2>1. ASSUME NEW c \in Clients, DeviceNext(c) PROVE FALSE
    BY <2>1 DEF DeviceNext, RegisterPushToken, UpsertDevice, FindDevice, Rotate, ReadBack
  <2>2. ASSUME NEW c \in Clients, Fails(c) PROVE FALSE
    BY <2>2 DEF Fails, CallFails
  <2>3. QED
    BY <2>1, <2>2 DEF Next, vars, rowVars
<1>3. (\E id, k, at : Inserts(id, k, at)) \/ (\E u : Patches(u))
  BY <1>1, <1>2, RowsChange
<1>4. ASSUME NEW id, NEW k, NEW at, Inserts(id, k, at) PROVE Rows!Next
  <2>1. k \in Key /\ Rows!Insert(k)
    BY <1>1, <1>4, InsertSimulates DEF Inserts
  <2>2. QED
    BY <2>1 DEF Rows!Next, Rows!Key, Key
<1>5. ASSUME NEW u, Patches(u) PROVE Rows!Next
  <2>1. PICK k \in Key : Rows!SetStatus(k)
    BY <1>1, <1>5, PatchSimulates
  <2>2. QED
    BY <2>1 DEF Rows!Next, Rows!Key, Key
<1>6. QED
  BY <1>3, <1>4, <1>5

\* An empty store is an empty mailbox.
LEMMA EmptyMailbox == Init => Rows!Init
<1> SUFFICES ASSUME Init PROVE Rows!Init
  OBVIOUS
<1>1. Present = {}
  BY DEF Init, RowInit, Present
<1>2. Mailbox = [k \in Key |-> NoRow]
  BY <1>1 DEF Mailbox
<1>3. QED
  BY <1>2 DEF Rows!Init, Rows!Key, Key

\* Whatever the driver, the rows are the contract's mailbox: one row per key,
\* inserted once and then only restamped.
THEOREM RowsRefineContract == Spec => ImplementsStoreContract
<1>1. IInv /\ [Next]_vars => [rows' # rows => Rows!Next]_Mailbox
  BY RowsSimulate
<1>2. QED
  BY <1>1, EmptyMailbox, InitIInv, NextIInv, PTL DEF Spec, ImplementsStoreContract

\* The same, as the contract's own specification.
THEOREM RowsAreTheMailbox == Spec => Rows!Spec
<1>1. IInv /\ [Next]_vars => [Rows!Next]_Mailbox
  <2> SUFFICES ASSUME IInv, [Next]_vars PROVE [Rows!Next]_Mailbox
    OBVIOUS
  <2>1. CASE rows' = rows
    BY <2>1 DEF Mailbox, Present
  <2>2. CASE rows' # rows
    BY <2>2, RowsSimulate
  <2>3. QED
    BY <2>1, <2>2
<1>2. QED
  BY <1>1, EmptyMailbox, InitIInv, NextIInv, PTL DEF Spec, Rows!Spec
=============================================================================
