--------------------------- MODULE DeliveryProofs ---------------------------
(***************************************************************************)
(* Proofs about Delivery, for any number of concurrent sends, any          *)
(* destinations and any settings.                                          *)
(***************************************************************************)
EXTENDS Delivery, FiniteSetTheorems, TLAPS

PCs  == {"token", "mint", "post", "wait", "delivered", "failed"}
Whys == {"none", "address", "mint", "answer", "unlisted", "notFound", "gateway", "unreadable", "noAnswer"}

\* A call that was started.
Call == [kind : Kinds, to : UNION {Dests[k] : k \in Kinds}, gone : BOOLEAN, why : Whys, pc : PCs]

\* The shapes of the variables, which TypeOK takes for granted.
Shape ==
  /\ set \in Settings /\ token \in BOOLEAN
  /\ snd \in [Sends -> Call \cup {Idle}]
  /\ up \in [Sends -> {"none", "received", "taken", "refused", "gone"}]
  /\ wire \in [Sends -> [to : Nat, from : {"none", "account", "From", "MessagingServiceSID"}, mark : Nat]]

\* The token source's lock is held by the call that mints, and by one at most.
MinterIsAlone ==
  /\ minter = {s \in Sends : snd[s].pc = "mint"}
  /\ \A s, t \in minter : s = t

\* No request leaves before its call has checked the destination.
RequestFollowsCheck(s) ==
  /\ snd[s].pc \in {"idle", "token", "mint", "post"} => up[s] = "none"
  /\ snd[s].pc \in {"wait", "delivered"} => up[s] # "none"
  /\ snd[s].pc # "idle" => Built(snd[s].kind)
  /\ snd[s].pc # "idle" /\ snd[s].why # "address" => Valid(snd[s].kind, snd[s].to)
  /\ snd[s].pc \in {"token", "mint", "post", "wait"} => snd[s].why = "none" /\ ~snd[s].gone

\* What a call that failed says of it is what happened at the service.
FailureIsTrue(s) ==
  snd[s].pc = "failed" =>
    \/ snd[s].why \in {"address", "mint"} /\ up[s] = "none" /\ ~snd[s].gone
    \/ snd[s].why \in {"noAnswer", "gateway"} /\ up[s] # "none" /\ ~snd[s].gone
    \/ up[s] = "gone"
    \/ up[s] = "refused" /\ (snd[s].gone => snd[s].kind = "mobile_push" /\ snd[s].why = "notFound")
    \/ /\ up[s] = "taken" /\ ~snd[s].gone
       /\ \/ snd[s].why = "unreadable" /\ snd[s].kind # "email"
          \/ snd[s].why = "unlisted" /\ snd[s].kind \in {"web_push", "mobile_push"}

\* A delivered call was taken.
DeliveredIsTaken(s) == snd[s].pc = "delivered" => up[s] = "taken" /\ ~snd[s].gone

\* A request carries the addresses that Post computed.
WireIsPosted(s) ==
  up[s] # "none" =>
    /\ snd[s].pc # "idle" /\ snd[s].why # "address"
    /\ wire[s].to = IF snd[s].kind = "whatsapp" THEN WaPrefix(Prefixes(snd[s].to)) ELSE Prefixes(snd[s].to)
    /\ snd[s].kind \in Phone => wire[s].from = pickFrom
    /\ wire[s].mark = SenderPrefixes(snd[s].kind)

\* All of it about one call.
SendOK(s) ==
  RequestFollowsCheck(s) /\ FailureIsTrue(s) /\ DeliveredIsTaken(s) /\ WireIsPosted(s)

\* The inductive invariant.
IInv == Shape /\ MinterIsAlone /\ \A s \in Sends : SendOK(s)

-----------------------------------------------------------------------------
\* A call that a step leaves alone.
LEMMA OtherSend ==
    ASSUME NEW s \in Sends, SendOK(s), set' = set, snd'[s] = snd[s], up'[s] = up[s], wire'[s] = wire[s]
    PROVE  SendOK(s)'
  BY DEF SendOK, RequestFollowsCheck, FailureIsTrue, DeliveredIsTaken, WireIsPosted, Built, NewClient,
         NewFCM, NewWebPush, NewEmail, Valid, pickFrom, SenderPrefixes, FromPrefixes

\* Nothing was sent.
LEMMA InitIInv == Init => IInv
<1> SUFFICES ASSUME Init PROVE IInv
  OBVIOUS
<1>1. Shape
  BY DEF Init, Shape
<1>2. MinterIsAlone
  BY DEF Init, MinterIsAlone, Idle
<1>3. \A s \in Sends : SendOK(s)
  BY DEF Init, Idle, SendOK, RequestFollowsCheck, FailureIsTrue, DeliveredIsTaken, WireIsPosted
<1>4. QED
  BY <1>1, <1>2, <1>3 DEF IInv

\* Start builds the call and refuses a destination that is not valid.
LEMMA StartInv ==
    ASSUME IInv, NEW s \in Sends, NEW k \in Kinds, NEW to \in Dests[k], Start(s, k, to)
    PROVE  IInv'
<1> DEFINE r == [kind |-> k, to |-> to, gone |-> FALSE,
               why |-> IF Valid(k, to) THEN "none" ELSE "address",
               pc  |-> IF ~Valid(k, to) THEN "failed" ELSE IF k = "mobile_push" THEN "token" ELSE "post"]
<1>1. /\ snd' = [snd EXCEPT ![s] = r] /\ UNCHANGED <<set, up, wire, token, minter>>
      /\ snd[s] = Idle /\ Built(k)
  BY DEF Start
<1>2. r \in Call
  BY DEF Call, Whys, PCs
<1>3. /\ r.kind = k /\ r.to = to /\ r.gone = FALSE
      /\ r.why = (IF Valid(k, to) THEN "none" ELSE "address")
      /\ r.pc = (IF ~Valid(k, to) THEN "failed" ELSE IF k = "mobile_push" THEN "token" ELSE "post")
  OBVIOUS
<1> HIDE DEF r
<1>4. Shape'
  BY <1>1, <1>2 DEF IInv, Shape
<1>5. snd'[s] = r /\ \A t \in Sends : t # s => snd'[t] = snd[t]
  BY <1>1 DEF IInv, Shape
<1>6. MinterIsAlone'
  BY <1>1, <1>3, <1>5 DEF IInv, MinterIsAlone, Idle
<1>7. up[s] = "none"
  BY <1>1 DEF IInv, SendOK, RequestFollowsCheck, Idle
<1>8. Built(k)'
  BY <1>1 DEF Built, NewClient, NewFCM, NewWebPush, NewEmail
<1>9. SendOK(s)'
  BY <1>1, <1>3, <1>5, <1>7, <1>8
     DEF SendOK, RequestFollowsCheck, FailureIsTrue, DeliveredIsTaken, WireIsPosted
<1>10. \A t \in Sends : SendOK(t)'
  BY <1>1, <1>5, <1>9, OtherSend DEF IInv
<1>11. QED
  BY <1>4, <1>6, <1>10 DEF IInv

\* A call that ends, as a record.
LEMMA CallMoves ==
    ASSUME Shape, NEW s \in Sends, snd[s].pc # "idle", NEW p \in PCs, NEW w \in Whys, NEW g \in BOOLEAN,
           \/ snd' = [snd EXCEPT ![s].pc = p, ![s].why = w] /\ g = snd[s].gone
           \/ snd' = [snd EXCEPT ![s].pc = p, ![s].gone = g, ![s].why = w]
    PROVE  /\ snd' \in [Sends -> Call \cup {Idle}]
           /\ snd'[s].pc = p /\ snd'[s].why = w /\ snd'[s].gone = g
           /\ snd'[s].kind = snd[s].kind /\ snd'[s].to = snd[s].to
           /\ \A t \in Sends : t # s => snd'[t] = snd[t]
<1>1. snd \in [Sends -> Call \cup {Idle}] /\ snd[s] \in Call
  BY DEF Shape, Idle
<1> DEFINE r == [snd[s] EXCEPT !.pc = p, !.gone = g, !.why = w]
<1>2. r \in Call /\ r.pc = p /\ r.why = w /\ r.gone = g /\ r.kind = snd[s].kind /\ r.to = snd[s].to
  BY <1>1 DEF Call
<1>3. snd' = [snd EXCEPT ![s] = r]
  <2>1. CASE snd' = [snd EXCEPT ![s].pc = p, ![s].why = w] /\ g = snd[s].gone
    <3>1. r = [snd[s] EXCEPT !.pc = p, !.why = w]
      BY <1>1, <2>1 DEF Call
    <3>2. snd' = [snd EXCEPT ![s] = [snd[s] EXCEPT !.pc = p, !.why = w]]
      BY <1>1, <2>1
    <3>3. QED
      BY <3>1, <3>2
  <2>2. CASE snd' = [snd EXCEPT ![s].pc = p, ![s].gone = g, ![s].why = w]
    BY <1>1, <2>2
  <2>3. QED
    BY <2>1, <2>2
<1> HIDE DEF r
<1>4. snd'[s] = r /\ \A t \in Sends : t # s => snd'[t] = snd[t]
  BY <1>1, <1>3
<1>5. QED
  BY <1>1, <1>2, <1>3, <1>4

\* A call that goes on: only its place changes.
LEMMA CallGoesOn ==
    ASSUME Shape, NEW s \in Sends, snd[s].pc # "idle", NEW p \in PCs, snd' = [snd EXCEPT ![s].pc = p]
    PROVE  /\ snd' \in [Sends -> Call \cup {Idle}]
           /\ snd'[s].pc = p /\ snd'[s].why = snd[s].why /\ snd'[s].gone = snd[s].gone
           /\ snd'[s].kind = snd[s].kind /\ snd'[s].to = snd[s].to
           /\ \A t \in Sends : t # s => snd'[t] = snd[t]
<1>1. snd \in [Sends -> Call \cup {Idle}] /\ snd[s] \in Call
  BY DEF Shape, Idle
<1> DEFINE r == [snd[s] EXCEPT !.pc = p]
<1>2. /\ r \in Call /\ r.pc = p /\ r.why = snd[s].why /\ r.gone = snd[s].gone
      /\ r.kind = snd[s].kind /\ r.to = snd[s].to
  BY <1>1 DEF Call
<1>3. snd' = [snd EXCEPT ![s] = r]
  BY <1>1
<1> HIDE DEF r
<1>4. snd'[s] = r /\ \A t \in Sends : t # s => snd'[t] = snd[t]
  BY <1>1, <1>3
<1>5. QED
  BY <1>1, <1>2, <1>3, <1>4

\* A call that ends, for a reason.
LEMMA CallEnds ==
    ASSUME Shape, NEW s \in Sends, snd[s].pc # "idle", NEW p \in PCs, NEW w \in Whys, End(s, p, w)
    PROVE  /\ snd' \in [Sends -> Call \cup {Idle}]
           /\ snd'[s].pc = p /\ snd'[s].why = w /\ snd'[s].gone = snd[s].gone
           /\ snd'[s].kind = snd[s].kind /\ snd'[s].to = snd[s].to
           /\ \A t \in Sends : t # s => snd'[t] = snd[t]
<1>1. snd[s].gone \in BOOLEAN
  BY DEF Shape, Call, Idle
<1>2. QED
  BY <1>1, CallMoves DEF End

\* A call uses the cached token, or goes to mint one, alone.
LEMMA TokenInv ==
    ASSUME IInv, NEW s \in Sends, Token(s)
    PROVE  IInv'
<1>0. Shape /\ MinterIsAlone /\ SendOK(s) /\ snd[s].pc = "token" /\ minter = {}
      /\ UNCHANGED <<set, up, wire, token>>
  BY DEF IInv, Token
<1>1. PICK p \in {"post", "mint"} :
        snd' = [snd EXCEPT ![s].pc = p] /\ minter' = IF p = "mint" THEN {s} ELSE {}
  BY <1>0 DEF Token
<1>2. /\ snd' \in [Sends -> Call \cup {Idle}]
      /\ snd'[s].pc = p /\ snd'[s].why = snd[s].why /\ snd'[s].gone = snd[s].gone
      /\ snd'[s].kind = snd[s].kind /\ snd'[s].to = snd[s].to
      /\ \A t \in Sends : t # s => snd'[t] = snd[t]
  <2>1. p \in PCs
    BY DEF PCs
  <2>2. QED
    BY <1>0, <1>1, <2>1, CallGoesOn
<1>3. Shape'
  BY <1>0, <1>2 DEF Shape
<1>4. MinterIsAlone'
  <2>1. \A t \in Sends : t # s => snd'[t].pc # "mint"
    BY <1>0, <1>2 DEF MinterIsAlone
  <2>2. minter' = {t \in Sends : snd'[t].pc = "mint"}
    BY <1>1, <1>2, <2>1
  <2>3. QED
    BY <1>1, <2>2 DEF MinterIsAlone
<1>5. Built(snd[s].kind)' <=> Built(snd[s].kind)
  BY <1>0, <1>2 DEF Built, NewClient, NewFCM, NewWebPush, NewEmail
<1>6. Valid(snd[s].kind, snd[s].to)' <=> Valid(snd[s].kind, snd[s].to)
  BY <1>2 DEF Valid
<1>7. SendOK(s)'
  BY <1>0, <1>2, <1>5, <1>6
     DEF SendOK, RequestFollowsCheck, FailureIsTrue, DeliveredIsTaken, WireIsPosted
<1>8. \A t \in Sends : SendOK(t)'
  BY <1>0, <1>2, <1>7, OtherSend DEF IInv
<1>9. QED
  BY <1>3, <1>4, <1>8 DEF IInv

\* The minting call leaves the lock, with a token or with an error.
LEMMA MintedInv ==
    ASSUME IInv, NEW s \in Sends, Minted(s)
    PROVE  IInv'
<1>0. Shape /\ MinterIsAlone /\ SendOK(s) /\ snd[s].pc = "mint" /\ minter' = minter \ {s}
      /\ UNCHANGED <<set, up, wire>>
  BY DEF IInv, Minted
<1>a. token' \in BOOLEAN
  BY <1>0 DEF Minted, Shape
<1>1. PICK p \in {"post", "failed"}, w \in {"none", "mint"} :
        /\ p = "post" <=> w = "none"
        /\ snd' \in [Sends -> Call \cup {Idle}]
        /\ snd'[s].pc = p /\ snd'[s].why = w /\ snd'[s].gone = snd[s].gone
        /\ snd'[s].kind = snd[s].kind /\ snd'[s].to = snd[s].to
        /\ \A t \in Sends : t # s => snd'[t] = snd[t]
  <2>1. CASE snd' = [snd EXCEPT ![s].pc = "post"]
    <3>1. "post" \in PCs /\ snd[s].why = "none"
      BY <1>0 DEF PCs, SendOK, RequestFollowsCheck
    <3>2. QED
      BY <1>0, <2>1, <3>1, CallGoesOn
  <2>2. CASE End(s, "failed", "mint")
    <3>1. "failed" \in PCs /\ "mint" \in Whys
      BY DEF PCs, Whys
    <3>2. QED
      BY <1>0, <2>2, <3>1, CallEnds
  <2>3. QED
    BY <2>1, <2>2 DEF Minted
<1>2. Shape'
  BY <1>0, <1>a, <1>1 DEF Shape
<1>3. MinterIsAlone'
  BY <1>0, <1>1 DEF MinterIsAlone
<1>4. Built(snd[s].kind)' <=> Built(snd[s].kind)
  BY <1>0, <1>1 DEF Built, NewClient, NewFCM, NewWebPush, NewEmail
<1>5. Valid(snd[s].kind, snd[s].to)' <=> Valid(snd[s].kind, snd[s].to)
  BY <1>1 DEF Valid
<1>6. SendOK(s)'
  BY <1>0, <1>1, <1>4, <1>5
     DEF SendOK, RequestFollowsCheck, FailureIsTrue, DeliveredIsTaken, WireIsPosted
<1>7. \A t \in Sends : SendOK(t)'
  BY <1>0, <1>1, <1>6, OtherSend DEF IInv
<1>8. QED
  BY <1>2, <1>3, <1>7 DEF IInv

\* Post addresses the request.
LEMMA PostInv ==
    ASSUME IInv, NEW s \in Sends, Post(s)
    PROVE  IInv'
<1> DEFINE t0 == IF snd[s].kind = "whatsapp" THEN WaPrefix(Prefixes(snd[s].to)) ELSE Prefixes(snd[s].to)
           f0 == IF snd[s].kind \in Phone THEN pickFrom ELSE "account"
           m0 == SenderPrefixes(snd[s].kind)
<1>0. Shape /\ MinterIsAlone /\ SendOK(s) /\ snd[s].pc = "post" /\ snd' = [snd EXCEPT ![s].pc = "wait"]
      /\ UNCHANGED <<set, token, minter>>
      /\ up' = [up EXCEPT ![s] = "received"]
  BY DEF IInv, Post
<1>1. /\ snd' \in [Sends -> Call \cup {Idle}]
      /\ snd'[s].pc = "wait" /\ snd'[s].why = snd[s].why /\ snd'[s].gone = snd[s].gone
      /\ snd'[s].kind = snd[s].kind /\ snd'[s].to = snd[s].to
      /\ \A t \in Sends : t # s => snd'[t] = snd[t]
  <2>1. "wait" \in PCs
    BY DEF PCs
  <2>2. QED
    BY <1>0, <2>1, CallGoesOn
<1>2. t0 \in Nat /\ f0 \in {"none", "account", "From", "MessagingServiceSID"} /\ m0 \in Nat
  <2>1. t0 \in Nat
    BY DEF WaPrefix, Prefixes
  <2>2. f0 \in {"none", "account", "From", "MessagingServiceSID"}
    BY DEF pickFrom
  <2>3. FromPrefixes \in Nat /\ WaPrefix(FromPrefixes) \in Nat
    BY DEF FromPrefixes, WaPrefix
  <2>4. m0 \in Nat
    BY <2>3 DEF SenderPrefixes
  <2>5. QED
    BY <2>1, <2>2, <2>4
<1>3. wire' = [wire EXCEPT ![s] = [to |-> t0, from |-> f0, mark |-> m0]]
  BY DEF Post
<1> HIDE DEF t0, f0, m0
<1>4. /\ up'[s] = "received" /\ wire'[s].to = t0 /\ wire'[s].from = f0 /\ wire'[s].mark = m0
      /\ \A t \in Sends : t # s => up'[t] = up[t] /\ wire'[t] = wire[t]
  BY <1>0, <1>3 DEF Shape
<1>5. Shape'
  BY <1>0, <1>1, <1>2, <1>3 DEF Shape
<1>6. MinterIsAlone'
  BY <1>0, <1>1 DEF MinterIsAlone
<1>7. /\ Built(snd[s].kind)' <=> Built(snd[s].kind)
      /\ pickFrom' = pickFrom /\ SenderPrefixes(snd[s].kind)' = SenderPrefixes(snd[s].kind)
  BY <1>0, <1>1 DEF Built, NewClient, NewFCM, NewWebPush, NewEmail, pickFrom, SenderPrefixes, FromPrefixes
<1>8. Valid(snd[s].kind, snd[s].to)' <=> Valid(snd[s].kind, snd[s].to)
  BY <1>1 DEF Valid
<1>9. WireIsPosted(s)'
  <2>1. snd[s].why # "address"
    BY <1>0 DEF SendOK, RequestFollowsCheck
  <2>2. QED
    BY <1>1, <1>4, <1>7, <2>1 DEF WireIsPosted, t0, f0, m0, WaPrefix, Prefixes
<1>10. SendOK(s)'
  BY <1>0, <1>1, <1>4, <1>7, <1>8, <1>9
     DEF SendOK, RequestFollowsCheck, FailureIsTrue, DeliveredIsTaken
<1>11. \A t \in Sends : SendOK(t)'
  BY <1>0, <1>1, <1>4, <1>10, OtherSend DEF IInv
<1>12. QED
  BY <1>5, <1>6, <1>11 DEF IInv

\* Only an answer that says so ends a call as delivered or gone.
LEMMA AnswerInv ==
    ASSUME IInv, NEW s \in Sends, Answer(s)
    PROVE  IInv'
<1>0. /\ Shape /\ MinterIsAlone /\ SendOK(s) /\ snd[s].pc = "wait" /\ UNCHANGED <<set, up, wire, token, minter>>
      /\ up[s] \in {"received", "taken", "refused", "gone"} /\ snd[s].kind \in Kinds
  <2>1. Shape /\ MinterIsAlone /\ SendOK(s) /\ snd[s].pc = "wait" /\ UNCHANGED <<set, up, wire, token, minter>>
    BY DEF IInv, Answer
  <2>2. QED
    BY <2>1 DEF Shape, Call, Idle, SendOK, RequestFollowsCheck
<1> DEFINE k == snd[s].kind
<1>1. PICK status \in Answers(up[s]) \cup Gateway, readable \in BOOLEAN, unregistered \in BOOLEAN :
        /\ snd[s].pc = "wait"
        /\ unregistered => readable /\ up[s] = "gone" /\ status \notin Gateway
        /\ IF Accepted(snd[s].kind, status, readable) THEN End(s, "delivered", "answer")
           ELSE snd' = [snd EXCEPT ![s].pc = "failed", ![s].gone = IsGone(snd[s].kind, status, unregistered),
                          ![s].why = Cause(status, readable)]
        /\ UNCHANGED <<set, up, wire, token, minter>>
  BY Zenon DEF Answer
<1> DEFINE g == IsGone(k, status, unregistered)
           w == Cause(status, readable)
<1>a. /\ status = 502 \/ status \in Answers(up[s])
      /\ up[s] = "received" => status = 502
      /\ up[s] = "taken" => status \in {200, 201, 204, 502}
      /\ up[s] = "refused" => status \in {400, 404, 500, 502}
      /\ up[s] = "gone" => status \in {400, 404, 410, 502}
  BY <1>1 DEF Answers, Gateway
<1>2. Accepted(k, status, readable) => up[s] = "taken"
  <2>1. CASE up[s] # "taken"
    <3>1. status \in {400, 404, 410, 500, 502}
      BY <1>0, <1>a, <2>1
    <3>2. status \notin 200 .. 299 /\ status # 200 /\ status # 201 /\ status # 202
      BY <3>1
    <3>3. QED
      BY <1>0, <3>2 DEF Accepted, sendMessage, Pushed, SendEmail, Kinds, Phone
  <2>2. QED
    BY <2>1
<1>b. w = "gateway" <=> status = 502
  BY <1>a DEF Cause, Gateway
<1>3. g => up[s] = "gone" \/ (up[s] = "refused" /\ k = "mobile_push" /\ w = "notFound")
  <2>1. CASE unregistered
    BY <1>1, <2>1
  <2>2. CASE ~unregistered
    <3>1. g => (k = "mobile_push" /\ status = 404) \/ status = 410
      BY <2>2 DEF IsGone
    <3>2. status = 410 => up[s] = "gone"
      BY <1>0, <1>a
    <3>3. status = 404 => up[s] \in {"refused", "gone"}
      BY <1>0, <1>a
    <3>4. status = 404 => w = "notFound"
      BY DEF Cause, Gateway
    <3>5. QED
      BY <3>1, <3>2, <3>3, <3>4
  <2>3. QED
    BY <2>1, <2>2
<1>4. g \in BOOLEAN /\ w \in Whys
  BY DEF IsGone, Whys, Cause
<1>c. status = 502 => ~g
  BY <1>1 DEF IsGone, Gateway
<1>5. ~Accepted(k, status, readable) /\ up[s] = "taken" /\ status # 502 =>
        \/ w = "unreadable" /\ k # "email"
        \/ w = "unlisted" /\ k \in {"web_push", "mobile_push"}
  <2> SUFFICES ASSUME ~Accepted(k, status, readable), up[s] = "taken", status # 502
               PROVE  \/ w = "unreadable" /\ k # "email"
                      \/ w = "unlisted" /\ k \in {"web_push", "mobile_push"}
    OBVIOUS
  <2>1. status \in 200 .. 299 /\ status # 404 /\ status \notin Gateway
    BY <1>a DEF Gateway
  <2>2. w = IF readable THEN "unlisted" ELSE "unreadable"
    BY <2>1 DEF Cause
  <2>3. k # "email" /\ (readable => k \in {"web_push", "mobile_push"})
    BY <1>0, <1>1, <2>1 DEF Accepted, sendMessage, SendEmail, Kinds, Phone
  <2>4. QED
    BY <2>2, <2>3
<1>6. PICK p \in {"delivered", "failed"}, v \in Whys, h \in BOOLEAN :
        /\ snd' \in [Sends -> Call \cup {Idle}]
        /\ snd'[s].pc = p /\ snd'[s].why = v /\ snd'[s].gone = h
        /\ snd'[s].kind = snd[s].kind /\ snd'[s].to = snd[s].to
        /\ \A t \in Sends : t # s => snd'[t] = snd[t]
        /\ \/ p = "delivered" /\ v = "answer" /\ h = snd[s].gone /\ up[s] = "taken"
           \/ p = "failed" /\ v = w /\ h = g /\ ~Accepted(k, status, readable)
  <2>1. CASE Accepted(k, status, readable)
    <3>1. "delivered" \in PCs /\ "answer" \in Whys /\ End(s, "delivered", "answer") /\ snd[s].pc # "idle"
      BY <1>0, <1>1, <2>1 DEF PCs, Whys
    <3>2. /\ snd' \in [Sends -> Call \cup {Idle}]
          /\ snd'[s].pc = "delivered" /\ snd'[s].why = "answer" /\ snd'[s].gone = snd[s].gone
          /\ snd'[s].kind = snd[s].kind /\ snd'[s].to = snd[s].to
          /\ \A t \in Sends : t # s => snd'[t] = snd[t]
      BY <1>0, <3>1, CallEnds
    <3>3. snd[s].gone \in BOOLEAN
      BY <1>0 DEF Shape, Call, Idle
    <3>4. QED
      BY <1>2, <2>1, <3>1, <3>2, <3>3
  <2>2. CASE ~Accepted(k, status, readable)
    <3>1. snd' = [snd EXCEPT ![s].pc = "failed", ![s].gone = g, ![s].why = w]
      BY <1>1, <2>2
    <3>2. "failed" \in PCs /\ snd[s].pc # "idle"
      BY <1>0 DEF PCs
    <3> HIDE DEF g, w
    <3>3. /\ snd' \in [Sends -> Call \cup {Idle}]
          /\ snd'[s].pc = "failed" /\ snd'[s].why = w /\ snd'[s].gone = g
          /\ snd'[s].kind = snd[s].kind /\ snd'[s].to = snd[s].to
          /\ \A t \in Sends : t # s => snd'[t] = snd[t]
      BY <1>0, <1>4, <3>1, <3>2, CallMoves
    <3>4. QED
      BY <1>4, <2>2, <3>3
  <2>3. QED
    BY <2>1, <2>2
<1> HIDE DEF g, w
<1>7. Shape'
  BY <1>0, <1>6 DEF Shape
<1>8. MinterIsAlone'
  BY <1>0, <1>6 DEF MinterIsAlone
<1>9. /\ Built(snd[s].kind)' <=> Built(snd[s].kind)
      /\ pickFrom' = pickFrom /\ SenderPrefixes(snd[s].kind)' = SenderPrefixes(snd[s].kind)
  BY <1>0, <1>6 DEF Built, NewClient, NewFCM, NewWebPush, NewEmail, pickFrom, SenderPrefixes, FromPrefixes
<1>10. Valid(snd[s].kind, snd[s].to)' <=> Valid(snd[s].kind, snd[s].to)
  BY <1>6 DEF Valid
<1>11. RequestFollowsCheck(s)' /\ DeliveredIsTaken(s)'
  BY <1>0, <1>6, <1>9, <1>10 DEF SendOK, RequestFollowsCheck, DeliveredIsTaken
<1>12. FailureIsTrue(s)'
  <2>1. CASE p = "failed" /\ status = 502
    BY <1>0, <1>b, <1>c, <1>6, <2>1 DEF FailureIsTrue
  <2>2. CASE p = "failed" /\ status # 502
    <3>1. up[s] \in {"taken", "refused", "gone"}
      BY <1>0, <1>a, <2>2
    <3>2. QED
      BY <1>0, <1>3, <1>5, <1>6, <2>2, <3>1 DEF FailureIsTrue
  <2>3. CASE p = "delivered"
    BY <1>6, <2>3 DEF FailureIsTrue
  <2>4. QED
    BY <1>6, <2>1, <2>2, <2>3
<1>13. WireIsPosted(s)'
  <2>1. v # "address"
    BY <1>6 DEF w, Cause
  <2>2. QED
    BY <1>0, <1>6, <1>9, <2>1 DEF SendOK, WireIsPosted, WaPrefix, Prefixes
<1>14. \A t \in Sends : SendOK(t)'
  BY <1>0, <1>6, <1>11, <1>12, <1>13, OtherSend DEF IInv, SendOK
<1>15. QED
  BY <1>7, <1>8, <1>14 DEF IInv

\* A call that gives up says nothing of what the service did.
LEMMA NoAnswerInv ==
    ASSUME IInv, NEW s \in Sends, Timeout(s) \/ Broken(s)
    PROVE  IInv'
<1>0. /\ Shape /\ MinterIsAlone /\ SendOK(s) /\ snd[s].pc = "wait" /\ UNCHANGED <<set, up, wire, token, minter>>
      /\ End(s, "failed", "noAnswer")
  BY DEF IInv, Timeout, Broken
<1>1. /\ snd' \in [Sends -> Call \cup {Idle}]
      /\ snd'[s].pc = "failed" /\ snd'[s].why = "noAnswer" /\ snd'[s].gone = snd[s].gone
      /\ snd'[s].kind = snd[s].kind /\ snd'[s].to = snd[s].to
      /\ \A t \in Sends : t # s => snd'[t] = snd[t]
  <2>1. "failed" \in PCs /\ "noAnswer" \in Whys /\ snd[s].pc # "idle"
    BY <1>0 DEF PCs, Whys
  <2>2. QED
    BY <1>0, <2>1, CallEnds
<1>2. Shape'
  BY <1>0, <1>1 DEF Shape
<1>3. MinterIsAlone'
  BY <1>0, <1>1 DEF MinterIsAlone
<1>4. /\ Built(snd[s].kind)' <=> Built(snd[s].kind)
      /\ pickFrom' = pickFrom /\ SenderPrefixes(snd[s].kind)' = SenderPrefixes(snd[s].kind)
  BY <1>0, <1>1 DEF Built, NewClient, NewFCM, NewWebPush, NewEmail, pickFrom, SenderPrefixes, FromPrefixes
<1>5. Valid(snd[s].kind, snd[s].to)' <=> Valid(snd[s].kind, snd[s].to)
  BY <1>1 DEF Valid
<1>6. RequestFollowsCheck(s)' /\ DeliveredIsTaken(s)' /\ FailureIsTrue(s)'
  BY <1>0, <1>1, <1>4, <1>5 DEF SendOK, RequestFollowsCheck, DeliveredIsTaken, FailureIsTrue
<1>7. WireIsPosted(s)'
  BY <1>0, <1>1, <1>4 DEF SendOK, WireIsPosted, WaPrefix, Prefixes
<1>8. \A t \in Sends : SendOK(t)'
  BY <1>0, <1>1, <1>6, <1>7, OtherSend DEF IInv, SendOK
<1>9. QED
  BY <1>2, <1>3, <1>8 DEF IInv

\* A service decides once, whether or not anybody still waits.
LEMMA DecideInv ==
    ASSUME IInv, NEW s \in Sends, Decide(s)
    PROVE  IInv'
<1>0. Shape /\ MinterIsAlone /\ SendOK(s) /\ up[s] = "received" /\ UNCHANGED <<set, snd, wire, token, minter>>
  BY DEF IInv, Decide
<1>1. PICK o \in {"taken", "refused", "gone"} : up' = [up EXCEPT ![s] = o]
  BY DEF Decide
<1>2. up'[s] = o /\ \A t \in Sends : t # s => up'[t] = up[t]
  BY <1>0, <1>1 DEF Shape
<1>3. Shape' /\ MinterIsAlone'
  BY <1>0, <1>1 DEF Shape, MinterIsAlone
<1>4. /\ Built(snd[s].kind)' <=> Built(snd[s].kind)
      /\ pickFrom' = pickFrom /\ SenderPrefixes(snd[s].kind)' = SenderPrefixes(snd[s].kind)
  BY <1>0 DEF Built, NewClient, NewFCM, NewWebPush, NewEmail, pickFrom, SenderPrefixes, FromPrefixes
<1>5. Valid(snd[s].kind, snd[s].to)' <=> Valid(snd[s].kind, snd[s].to)
  BY <1>0 DEF Valid
<1>6. RequestFollowsCheck(s)' /\ DeliveredIsTaken(s)'
  BY <1>0, <1>2, <1>4, <1>5 DEF SendOK, RequestFollowsCheck, DeliveredIsTaken
<1>7. FailureIsTrue(s)'
  BY <1>0, <1>2 DEF SendOK, FailureIsTrue
<1>8. WireIsPosted(s)'
  BY <1>0, <1>2, <1>4 DEF SendOK, WireIsPosted, WaPrefix, Prefixes
<1>9. \A t \in Sends : SendOK(t)'
  BY <1>0, <1>2, <1>6, <1>7, <1>8, OtherSend DEF IInv, SendOK
<1>10. QED
  BY <1>3, <1>9 DEF IInv

\* Every step of a call, of a service or of the clock keeps the invariant.
LEMMA StepIInv == IInv /\ [Next]_vars => IInv'
<1> SUFFICES ASSUME IInv, [Next]_vars PROVE IInv'
  OBVIOUS
<1>1. ASSUME set' = set, UNCHANGED <<snd, up, wire, minter>>, token' \in BOOLEAN PROVE IInv'
  BY <1>1, OtherSend DEF IInv, Shape, MinterIsAlone
<1>2. CASE TokenExpires
  BY <1>1, <1>2 DEF TokenExpires
<1>3. CASE UNCHANGED vars
  BY <1>1, <1>3 DEF vars, IInv, Shape
<1>4. QED
  BY <1>2, <1>3, StartInv, TokenInv, MintedInv, PostInv, AnswerInv, NoAnswerInv, DecideInv DEF Next, Step

\* The inductive invariant holds in every reachable state.
LEMMA Invariance == Spec => []IInv
  BY InitIInv, StepIInv, PTL DEF Spec

-----------------------------------------------------------------------------
(* Theorems.                                                               *)

\* For any number of concurrent sends: delivered means taken, gone means that the
\* service said so or that fcm answered 404, and one call at a time mints a token.
THEOREM ReceiptsTellTheTruth == Spec => []ReceiptsAreTrue
<1>1. ASSUME IInv PROVE ReceiptsAreTrue
  <2>1. Cardinality(minter) <= 1
    <3>1. CASE minter = {}
      BY <3>1, FS_EmptySet
    <3>2. CASE minter # {}
      <4>1. PICK s \in minter : TRUE
        BY <3>2
      <4>2. minter = {s}
        BY <1>1, <4>1 DEF IInv, MinterIsAlone
      <4>3. Cardinality({s}) = 1
        BY FS_Singleton
      <4>4. QED
        BY <4>2, <4>3
    <3>3. QED
      BY <3>1, <3>2
  <2>2. \A s \in Sends : snd[s].pc \in {"idle", "token", "mint", "post", "wait", "delivered", "failed"}
    BY <1>1 DEF IInv, Shape, Call, PCs, Idle
  <2>3. TypeOK
    BY <1>1, <2>1, <2>2 DEF IInv, Shape, MinterIsAlone, TypeOK
  <2>4. \A s \in Sends : /\ snd[s].pc = "delivered" => up[s] = "taken"
                         /\ Ended(s) /\ snd[s].gone =>
                              \/ up[s] = "gone"
                              \/ snd[s].kind = "mobile_push" /\ up[s] = "refused" /\ snd[s].why = "notFound"
    BY <1>1 DEF IInv, SendOK, DeliveredIsTaken, FailureIsTrue, Ended
  <2>5. QED
    BY <2>3, <2>4 DEF ReceiptsAreTrue
<1>2. QED
  BY <1>1, Invariance, PTL

\* For any number of concurrent sends: a message that was taken is reported as
\* failed only for want of an answer of the service that could be read and is listed.
THEOREM TakenYetFailed == Spec => []TakenYetFailedHasCause
<1>1. IInv => TakenYetFailedHasCause
  BY DEF IInv, SendOK, FailureIsTrue, TakenYetFailedHasCause
<1>2. QED
  BY <1>1, Invariance, PTL

\* For any destinations and settings: what reaches a service is addressable and
\* names a sender that the settings have; on WhatsApp a static number carries its
\* prefix exactly once, as the recipient does, and a messaging service none.
THEOREM RequestsAreAddressed == Spec => []WireIsAddressed
<1>1. ASSUME IInv, NEW s \in Sends, up[s] # "none"
      PROVE  /\ snd[s].to.n > 0
             /\ snd[s].kind \in Phone \cup {"web_push"} => snd[s].to.good
             /\ snd[s].kind \in Phone =>
                  /\ wire[s].to = IF snd[s].kind = "whatsapp" THEN 1 ELSE 0
                  /\ snd[s].to.n \in 6 .. 15
                  /\ wire[s].from \in set
                  /\ "MessagingServiceSID" \in set => wire[s].from # "From"
                  /\ wire[s].mark = IF wire[s].from # "From" THEN 0
                                    ELSE IF snd[s].kind = "whatsapp" THEN 1 ELSE FromPrefixes
  <2>1. SendOK(s) /\ snd[s].pc # "idle" /\ snd[s].why # "address"
    BY <1>1 DEF IInv, SendOK, WireIsPosted
  <2>2. Valid(snd[s].kind, snd[s].to) /\ Built(snd[s].kind)
    BY <2>1 DEF SendOK, RequestFollowsCheck
  <2>3. snd[s].kind \in Kinds
    BY <1>1, <2>1 DEF IInv, Shape, Call, Idle
  <2>4. snd[s].kind \in Phone => snd[s].to.n \in 6 .. 15 /\ snd[s].to.good
    BY <2>2, <2>3 DEF Valid, validateE164, Kinds, Phone
  <2>5. snd[s].to.n > 0 /\ (snd[s].kind = "web_push" => snd[s].to.good)
    <3>1. snd[s].kind \in Phone => snd[s].to.n > 0
      BY <2>4
    <3>2. snd[s].kind \notin Phone => snd[s].to.n > 0 /\ (snd[s].kind = "web_push" => snd[s].to.good)
      BY <2>2, <2>3 DEF Valid, decodeSubscription, Kinds, Phone
    <3>3. QED
      BY <3>1, <3>2 DEF Phone
  <2>6. ASSUME snd[s].kind \in Phone
        PROVE  /\ wire[s].to = IF snd[s].kind = "whatsapp" THEN 1 ELSE 0
               /\ wire[s].from \in set
               /\ "MessagingServiceSID" \in set => wire[s].from # "From"
               /\ wire[s].mark = IF wire[s].from # "From" THEN 0
                                 ELSE IF snd[s].kind = "whatsapp" THEN 1 ELSE FromPrefixes
    <3>1. wire[s].to = IF snd[s].kind = "whatsapp" THEN 1 ELSE 0
      BY <1>1, <2>1, <2>2, <2>6 DEF SendOK, WireIsPosted, Valid, WaPrefix, Prefixes, Phone
    <3>2. wire[s].from = pickFrom
      BY <1>1, <2>1, <2>6 DEF SendOK, WireIsPosted
    <3>3. set \cap {"From", "MessagingServiceSID"} # {}
      <4>1. NewClient
        BY <2>2, <2>6 DEF Built, Phone
      <4>2. QED
        BY <4>1 DEF NewClient
    <3>4. WaPrefix(FromPrefixes) = 1
      BY DEF WaPrefix, FromPrefixes
    <3>5. wire[s].mark = SenderPrefixes(snd[s].kind)
      BY <1>1, <2>1 DEF SendOK, WireIsPosted
    <3>6. wire[s].mark = IF wire[s].from # "From" THEN 0
                         ELSE IF snd[s].kind = "whatsapp" THEN 1 ELSE FromPrefixes
      BY <2>6, <3>2, <3>4, <3>5 DEF SenderPrefixes, Phone
    <3>7. QED
      BY <3>1, <3>2, <3>3, <3>6 DEF pickFrom
  <2>7. QED
    BY <2>4, <2>5, <2>6
<1>2. IInv => WireIsAddressed
  BY <1>1 DEF WireIsAddressed
<1>3. QED
  BY <1>2, Invariance, PTL
=============================================================================
