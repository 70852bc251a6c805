------------------------------ MODULE Delivery ------------------------------
(***************************************************************************)
(* The channel providers: Send of channels/fcm, webpush, twilio (SMS and   *)
(* WhatsApp) and email/emailservice, and the services behind them.  Sends  *)
(* run concurrently; the fcm sends share one access-token source.  A       *)
(* service may take a message and its answer still be lost, late or        *)
(* unreadable.  Payloads are left out; a destination is [n, good, wa]: its *)
(* length, whether it is made up right ("+" and digits; a subscription     *)
(* with endpoint and keys), and whether "whatsapp:" stands before it.      *)
(* A configured From number may carry that prefix too: the settings then   *)
(* hold "From:whatsapp" beside "From".                                     *)
(***************************************************************************)
EXTENDS Integers, FiniteSets

CONSTANTS Sends,      \* calls of Send
          Dests,      \* kind -> the destinations callers give it
          Settings    \* sets of configuration fields that may be filled in

VARIABLES set,        \* the configuration fields given
          snd,        \* each call: kind, destination, where it is, and what it saw
          up,         \* the service's side of each call
          wire,       \* history: how the request addressed sender and recipient
          token,      \* whether the cached access token is still good
          minter      \* the calls inside the token source's lock: at most one

vars == <<set, snd, up, wire, token, minter>>

Phone == {"sms", "whatsapp"}
Kinds == Phone \cup {"email", "web_push", "mobile_push"}

\* What the constructors insist on: a provider exists only if its does not fail.
NewClient  == {"AccountSID", "AuthToken"} \subseteq set /\ set \cap {"From", "MessagingServiceSID"} # {}
NewFCM     == {"FCMProjectID", "FCMCredentialsJSON"} \subseteq set
NewWebPush == {"VAPIDPublic", "VAPIDPrivate", "ContactEmail"} \subseteq set
NewEmail   == {"Sender", "EmailFrom"} \subseteq set

Built(k) ==
  CASE k \in Phone         -> NewClient
    [] k = "mobile_push" -> NewFCM
    [] k = "web_push"    -> NewWebPush
    [] k = "email"       -> NewEmail

validateE164(to) == to.good /\ to.n \in 6 .. 15

decodeSubscription(to) == to.n > 0 /\ to.good

\* A prefixed number is no E.164 number; WhatsApp strips the prefix first.  fcm
\* and email only refuse an empty destination.
Valid(k, to) ==
  CASE k = "sms"      -> ~to.wa /\ validateE164(to)
    [] k = "whatsapp" -> validateE164(to)
    [] k = "web_push" -> decodeSubscription(to)
    [] OTHER          -> to.n > 0

\* The HTTP statuses of a message taken, of one refused, and of one for a device
\* or subscription that is gone.
Answers(o) ==
  CASE o = "taken"   -> {200, 201, 204}
    [] o = "refused" -> {400, 404, 500}
    [] o = "gone"    -> {400, 404, 410}
    [] OTHER         -> {}

\* What a proxy before the service may answer, whatever the service does.
Gateway == {502}

Idle == [pc |-> "idle"]

Init ==
  /\ set \in Settings
  /\ snd = [s \in Sends |-> Idle]
  /\ up = [s \in Sends |-> "none"]
  /\ wire = [s \in Sends |-> [to |-> 0, from |-> "none", mark |-> 0]]
  /\ token = FALSE /\ minter = {}

--------------------------------------------------------------------------
(* One call of Send. *)

End(s, how, why) == snd' = [snd EXCEPT ![s].pc = how, ![s].why = why]

\* A destination that fails the channel's check costs no request.
Start(s, k, to) ==
  /\ snd[s] = Idle /\ Built(k)
  /\ snd' = [snd EXCEPT ![s] = [kind |-> k, to |-> to, gone |-> FALSE,
               why |-> IF Valid(k, to) THEN "none" ELSE "address",
               pc  |-> IF ~Valid(k, to) THEN "failed" ELSE IF k = "mobile_push" THEN "token" ELSE "post"]]
  /\ UNCHANGED <<set, up, wire, token, minter>>

\* p.tokens.Token(): the cached token, or a new one minted under the lock.
Token(s) ==
  /\ snd[s].pc = "token" /\ minter = {}
  /\ IF token THEN snd' = [snd EXCEPT ![s].pc = "post"] /\ UNCHANGED minter
     ELSE snd' = [snd EXCEPT ![s].pc = "mint"] /\ minter' = {s}
  /\ UNCHANGED <<set, up, wire, token>>

Minted(s) ==
  /\ snd[s].pc = "mint" /\ minter' = minter \ {s}
  /\ \/ token' = TRUE /\ snd' = [snd EXCEPT ![s].pc = "post"]
     \/ End(s, "failed", "mint") /\ UNCHANGED token
  /\ UNCHANGED <<set, up, wire>>

Prefixes(to) == IF to.wa THEN 1 ELSE 0

\* ensureWhatsAppPrefix, on the number of prefixes: one that is there is not repeated.
WaPrefix(n) == IF n > 0 THEN n ELSE n + 1

FromPrefixes == IF "From:whatsapp" \in set THEN 1 ELSE 0

\* pickFrom: a messaging service wins over a static number.
pickFrom == IF "MessagingServiceSID" \in set THEN "MessagingServiceSID" ELSE "From"

\* Mutant: WhatsApp prefixes whatever pickFrom returns.
SenderPrefixesAny(k) ==
  CASE k = "whatsapp"                  -> WaPrefix(IF pickFrom = "From" THEN FromPrefixes ELSE 0)
    [] k = "sms" /\ pickFrom = "From" -> FromPrefixes
    [] OTHER                           -> 0

\* The prefixes of the sender: WhatsApp gives one to the static number, none to a
\* messaging service; SMS sends the number as it is configured.
SenderPrefixes(k) ==
  CASE k = "whatsapp" /\ pickFrom = "From" -> WaPrefix(FromPrefixes)
    [] k = "sms" /\ pickFrom = "From"      -> FromPrefixes
    [] OTHER                                -> 0

\* The request is on its way.
Post(s) ==
  /\ snd[s].pc = "post"
  /\ snd' = [snd EXCEPT ![s].pc = "wait"]
  /\ up' = [up EXCEPT ![s] = "received"]
  /\ wire' = [wire EXCEPT ![s] =
       [to   |-> IF snd[s].kind = "whatsapp" THEN WaPrefix(Prefixes(snd[s].to)) ELSE Prefixes(snd[s].to),
        from |-> IF snd[s].kind \in Phone THEN pickFrom ELSE "account",
        mark |-> SenderPrefixes(snd[s].kind)]]
  /\ UNCHANGED <<set, token, minter>>

\* Mutant: only 200 is a success.
AcceptedOnly200(k, status, readable) == status = 200 /\ readable

\* twilio takes every 2xx for success, if it can decode the body.
sendMessage(status, readable) == status \in 200 .. 299 /\ readable

\* webpush lists its success statuses and reads no body.
Pushed(status) == status \in {200, 201, 202}

\* An email Sender just returns no error.
SendEmail(status) == status \in 200 .. 299

\* Which answers a provider takes for success.  fcm wants a 200 it can decode.
Accepted(k, status, readable) ==
  CASE k = "mobile_push" -> status = 200 /\ readable
    [] k \in Phone       -> sendMessage(status, readable)
    [] k = "web_push"    -> Pushed(status)
    [] k = "email"       -> SendEmail(status)

\* Mutant: every status but 200 counts as a device that is gone.
IsGoneAnyError(k, status, unregistered) == k \in {"web_push", "mobile_push"} /\ status # 200

\* isUnregistered of fcm, where unregistered stands for a body that says
\* UNREGISTERED or NOT_FOUND; ErrSubscriptionGone of webpush.
IsGone(k, status, unregistered) ==
  \/ k = "mobile_push" /\ (unregistered \/ status = 404)
  \/ k = "web_push" /\ status = 410

\* Why a call failed that got an answer.
Cause(status, readable) ==
  IF status \in Gateway THEN "gateway"
  ELSE IF status = 404 THEN "notFound"
  ELSE IF ~readable THEN "unreadable"
  ELSE IF status \in 200 .. 299 THEN "unlisted" ELSE "answer"

\* An answer arrives, of the service or of a proxy before it; only a service whose
\* device is gone says "unregistered".
Answer(s) ==
  \E status \in Answers(up[s]) \cup Gateway, readable \in BOOLEAN, unregistered \in BOOLEAN :
    /\ snd[s].pc = "wait"
    /\ unregistered => readable /\ up[s] = "gone" /\ status \notin Gateway
    /\ IF Accepted(snd[s].kind, status, readable) THEN End(s, "delivered", "answer")
       ELSE snd' = [snd EXCEPT ![s].pc = "failed", ![s].gone = IsGone(snd[s].kind, status, unregistered),
                      ![s].why = Cause(status, readable)]
    /\ UNCHANGED <<set, up, wire, token, minter>>

\* Mutant: the clients have no timeout.
TimeoutNever(s) == FALSE /\ UNCHANGED vars

\* The HTTP clients of fcm (30 s) and twilio (15 s) give up by themselves ...
Timeout(s) ==
  /\ snd[s].pc = "wait" /\ snd[s].kind \in Phone \cup {"mobile_push"}
  /\ End(s, "failed", "noAnswer")
  /\ UNCHANGED <<set, up, wire, token, minter>>

\* ... and any request fails with its connection or its caller's context.
Broken(s) ==
  /\ snd[s].pc = "wait"
  /\ End(s, "failed", "noAnswer")
  /\ UNCHANGED <<set, up, wire, token, minter>>

--------------------------------------------------------------------------
(* The services, whether or not anybody still waits, and time. *)

Decide(s) ==
  /\ up[s] = "received"
  /\ \E o \in {"taken", "refused", "gone"} : up' = [up EXCEPT ![s] = o]
  /\ UNCHANGED <<set, snd, wire, token, minter>>

TokenExpires == token /\ token' = FALSE /\ UNCHANGED <<set, snd, up, wire, minter>>

Step(s) == Token(s) \/ Minted(s) \/ Post(s)

Next ==
  \/ \E s \in Sends, k \in Kinds : \E to \in Dests[k] : Start(s, k, to)
  \/ \E s \in Sends : Step(s) \/ Answer(s) \/ Timeout(s) \/ Broken(s) \/ Decide(s)
  \/ TokenExpires

Spec == Init /\ [][Next]_vars

\* Goroutines run, the mutex of the token source starves nobody, and the clients'
\* timers fire.  No service need answer and no caller's context end; nor need a
\* mint return, which has no deadline.
FairSpec ==
  Spec /\ \A s \in Sends : SF_vars(Token(s)) /\ WF_vars(Post(s)) /\ WF_vars(Timeout(s))

--------------------------------------------------------------------------
(* Properties. *)

Ended(s) == snd[s].pc \in {"delivered", "failed"}

\* Types; and one call at a time mints, under the lock of the token source.
TypeOK ==
  /\ set \in Settings /\ token \in BOOLEAN
  /\ minter = {s \in Sends : snd[s].pc = "mint"} /\ Cardinality(minter) <= 1
  /\ \A s \in Sends : /\ snd[s].pc \in {"idle", "token", "mint", "post", "wait", "delivered", "failed"}
                      /\ up[s] \in {"none", "received", "taken", "refused", "gone"}

\* A receipt that says delivered means that the service took the message; the
\* sentinel error that says the device is gone means that the service said so, or
\* that fcm answered 404 to something else, as for a project that does not exist.
\* (And at most one call mints a token at a time: TypeOK.)
ReceiptsAreTrue ==
  /\ TypeOK
  /\ \A s \in Sends : /\ snd[s].pc = "delivered" => up[s] = "taken"
                      /\ Ended(s) /\ snd[s].gone =>
                           \/ up[s] = "gone"
                           \/ snd[s].kind = "mobile_push" /\ up[s] = "refused" /\ snd[s].why = "notFound"

\* A message that was taken is reported as failed only because no answer came, or
\* a proxy's instead of the service's, it could not be read, or fcm or webpush do
\* not list its success status; a caller that tries again duplicates it.
TakenYetFailedHasCause ==
  \A s \in Sends : snd[s].pc = "failed" /\ up[s] = "taken" =>
    \/ snd[s].why \in {"noAnswer", "gateway"}
    \/ snd[s].why = "unreadable" /\ snd[s].kind # "email"
    \/ snd[s].why = "unlisted" /\ snd[s].kind \in {"web_push", "mobile_push"}

\* What reaches a service is addressable: a phone number has 6 to 15 digits, a
\* WhatsApp number its prefix exactly once, a subscription its keys, and the
\* sender is one the configuration has: the messaging service if there is one,
\* bare; else the From number, with one prefix for WhatsApp, as given for SMS.
WireIsAddressed ==
  \A s \in Sends : up[s] # "none" =>
    /\ snd[s].to.n > 0
    /\ snd[s].kind \in Phone \cup {"web_push"} => snd[s].to.good
    /\ snd[s].kind \in Phone =>
         /\ wire[s].to = IF snd[s].kind = "whatsapp" THEN 1 ELSE 0
         /\ snd[s].to.n \in 6 .. 15
         /\ wire[s].from \in set
         /\ "MessagingServiceSID" \in set => wire[s].from # "From"
         /\ wire[s].mark = IF wire[s].from # "From" THEN 0
                         ELSE IF snd[s].kind = "whatsapp" THEN 1 ELSE FromPrefixes

InFlight(s) == snd[s].pc \in {"token", "mint", "post", "wait"}

\* Although no service ever answers, a call through twilio ends; and so does one
\* through fcm unless a mint of an access token never returns, which keeps the
\* lock of the token source for ever.
SendReturns ==
  /\ \A s \in Sends : InFlight(s) /\ snd[s].kind \in Phone ~> Ended(s)
  /\ []<>(minter = {}) => \A s \in Sends : InFlight(s) /\ snd[s].kind = "mobile_push" ~> Ended(s)
=============================================================================
