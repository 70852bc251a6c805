------------------------------- MODULE Config -------------------------------
(***************************************************************************)
(* loadConfig of internal/server/config.go: what the environment of a      *)
(* notifyd process makes of it.  A value is abstracted to what the code    *)
(* tells apart.  An environment is a record:                               *)
(*   num[v]   a numeric or duration variable: unset, junk that does not    *)
(*            parse, or a number                                           *)
(*   bool[v]  "", "true", "false" (any spelling ParseBool knows) or junk   *)
(*   name[v]  a variable that selects something, lower-cased, "" if unset  *)
(*   given    the remaining string variables that are not empty            *)
(***************************************************************************)
EXTENDS Integers

PortVars == {"CLIENT_PORT", "INTERNAL_PORT", "METRICS_PORT"}

\* The smallest legal value of each numeric variable.
Lowest ==
  [CLIENT_PORT |-> 1, INTERNAL_PORT |-> 1, METRICS_PORT |-> 1, EMAIL_SMTP_PORT |-> 1,
   SHUTDOWN_TIMEOUT |-> 1, LIVE_HEARTBEAT_INTERVAL |-> 1, LIVE_RETRY_INTERVAL |-> 1,
   AUTH_JWT_LEEWAY |-> 0, LIVE_RETRY_MAX_ATTEMPTS |-> 0]

NumVars == DOMAIN Lowest

Default ==
  [CLIENT_PORT |-> 8080, INTERNAL_PORT |-> 8081, METRICS_PORT |-> 9090, EMAIL_SMTP_PORT |-> 0,
   SHUTDOWN_TIMEOUT |-> 30, LIVE_HEARTBEAT_INTERVAL |-> 30, LIVE_RETRY_INTERVAL |-> 5,
   AUTH_JWT_LEEWAY |-> 30, LIVE_RETRY_MAX_ATTEMPTS |-> 3]

Unset  == [raw |-> "unset"]
Junk   == [raw |-> "junk"]
Num(n) == [raw |-> "num", n |-> n]

LogLevels == {"", "debug", "info", "warn", "warning", "error"}

\* Variables that must be given when the first one selects the second.
Requires ==
  {<<"STORE_DRIVER", "postgres", {"POSTGRES_DSN"}>>,
   <<"STORE_DRIVER", "entdb", {"ENTDB_ADDRESS", "ENTDB_TENANT_ID"}>>,
   <<"EMAIL_PROVIDER", "emailservice", {"EMAIL_SERVICE_ADDRESS"}>>,
   <<"SMS_PROVIDER", "twilio", {"SMS_ACCOUNT_SID", "SMS_AUTH_TOKEN"}>>,
   <<"WHATSAPP_PROVIDER", "twilio", {"WHATSAPP_ACCOUNT_SID", "WHATSAPP_AUTH_TOKEN"}>>,
   <<"WEBPUSH_PROVIDER", "vapid", {"WEBPUSH_VAPID_PUBLIC", "WEBPUSH_VAPID_PRIVATE"}>>,
   <<"MOBILEPUSH_PROVIDER", "fcm", {"FCM_CREDENTIALS_JSON", "FCM_PROJECT_ID"}>>}

Driver(env)        == IF env.name["STORE_DRIVER"] = "" THEN "memory" ELSE env.name["STORE_DRIVER"]
EmailProvider(env) == IF env.name["EMAIL_PROVIDER"] = "" THEN "none" ELSE env.name["EMAIL_PROVIDER"]

\* A value that does not parse as a boolean counts as unset.
parseBoolDefault(v, def) ==
  IF v \in {"true", "false"} THEN v = "true" ELSE def

\* Ports have 16 bits.
MaxPort == 65535

Legal(v, x) ==
  \/ x.raw = "unset"
  \/ /\ x.raw = "num"
     /\ x.n >= Lowest[v]
     /\ v \in PortVars \cup {"EMAIL_SMTP_PORT"} => x.n <= MaxPort

Value(v, x) == IF x.raw = "num" THEN x.n ELSE Default[v]

DevMode(env) == parseBoolDefault(env.bool["AUTH_DEV_MODE"], FALSE)

StoreAccepted(env) == Driver(env) \in {"memory", "postgres", "entdb"}

AuthAccepted(env) ==
  DevMode(env) \/ {"AUTH_JWT_SECRET", "INTERNAL_TOKEN"} \subseteq env.given

RequirementsMet(env) ==
  /\ \A r \in Requires : env.name[r[1]] = r[2] => r[3] \subseteq env.given
  /\ EmailProvider(env) # "none" => "EMAIL_FROM" \in env.given

\* Any violated rule makes loadConfig return an error, so the process exits.
Accepted(env) ==
  /\ \A v \in NumVars : Legal(v, env.num[v])
  /\ env.name["LOG_LEVEL"] \in LogLevels
  /\ StoreAccepted(env)
  /\ AuthAccepted(env)
  /\ RequirementsMet(env)

\* The channels whose provider block the environment fills in.
Selected(env) ==
  {c \in {"email", "sms", "whatsapp", "webpush", "mobilepush"} :
     CASE c = "email"      -> EmailProvider(env) # "none"
       [] c = "sms"        -> env.name["SMS_PROVIDER"] # ""
       [] c = "whatsapp"   -> env.name["WHATSAPP_PROVIDER"] # ""
       [] c = "webpush"    -> env.name["WEBPUSH_PROVIDER"] # ""
       [] c = "mobilepush" -> env.name["MOBILEPUSH_PROVIDER"] # ""}

\* What an accepted environment resolves to.
loadConfig(env) ==
  [num      |-> [v \in NumVars |-> Value(v, env.num[v])],
   driver   |-> Driver(env),
   migrate  |-> Driver(env) = "postgres" /\ parseBoolDefault(env.bool["POSTGRES_AUTOMIGRATE"], TRUE),
   dev      |-> DevMode(env),
   secret   |-> "AUTH_JWT_SECRET" \in env.given,
   issuer   |-> "AUTH_JWT_ISSUER" \in env.given,
   audience |-> "AUTH_JWT_AUDIENCE" \in env.given,
   token    |-> "INTERNAL_TOKEN" \in env.given,
   live     |-> parseBoolDefault(env.bool["LIVE_CONNECTIONS_ENABLED"], TRUE),
   channels |-> Selected(env)]
=============================================================================
