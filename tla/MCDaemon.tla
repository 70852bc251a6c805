------------------------------ MODULE MCDaemon ------------------------------
EXTENDS Daemon

Base ==
  [num   |-> [v \in NumVars |-> Unset],
   bool  |-> [v \in {"AUTH_DEV_MODE", "POSTGRES_AUTOMIGRATE", "LIVE_CONNECTIONS_ENABLED"} |-> ""],
   name  |-> [v \in {r[1] : r \in Requires} \cup {"LOG_LEVEL"} |-> ""],
   given |-> {"AUTH_JWT_SECRET", "INTERNAL_TOKEN"}]

With(f, v, x) == [Base EXCEPT ![f][v] = x]

\* One variable changed, and combinations of the store's and of auth's.
MCEnvs ==
  {Base}
  \cup {With("num", v, x) : v \in NumVars, x \in {Junk, Num(-1)}}
  \cup {With("num", v, Num(0)) : v \in {w \in NumVars : Lowest[w] > 0}}
  \cup {With("num", "CLIENT_PORT", Num(8081)), With("num", "METRICS_PORT", Num(65536))}
  \cup {With("name", "LOG_LEVEL", "loud")}
  \cup {With("name", q[1], q[2]) : q \in Requires}
  \cup {[With("name", "STORE_DRIVER", x) EXCEPT !.given = @ \cup g] :
          x \in {"postgres", "entdb", "mysql"},
          g \in {{}, {"POSTGRES_DSN"}, {"ENTDB_ADDRESS"}, {"ENTDB_ADDRESS", "ENTDB_TENANT_ID"}}}
  \cup {[With("bool", "AUTH_DEV_MODE", x) EXCEPT !.given = g] :
          x \in {"true", "junk"}, g \in SUBSET {"AUTH_JWT_SECRET", "INTERNAL_TOKEN"}}
  \cup {[With("name", "EMAIL_PROVIDER", "emailservice") EXCEPT
           !.bool["LIVE_CONNECTIONS_ENABLED"] = "false", !.given = @ \cup {"AUTH_JWT_AUDIENCE"} \cup g] :
          g \in {{}, {"EMAIL_FROM"}, {"EMAIL_FROM", "EMAIL_SERVICE_ADDRESS"}}}

JWT == [kind |-> "jwt", signed |-> TRUE, exp |-> 10, nbf |-> 0, iss |-> FALSE, aud |-> FALSE,
        sub |-> "u", tenant |-> Absent, tenant_id |-> "t"]
Dev == [kind |-> "dev", fields |-> 3, user |-> "u", tenant |-> "t"]

Bearer(t) == [scheme |-> "bearer", tok |-> t]
MCHeaders ==
  {Bearer(JWT), Bearer([JWT EXCEPT !.signed = FALSE]),
   Bearer([JWT EXCEPT !.tenant = ""]), Bearer(Dev)}
=============================================================================
