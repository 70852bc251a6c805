-------------------------------- MODULE Auth --------------------------------
(***************************************************************************)
(* internal/server/auth.go: what a request's headers are worth under a     *)
(* configuration.  An Authorization header is [scheme, tok]; a token is a  *)
(* JWT with its claims, a development token "dev:<user>:<tenant>[:<email>]"*)
(* or nothing.  A claim that is missing or no string is Absent.            *)
(***************************************************************************)
EXTENDS Integers

Absent   == "absent"
NoToken  == [kind |-> "none"]
NoClaims == [user |-> "", tenant |-> ""]

\* The three validators a configuration leads to.
buildValidator(cfg) ==
  CASE cfg.secret            -> "jwt"
    [] ~cfg.secret /\ cfg.dev  -> "dev"
    [] OTHER                 -> "none"

stripBearer(h) == IF h.scheme = "bearer" THEN h.tok ELSE NoToken

\* What the JWT library checks with the options Validate gives it: HS256 with
\* our secret, the time limits with leeway, and issuer and audience if pinned.
Verified(cfg, t, now) ==
  /\ t.signed
  /\ t.exp # 0 => now < t.exp + cfg.num["AUTH_JWT_LEEWAY"]
  /\ t.nbf # 0 => now >= t.nbf - cfg.num["AUTH_JWT_LEEWAY"]
  /\ cfg.issuer => t.iss
  /\ cfg.audience => t.aud

Complete(c) == c.user \notin {"", Absent} /\ c.tenant \notin {"", Absent}

\* "tenant" wins over "tenant_id" as soon as it is a string, an empty one too.
JWTClaims(t) ==
  [user |-> t.sub, tenant |-> IF t.tenant # Absent THEN t.tenant ELSE t.tenant_id]

\* JWTValidator.Validate and DevValidator.Validate: claims, or none.
Validate(cfg, h, now) ==
  LET t == stripBearer(h)
      c == CASE t.kind = "jwt" -> JWTClaims(t)
             [] t.kind = "dev" -> [user |-> t.user, tenant |-> t.tenant]
             [] OTHER          -> NoClaims
  IN  IF /\ t.kind = buildValidator(cfg)
         /\ t.kind = "jwt" => Verified(cfg, t, now)
         /\ t.kind = "dev" => t.fields \in 3 .. 4
         /\ Complete(c)
      THEN c
      ELSE NoClaims

\* NewInternalAuthInterceptor: the shared secret, if there is one to compare.
InternalAllowed(cfg, token) == IF cfg.token THEN token = "right" ELSE cfg.dev
=============================================================================
