-------------------------- MODULE Authentication --------------------------
(***************************************************************************)
(* Who may call: the two middlewares that stand before the handlers, and   *)
(* the checks of the authentication service they make.  The lookups in     *)
(* user_sessions and of API keys are commented out in the source, so that  *)
(* a token is good until it expires and any key is good.                   *)
(*                                                                         *)
(* GenerateJWTWithVerification, which nothing calls, is not part of this.  *)
(***************************************************************************)
EXTENDS Naturals

CONSTANTS
    Secret,    \* jwt.secret of the configuration
    NoSecret,  \* the empty one
    NoToken,   \* the empty token
    Tokens,    \* what callers present as tokens
    MaxNow     \* BOUND: the end of the time that is looked at

Methods == {"hmac", "rsa", "none"}

\* What the claims and the signature of a token say.
Claims == [method : Methods, key : {Secret, "another"},
           issuer : {"tucanbit", "another"}, expires : 0..MaxNow]

CONSTANTS ClaimsOf  \* token -> its claims

ASSUME AuthenticationAssumption ==
    /\ NoToken \notin Tokens
    /\ MaxNow \in Nat
    /\ ClaimsOf \in [Tokens -> Claims]

VARIABLES now

\* The header is read as "Bearer <token>"; without a header the query is.
Headers == {"missing", "bearer", "malformed"}
Presented(header, token) ==
    IF header = "malformed" THEN NoToken ELSE token

\* jwt.ParseWithClaims, which also refuses an expired token, and the checks of
\* the service after it.
VerifyToken(t) ==
    /\ Secret # NoSecret
    /\ t # NoToken
    /\ ClaimsOf[t].method = "hmac" /\ ClaimsOf[t].key = Secret
    /\ ClaimsOf[t].expires >= now
    /\ ClaimsOf[t].issuer = "tucanbit"

AuthMiddleware(header, token) == VerifyToken(Presented(header, token))

\* A key is in the header X-API-Key or in the query.
VerifyAPIKey(key) == key # ""
APIKeyMiddleware(header, query) == VerifyAPIKey(IF header # "" THEN header ELSE query)

Tick == now < MaxNow /\ now' = now + 1
=============================================================================
