--------------------------- MODULE MCHttpServer ---------------------------
(* Constants for the model-checking run of HttpServer.                      *)
EXTENDS HttpServer, TLC

CONSTANTS good, forged

MCSecret == "secret"
MCClaimsOf ==
    good :> [method |-> "hmac", key |-> MCSecret, issuer |-> "tucanbit",
             expires |-> 0] @@
    forged :> [method |-> "hmac", key |-> "another", issuer |-> "tucanbit",
               expires |-> 1]

Get(route, header, token) ==
    [NoCall EXCEPT !.route = route, !.header = header, !.token = token]
Post(key, body) ==
    [NoCall EXCEPT !.method = "POST", !.route = "messages", !.key = key, !.body = body]

MCCalls ==
    {Get("health", "missing", NoToken), Get("none", "missing", NoToken),
     Get("webhook", "bearer", good),
     [Get("status", "missing", NoToken) EXCEPT !.method = "OPTIONS"],
     Get("status", "missing", good), Get("status", "bearer", forged),
     Get("test", "malformed", good), Get("test", "bearer", good)} \cup
    {Post("key", body) : body \in Bodies \ {"none"}} \cup
    {Post("", "full")}
=============================================================================
