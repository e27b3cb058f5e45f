----------------------------- MODULE MCService -----------------------------
(***************************************************************************)
(* Five ways to set up the service, the routes of one application, and     *)
(* clocks that differ as much as the tolerance allows.                     *)
(***************************************************************************)
EXTENDS Service, TLC

CONSTANTS t1, t2, i1, i2

MCSkew == i1 :> 1 @@ i2 :> 0 @@ "page" :> 0
MCSymmetry == Permutations(Tabs)

SiteOf(strategy, binding, onStoreError, tls, proxies, joins, told, upgraded) ==
    [strategy |-> strategy, binding |-> binding, onStoreError |-> onStoreError, tls |-> tls,
     proxies |-> proxies, joins |-> joins, told |-> told, upgraded |-> upgraded]
MCSites ==
    {SiteOf("paseto", "dpop", "open", TRUE, 1, FALSE, FALSE, FALSE),
     SiteOf("paseto", "dpop", "open", TRUE, 1, TRUE, FALSE, FALSE),
     SiteOf("opaque", "dpop", None, TRUE, 0, FALSE, FALSE, TRUE),
     SiteOf("opaque", "dpop", None, TRUE, 0, FALSE, TRUE, TRUE),
     SiteOf("opaque", "none", "closed", FALSE, 0, FALSE, FALSE, FALSE)}

Verify == [kind |-> "verify"]
RateLimit == [kind |-> "rateLimit"]
Needs(kind, required) == [kind |-> kind, required |-> required]
Fresh == [kind |-> "fresh", maxAgeSeconds |-> 1]
NoParams == [owner |-> None, tenant |-> None]

Get(path, chains, users) ==
    [method |-> "get", path |-> path, params |-> NoParams, chains |-> chains, users |-> users,
     freshFor |-> None, limited |-> FALSE, troubled |-> FALSE]

MCRoutes ==
    {[Get("posts", << <<Verify>>, <<Needs("role", {"user", "admin"}), Needs("scope", {"write", "all"})>> >>,
          {"program"}) EXCEPT !.method = "post"],
     Get("drafts", << <<Verify, Needs("allRoles", {"user", "editor"})>> >>, {"page"}),
     [Get("settings", << <<RateLimit, Verify>>, <<Fresh>> >>, {"page", "program"})
         EXCEPT !.freshFor = 1, !.limited = TRUE, !.troubled = TRUE],
     [Get("mine", << <<Verify>>, <<[kind |-> "owner"]>>, <<[kind |-> "tenant"]>> >>, {"page"})
         EXCEPT !.params = [owner |-> "page", tenant |-> "one"]],
     Get("forgotten", << <<Needs("role", {"user"})>> >>, {})}
=============================================================================
