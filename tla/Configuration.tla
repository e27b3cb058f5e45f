---------------------------- MODULE Configuration ----------------------------
(***************************************************************************)
(* What new Ninsho() makes of its configuration (server, config.ts and     *)
(* ninsho.ts).  A configuration is a record in which None is undefined; a  *)
(* number that is not one of finite, whole seconds is negative.  What      *)
(* throws is None.                                                         *)
(***************************************************************************)
EXTENDS KeyRing

DEFAULTS == [strategy |-> "opaque", accessTokenTtl |-> 300, refreshTokenTtl |-> 604800,
             onStoreError |-> "closed", binding |-> "none", refreshGraceSeconds |-> 30,
             dpopProofMaxAgeSeconds |-> 60, clockToleranceSeconds |-> 5]
ACCESS_TTL_WARN_THRESHOLD == 3600
ACCESS_TTL_MAX == 86400
GRACE_WARN_THRESHOLD == 120
DPOP_MAX_AGE_WARN_THRESHOLD == 300

WithDefaults(config) ==
    [f \in DOMAIN config |->
        IF config[f] = None /\ f \in DOMAIN DEFAULTS THEN DEFAULTS[f] ELSE config[f]]

REQUIRED_STORE_METHODS ==
    {"get", "set", "setIfAbsent", "take", "increment", "delete", "exists",
     "sAdd", "sRemove", "sMembers", "ping", "close"}

requireNonEmptyString(value) == value \notin {None, "", " "}
requirePositiveSeconds(value) == value > 0

\* Issuer, audience and keys are for the strategy 'paseto' and no other.
StrategyIsWhole(c) ==
    CASE c.strategy = "paseto" -> /\ requireNonEmptyString(c.issuer)
                                  /\ requireNonEmptyString(c.audience)
                                  /\ c.keys # None
      [] c.strategy = "opaque" -> {c.issuer, c.audience, c.keys} = {None}
      [] OTHER -> FALSE

\* given is the configuration without its defaults.
BindingIsWhole(c, given) ==
    /\ c.binding \in {"none", "dpop"}
    /\ requirePositiveSeconds(c.dpopProofMaxAgeSeconds)
    /\ c.binding = "none" => given.dpopProofMaxAgeSeconds = None

FailureModeIsWhole(c) ==
    /\ c.onStoreError \in {"closed", "open"}
    /\ c.onStoreError = "open" => c.strategy # "opaque"

TimesAreWhole(c) ==
    /\ requirePositiveSeconds(c.accessTokenTtl) /\ requirePositiveSeconds(c.refreshTokenTtl)
    /\ c.accessTokenTtl <= ACCESS_TTL_MAX
    /\ c.accessTokenTtl < c.refreshTokenTtl
    /\ c.refreshGraceSeconds \in 0 .. c.refreshTokenTtl - 1
    /\ c.clockToleranceSeconds \in 0 .. c.accessTokenTtl

\* What is allowed and said aloud.
warnings(c) ==
    {w \in {"maxAge", "open", "ttl", "grace"} :
        CASE w = "maxAge" -> /\ c.binding = "dpop"
                             /\ c.dpopProofMaxAgeSeconds > DPOP_MAX_AGE_WARN_THRESHOLD
          [] w = "open" -> c.onStoreError = "open"
          [] w = "ttl" -> c.accessTokenTtl > ACCESS_TTL_WARN_THRESHOLD
          [] w = "grace" -> c.refreshGraceSeconds > GRACE_WARN_THRESHOLD}

Resolved(c, given) ==
    IF /\ REQUIRED_STORE_METHODS \subseteq c.store
       /\ StrategyIsWhole(c) /\ BindingIsWhole(c, given) /\ FailureModeIsWhole(c)
       /\ TimesAreWhole(c)
       /\ c.audit \in {None, "sink"}
    THEN c ELSE None

resolveConfig(config) == Resolved(WithDefaults(config), config)

-----------------------------------------------------------------------------
(* ninsho.ts *)

\* The engine of a resolved configuration with its ring; a signed one needs a ring.
Engine(c, ring) ==
    [strategy |-> c.strategy, ring |-> ring, issuer |-> c.issuer, audience |-> c.audience,
     accessTokenTtl |-> c.accessTokenTtl, clockToleranceSeconds |-> c.clockToleranceSeconds]

Instance(c, ring) ==
    IF c.strategy = "paseto" /\ ring = None THEN None
    ELSE [engine |-> Engine(c, ring),
          dpop |-> IF c.binding = "dpop"
                   THEN [maxAgeSeconds |-> c.dpopProofMaxAgeSeconds,
                         clockToleranceSeconds |-> c.clockToleranceSeconds]
                   ELSE None,
          emitted |-> warnings(c)]

WithConfig(c) ==
    IF c = None THEN None
    ELSE Instance(c, IF c.strategy = "paseto" THEN KeyRing(c.keys) ELSE None)

\* new Ninsho(config)
Ninsho(config) == WithConfig(resolveConfig(config))
=============================================================================
