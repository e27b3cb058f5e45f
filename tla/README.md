# Ninsho, verified

TLA+ models of Ninsho: the parts that hold state and run concurrently, the
algorithms they rest on, and the whole put together; TLC runs that check them on
small instances, and TLAPS proofs of the properties that matter most.  The reference is the code under `src/packages`; a comment or
a document counts only where it promises something the code can be held to.
Paths below leave out `src/packages/`; `server/session/manager.ts` is
`src/packages/server/src/session/manager.ts`, and so on.

## The system

Ninsho is an authentication library in four packages: `core` (time, random
values, errors, types), `server`, `client` (browser) and `webauthn`.  Any number
of server processes share one key-value store; any number of browser tabs share
one cookie jar.

| Component | State | Operations | Talks to |
|---|---|---|---|
| Session manager, `server/session/manager.ts` | refresh records, tombstones, grace mappings, per-session index, metadata and marker, per-user index, all in the store | `create`, `refresh`, `revoke`, `revokeAllForUser`, `listSessions` | the store; a token engine |
| Token engines, `server/engine` | opaque: access records, their ids, per-session index; PASETO: denylist and per-session index | `issue`, `verify`, `revoke`, `revokeSession` | the store; the key ring |
| Request verification, `server/http`, `server/dpop` | none of its own; claimed DPoP proofs in the store | `verify`, `requireRole`, `requireAllRoles`, `requireScope`, `requireFreshAuth`, `requireOwner`, `requireTenant`; `DpopReplayGuard.claim` | an engine; the store |
| One-time tokens, `server/tokens/one-time.ts` | claims and a generation counter per purpose and subject, in the store | `issue`, `consume`, `revokeAllFor` | the store |
| Rate limiter, `server/ratelimit` | one counter per bucket and window, in the store | `consume`, the middleware | the store; client address |
| Store, `server/store` | keys with expiry, sets | `get`, `set`, `setIfAbsent`, `take`, `increment`, `delete`, `exists`, `sAdd`, `sRemove`, `sMembers` | Redis, or a map in memory |
| Client, `client/client.ts`, `session-sync.ts` | access token, generation, in-flight refresh and sign-out, notices between tabs | `request`, `refresh`, `signIn`, `signOut`, `setAccessToken`, `dispose` | the server over HTTP; peers over a BroadcastChannel |
| Client keys, `client/storage.ts`, `keys.ts`, `proof.ts` | the DPoP key in IndexedDB | `getOrCreate`, `save`, `load`, `clear`; signing | the client |
| WebAuthn, `webauthn` | challenges in a store; credentials in the application's database | `startRegistration`, `finishRegistration`, `startAuthentication`, `finishAuthentication`; attestation, decoding | the store |
| Facade and configuration, `server/ninsho.ts`, `config.ts` | the resolved options | `new Ninsho`, `confirmProofOfPossession`, `createSession`, `refresh`, `setRequestUrlBuilder` | everything |
| Key ring and PASETO codec, `server/keys`, `server/paseto` | signing keys, current and previous | `resolve`, `signV4Public`, `verifyV4Public` | the engine |
| Framework adapters, `server/fastify.ts`, `hono.ts`, `koa.ts`; client address, `server/ratelimit/client-ip.ts` | the identity, on the request or its context | `toFastify`, `toFastifyChain`, `toHono`, `toKoa`, `getAuth`; `clientIp` | the frameworks; the middlewares |

What is hard about it: every operation is a sequence of store commands with
awaits between them, run by any number of processes at once; a command may fail
after it took effect; entries lapse while calls are under way; tabs present the
same refresh token at the same time; answers arrive after the page they were
for has changed hands; windows, tolerances and retentions have to fit each
other to the second.  `PROJECT.json` lists these hazards one by one, at their
lines, with the property that covers each.

## Modules

| Module | Of | Contents |
|---|---|---|
| `SessionManager` | session manager with both engines | one action per store command, with the code up to the next command |
| `SessionInvariant` | | the inductive invariant of `SessionManager` |
| `SessionManagerProofs` | | its proof; and what races between calls cannot do: fork a chain, raise a false alarm, act without the key, hide a session or leave one behind, proved |
| `SingleUseToken` | | what one-time tokens promise: no store, no clock |
| `OneTimeToken` | one-time tokens | one action per store command, with a clock; implements `SingleUseToken` |
| `OneTimeTokenProofs` | | its invariant, and that it implements `SingleUseToken`, proved |
| `NinshoClient` | client | one action per piece of code between two awaits |
| `NinshoClientProofs` | | its invariant and its safety, proved |
| `RateLimiter` | limiter and its middleware | one action per store command of each bucket |
| `RateLimiterProofs` | | its invariant and its limits, proved |
| `ProtectedRequest` | `verify`, DPoP, both engines' lifetimes, revocation | one action per store command, with a clock |
| `ProtectedRequestProofs` | | its invariant, proved |
| `WebAuthnCeremony` | WebAuthn registration and sign-in | one action per store command and per access to the application's credentials, with a clock |
| `Attestation` | `attestation.ts` with the checks of all seven formats | what `verifyAttestation` accepts |
| `VirtualAuthenticator` | `testing.ts`, `x509-fixtures.ts` | the authenticators, certificates and BLOBs of the package's own test support |
| `Metadata` | `mds.ts` and a relying party with a policy | BLOBs, compromises and registrations over time |
| `WebAuthnProofs` | | the invariants of `WebAuthnCeremony` and of `Metadata`, and what follows, proved |
| `Cbor`, `Der`, `AuthenticatorData` | `cbor.ts`, `der.ts`, `asn1.ts`, `authdata.ts`, `cose.ts` | the decoders and their encoders, byte by byte |
| `Decoding` | | what is encoded, damaged and decoded |
| `MemoryStore` | `store/memory.ts` | its methods as functions on its two maps |
| `RedisStore` | `store/redis.ts` over ioredis | one action per step of a command and of the connection |
| `Stores` | | both under the same calls |
| `StoresProofs` | | that they answer alike, and nothing single-use twice, proved |
| `Dpop` | `dpop/proof.ts`, `jwk.ts`, `sign.ts`; `client/keys.ts`, `proof.ts` | how proofs are made and verified |
| `KeyRing`, `Engines` | `keys/keyring.ts`, `paseto/v4.ts`, both engines | what a token says and how it is read |
| `Configuration` | `config.ts`, `ninsho.ts` | what a configuration is made into, or why it is refused |
| `Gateway` | middlewares, adapters, client address | a request on its way through an instance |
| `BrowserKeys` | `client/storage.ts`, `storedKey()` | the tabs' transactions on the shared key |
| `Service` | all of the last six | deployments, rotations, tabs, sign-ins, refreshes and requests |
| `ServiceProofs` | | that whoever is served is entitled to it, and whoever may be is served, proved |
| `MC...` | | small instances, their symmetry |

`Service` composes `Gateway` (which extends `Engines` and `Configuration`, and they
`KeyRing`) with `BrowserKeys`, and all of them with `Dpop`.  `Stores` composes `RedisStore`
and `MemoryStore`, `Metadata` composes `Attestation` and `VirtualAuthenticator`, and
`Decoding` the decoders.  `Cbor`, `Der`, `AuthenticatorData` and `Decoding` have RECURSIVE
operators and no theorems.

Three modules see the access tokens.  `SessionManager` has the engines'
commands one by one and no lifetimes; `ProtectedRequest` has the lifetimes and
the denylist, and takes a token's issue as one step.  The division is sound in
one direction by `SessionManager`'s `EndedSessionsAreDead`: an issue that
overlaps a revocation of its session is undone and its token never handed out,
so `ProtectedRequest` mints no token for a session once it is marked as ended.

### The store, as every module sees it

`server/store/types.ts` states that each command is atomic and that transport
failures throw.  So an action is one command; any other caller may act between
two; and a command that fails either did or did not take effect.  Which
backend answers is not visible.  Commands issued together with `Promise.all`
take effect in any order.

### SessionManager

`rt`, `consumed`, `grace`, `rtx`, `rtIndex`, `meta`, `marker`, `userIndex`, `at`,
`atid` and `atIndex` are the key families of `server/keys.ts`: a key is in its
variable while it exists.  What a record says never changes after it is
written, so `token` and `access` keep contents and the others presence.  `pc` and
`loc` are a caller's place and local variables; `fr` holds a `#revokeFamily` frame
per session, because `revokeAllForUser` runs many at once.  `handedR`, `handedA`,
`ended`, `lapsed`, `alarms`, `reported` are history that no action reads.

Left out: client signals and their comparison, the contents of metadata, records
that do not parse (the code treats them as absent), the pool limit of 16 (its
workers run in every order here), and the lapse of markers and indexes, which
live as long as the session can.  A refresh token and its hash are one name.
The lapse of the grace window is an action that may happen at any time after
the mapping is written; the family ceiling passes in two stages, since the
store's TTLs end at the ceiling and the comparison in `#rotate` only after the
clock tolerance.

### OneTimeToken

`counter` holds a generation and the tick it lapses at, `stored` the tick each claim
lapses at.  `Slack` is the hour by which `GENERATION_TTL_SECONDS` exceeds
`MAX_TTL_SECONDS`, and `Stall` the longest a single call may take between two of its
commands; `2 * Stall < Slack` says that a call does not take half an hour.
`Replacing` are the purposes of managers that set `invalidatePrevious`; the others
keep earlier tokens.  A call begins with its first store command.
`epoch` and `epochOf` are history: how often a slot was superseded, and the count
each token was stamped under.

### NinshoClient

One page.  `generation` and the in-flight fields are the code's.  The user a token
is for stands for the token, so that an answer for the wrong identity can be
told.  `identity` counts the changes of the page's identity and is history.  The
jar (`cookie`), the server's answers, the notices of peers and a sign-in in another
tab are the environment.  Waiting for the key and its signature is part of the
step that leads to the request; the races of the key store are `BrowserKeys`.

### RateLimiter

`count` holds a value and an expiry per bucket and window.  A request reads the
clock once (`at`) and then runs its buckets in parallel; `Stall` bounds how long it
may be in flight.  `admitted` is history: for every bucket the requests it let
through, each with its arrival and the place its increment returned, which the
proofs count by; `straddled` tells that some request counted itself in a window
gone by.  Rational weights are compared after multiplying by the
window, so no precision is lost.

### ProtectedRequest

`proof` holds the proofs clients have signed: each names a token and an `iat` that may
be ahead of or behind the server's clock.  `claimed`, `denied`, `record` and `index` keep
the tick their entries lapse at.  `late` marks a request that began after its
token's revocation had completed; `blind` one that met an outage under `open`.
`Second` is the code's `+ 1` in two retention sums; `Stall < Second` says that a check
against the clock and the command that follows it are less than a second apart.
`IndexSlack` is the 60 seconds by which a session's index outlives a token.
`engine.revoke()` is one step (its interleavings are in `SessionManager`), and the
deletion of the records of a session likewise, as it is one command.

### WebAuthnCeremony

`until` and `context` are the challenge records in the store, `context` with what a
record says; a challenge that was taken keeps its `context` as history.  `owner` and
`signCount` are the application's table of credentials, whose use follows the flow
in `webauthn/README.md`: look the credential up, call `finishAuthentication()`, write
the counter back, then grant the session.  Credentials may be there from before.
What decodes and verifies a response (`ceremony.ts`, `authdata.ts`, `cose.ts` and the
attestation formats) is one verdict, `sound`; the checks on the user, the
policy, the expiry and the counter are made one by one.  A response is any
record for a challenge that was handed out, so that repeats, mix-ups of users
and endpoints, and copies of an authenticator with counts of their own need no
actions.  An authenticator makes a credential for one challenge (`made`).  The
application stores the owner with a credential, as the package's README asks;
the fallbacks of `server.ts:288` for one that does not are left out.

### Attestation, VirtualAuthenticator, Metadata

A check that throws is a conjunct; a hash wraps its input, a signature names its
key and what it is over.  An authenticator makes a registration of any of the
seven formats; a response may mix the parts of two registrations (statement,
authenticator data, certificates, client data).  A metadata entry has roots and
status reports with dates; a BLOB is what the registry says at one moment, with a
`nextUpdate`; the relying party loads one that is signed by its root and not stale, and
keeps the policy drawn from it.  History (`verdict`) says what the response was mixed from.
The loop of `chainReachesAnchor` is a walk of at most `MAX_CHAIN_DEPTH` certificates, each
the first issuer of the one before; the properties speak of any path of issuers
(`Vouched`) instead, so that `GenuineAccepted` needs that no two certificates of
a chain have one name and key (`OneEach`): the walk does not try the second.
`AcceptedMeansMade` claims no more of an accepted response than that it is of the
maker's ceremony and credential and of its model: the code does not bind the
format's name, and `fido-u2f` does not name a model.

### Cbor, Der, AuthenticatorData, Decoding

The decoders work on sequences of bytes as the code does, with field widths as
constants, since no length but the number of bytes to read depends on them.
`Decoding` encodes values with the package's own encoders, loses, changes or adds
bytes, and decodes what is left.

### MemoryStore, RedisStore, Stores

`MemoryStore`'s methods await nothing and are functions.  A Redis command passes the
gate of the first connection, is put on the wire, served, answered; the
connection may drop anywhere, after which ioredis sends what was in flight again
or rejects it.  `Stores` gives each command to the other store at the moment Redis
serves it, and compares the two stores' answers to every next call.  That a key is of
one kind, that no counter is deleted and that counters and sets have a TTL is what the
server's calls keep to (`CallsAssumption`); outside it the stores differ, see Findings.

### Dpop, KeyRing, Engines, Configuration, Gateway, BrowserKeys, Service

These modules say what the sequential code between two awaits computes, where the
modules above take it as a verdict.  `Service` lets them work on what the others
made: configurations, of which some have a slip, become instances or are refused;
the page's tabs agree on a key; sign-ins and refreshes hand out tokens bound to it;
requests carry them through one of four frameworks to a route's chains of
middlewares.  `site` is how the service is set up, `process` what `new Ninsho()` made
for each instance, `exchange` the request or refresh just answered.  A request may
meet one of 22 mishaps: a second credential or proof, a token or proof made for
something else, a respelled segment, a footer added to, a proof too early or too
late, and so on.  A second Authorization line is kept apart from the first until a
framework's view is made of them: Node keeps the first for `headers` and shows all in
`rawHeaders`, which the views of Express, Fastify and Koa carry and Hono's does not
(`Kept`, `RawLines`).  On sites with `joins` a proxy sends what it got as one line
(`wire.joined`), which is the other way it may reach a middleware, as a comma.
Everything else an exchange depends on is in the state, so an
exchange is a state of its own that `Answer` leaves again.

Left out of `Service`, because other modules have it: the claim of a proof and
revocation (`ProtectedRequest`), the counting of the limiter (`RateLimiter`), rotation of
refresh tokens (`SessionManager`).  Error texts, audit events and body parsing have no
model.

## Runs

| Run | Question | Bounds, and why they are enough |
|---|---|---|
| `session_races` | do creation, rotation and revocation of one bound session ever leave a live credential after revocation, two live refresh tokens or a false alarm; is its token inert without the key; does anything of a family stay in the store past its lifetime; does a revocation that began finish with nothing live? | 2 callers, 4 calls, 4 tokens, the family may age out, no symmetry (liveness); the proofs of safety hold for any number of callers |
| `session_signout` | are listings and sign-out-everywhere complete, with signed tokens and a command that fails? | 2 sessions of a user, 2 callers, 3 calls, 1 failure |
| `session_failed_listing` | does a session whose revocation failed stay listed? It does not, see Findings | the smallest instance that shows it |
| `onetime_replace` | spent once, superseding sticks, the newest is honoured, refinement | 2 callers, 2 tokens, a purpose that replaces and is superseded twice, one that keeps and is revoked once, a clock up to the counter's lapse |
| `client_identity` | overlapping sign-ins, sign-outs, refreshes and requests: do late answers and retries respect the page's identity, and does every call settle? | 3 calls, 1 identity event, tabs in synchrony, no symmetry (liveness) |
| `rate_races` | limits under concurrency, failures and boundaries | 3 requests, 2 at a time, 2 addresses, 1 account, 2 windows |
| `request_paseto` | is a revoked signed token refused, and a proof used once? | 2 requests, 1 token, 1 proof, 1 revocation, 1 outage, the whole window of each and past it, skew both ways |
| `webauthn_ceremonies` | is a challenge tried once, does what completes match what was started, and does the counter rise? | 2 requests, 2 challenges, 2 users, 1 credential registered or not, counts 0 and 1, a clock past every lapse; equal counts are what tells a copy |
| `metadata_policies` | is what is accepted what it claims to be, is what is genuine accepted, and does a compromise take effect? | all seven formats, chains of depth 2 (`MAX_CHAIN_DEPTH`), two models with up to 3 reports each (`MaxReports`), one BLOB (`MaxBlobs`) with a life up to 1 (`Period`), `MaxTime` 2: compromises before a BLOB, after it, and after its policy was loaded |
| `decoding_damage` | does what is whole read back, and has what is accepted one reading (a signature one encoding, a map no key twice) and no byte to spare? | up to two bytes lost, changed or added (`MaxDamage`) of data up to 20 bytes (`MaxLength`); fields one byte wide; UTF-8 of one and two bytes |
| `stores_outages` | do both stores answer alike, is nothing single-use answered twice, does no call hang? | 2 callers, 3 commands, 1 drop, 1 second; one reconnection attempt for the code's five and none per request for its two, which makes giving up reachable |
| `service_end_to_end` | does the server take what the clients make, and nothing else? | 2 tabs, 2 instances with clocks a tolerance apart, 2 releases of the signing key, 5 sites (one with a proxy that joins lines), 5 routes, `MaxClock` 2 (from issue to past the tolerance); mishaps befall one route, which is enough as routes differ after `verify` only; time passes and instances are replaced once the tabs have their key |

The opaque engine's revocation has no run of its own any more: its invariant is
proved (`ProtectedRequestProofs`), for both engines.

Symmetry is over callers, tokens, sessions of equal standing, requests, tabs and
users only, and is not used with liveness.  Each property has a mutant of the code,
an operator next to the one it changes and marked `Mutant`, under which the run
finds it violated.  The bounds `MaxOps`, `MaxFails`, `MaxEvents`, `MaxClock`, `MaxTime`, `MaxEpoch`,
`MaxRequests`, `MaxFailures`, `MaxReports`, `MaxBlobs`, `MaxDamage`, `MaxDrops` and `MaxRelease`
guard the actions that consume them.

### Fairness

`session_races` assumes weak fairness of the steps of a call that has begun: Node
runs every continuation, and the store answers or throws.  Beginning a call is
never fair.  `client_identity` assumes the same of the event loop and that a
browser's `fetch()` settles.  `stores_outages` assumes that Redis answers what it was
sent over a connection that stands, that ioredis goes on with what it does to
connect, and that the timer of the first connection fires.  Nothing else assumes
fairness.

## What is proved

For every value of the constants that satisfies the modules' assumptions:

* `SessionManagerProofs`: `Invariance`, `TypeCorrect`, `RevocationIsFinal`.  That a session
  is dead once its revocation has completed is not inductive: a token may be
  inside a call.  `IInv` adds where each token can be.  Until the marker is set, a
  refresh token that is live and handed out, or about to be, is in its session's
  index; so the enumeration that follows the marker reaches it, unless a call
  holds it; and such a call meets the marker at its check after issuance before
  it returns.  The frames of a revocation record how far that argument has
  come.
* `SessionManagerProofs`, of the races: `HeadInOnePlace`, and from it `RotationStaysLinear` and
  `OneRefreshToken`.  The head of a session's chain, the newest token that was issued
  for it, is in one place: a record in the store, with the one call that took it,
  or lost.  A token's successor is issued only by the call that has the head, so
  the chain never forks and a second token is never live beside it.
  `GracefulAlways` and `ReuseMeansLate`: a tombstone is read only after
  the grace mapping was published before it, so that the mapping is there for the
  caller, has lapsed, or the session is revoked; an alarm is raised only past the
  grace window.  `InertAlways` and `WrongKeyDoesNothing`: a call that lacks the session's
  key stays in steps that read, and runs no revocation of its own.
  `FamiliesEndInTime`: whatever a rotation or creation writes is given no longer than the
  family has (`WritesInTime`), so that a call which checked the ceiling in time, and writes
  after it has passed, leaves nothing behind.
  `LiveMeansListed`: a session's metadata is there before it is indexed, and it is indexed
  before any token of it is handed out; metadata goes only once the marker is set or
  the session has aged out (`IndexDescribed`), so a listing that finds none has met a
  session that no longer stands, and prunes only such (`ListFacts`).
  `SignOutReachesAll`: what a sign-out reads from the index contains every session it
  owes, unless that has meanwhile been marked or has aged out (`SignFacts`); a frame of
  a revocation that is done has ended its session (`FramesTold`), and unless a store
  command failed, a marked session has ended or is with a running frame (`Attended`).
  The attempt at this proof showed that `SignOutEverywhere` had been stated too
  narrowly: with five calls and a failure, a refresh that renews its session's
  metadata puts it back after a revocation failed half-way, and the session is then
  in no index although it has metadata.  The property now allows for that.
* `OneTimeTokenProofs`: `PlacedAlways` and `SpentAtMostOnce` (a token is in one place at a
  time: with a call, in the store, or spent); `Invariance`, `SupersedingSticks`,
  `LatestIsHonoured`: where issues replace, the counter of a slot has not lapsed for as
  long as a token of it can be presented, so that the counter's distance from the
  token's stamp is the number of supersessions since.
  `Implementation`, that `OneTimeToken` implements `SingleUseToken`
  (`KeepsPromise`).  Every step maps to a step of it or to a stutter; `EpochsApart` is
  what it needs beyond the invariant: two tokens that can be accepted in a slot
  that replaces differ in their epoch, so at most one is outstanding.
* `RateLimiterProofs`: `TypeCorrect`; `WindowLimitHolds`, when `Stall <= 2 * Window`, and
  `NoDoublingHolds`, when `Stall <= Window`: a request that reads the clock and finishes
  within that time still finds its counters, whose TTL is three windows.  Each
  increment has a place of its own in its window (`Counted`), a request is let through
  only with a place within the limit, and so places bound admissions.  Around the end
  of a window the invariant adds that the counter of the window before is final unless
  `straddled`, and that each admission was let through for what that counter said
  (`Weighed`); the one with the largest place bounds the sum.
* `StoresProofs`: `Invariance`, `AnswersAlike` and `TakenOnce`.  The first half of the invariant
  is a simulation, key by key (`Alike`): what is live in the map of the key's kind is there in
  Redis, with the same contents and expiry, whether or not the memory's sweeper or a
  lookup removed what has lapsed.  The second follows each value from the write that
  carries it to the take that answers it (`Fresh`, `Gone`), in one place at a time, and says
  that no count handed out within a second is above a counter that is still there
  (`Counts`); a command that is served twice changes its own call's answer only.
* `NinshoClientProofs`: `Invariance`, `TypeCorrect`, and every safety property of the client:
  `OneRefresh` (`SingleFlight`), `SignOutAlone` (`QuietSignOut`), `ResponseStaysHome`,
  `RetryStaysHome` and `SignInStaysHome`.  The argument is the generation counter:
  whatever ends the page's identity opens a new generation, what is sent is never
  sent under a newer one, and a sign-in or a sign-out opens its own; so what is still
  current was begun after the last end, and there is at most one such sign-in and one
  such refresh.
* `ProtectedRequestProofs`: `TypeCorrect`; `ProofsWorkOnce` (a claim lasts until no request
  could have found the proof acceptable: `MaxAge + 2 * Tolerance + Second` from a claim
  made no earlier than `iat - Tolerance`); and, when `Tolerance < IndexSlack`, `Invariance`
  and `RevokedStaysRefused`: a token that could still be taken for live is in its
  session's index, a dead token stays dead, and a denylist entry outlives the
  last instant at which the time checks pass.
* `WebAuthnProofs`, of the ceremonies: `TypeCorrect`; `Invariance`, from which `ChallengesAreSingleUse`,
  `CeremoniesEndAsAsked` and `CountersRise`.  `IInv` says where a challenge is (in the store,
  with the one call that took it, or gone), that a credential under registration
  is nobody's and a registered one its challenge's user's, that a call about to
  write was checked against what the challenge says, and that a credential whose
  sign-ins never overlapped has its highest count in the table, which is the one
  every check under way compares with.

* `WebAuthnProofs`, of attestation: `MetadataInvariance`, from which `CompromiseCounts`, `AcceptedIsGenuine` and
  `GenuineIsAccepted`.  The invariant says that a BLOB of FIDO's has every report that is
  older than its `nextUpdate` by the life of a BLOB, at its place in the list
  (`HoldsReports`), and that a policy drawn from metadata is what
  `toAttestationPolicy` makes of such entries.  The other two take one lemma per format,
  from what the checks compare to what the maker signed; a walk is a path, and the shortest
  path (`WFMin` of `WellFoundedInduction`) is the walk when no two certificates are alike,
  so both hold for every depth.
  Assumed of the constants: FIDO lists a model once (`EntriesAssumption`); a
  credential's key is never an attestation key, and is kept where it was made
  (`RegistrationsAssumption`).

* `ServiceProofs`: `SettingsHold`, `DependableHolds`, `ServedIsEntitled` and `HonestAreServed`.  `ServedMeansEntitled` is about one request,
  and follows from where the service stands when it is sent (`RequestEntitled`).  A request that
  no error answered has gone through every middleware of its route, on each framework, with
  the identity of the one verdict that `verify()` can come to (`Progress`, kept by a
  middleware, so by a chain and by several); the credential that was read is the only one,
  or on Hono the first of several that were not joined (`OneCredential`); what an engine takes is what an engine issued, damaged in no way
  (`DamagedRefused`, `GenuineTaken`); and a proof that is taken was sent for this token,
  method and URL (`EstablishedFor`), by the key whose thumbprint the token names.
  `Settings` says what those rest on: instances run the configuration of their site, whatever
  slips into one; tabs have keys that tabs generated; a session's key is such a key, and
  the page's token was issued for the session in the tab that has it.
  `HonestIsServed` goes the other way: what a ring of a release signs, the ring of that
  release or a later one reads (`IssuedTaken`); a proof that a key is used for, by
  either client, passes at the origin the instance sees, on each framework
  (`PlaceCompared`, `ShowsPossession`); so the verdict is the caller's identity (`HonestAdmitted`);
  and with it the request passes every chain, since a `verify()` comes before whatever asks
  who it is (`LetsThrough`).  For this `Settings` is too little.  `Dependable` adds that each
  instance runs a release there has been, however often it was deployed with a slip;
  that the token was handed over by such an instance, not after now; that the session
  has the key of a tab that is open; and that open tabs share the stored key, unless a
  readable one was found.  The last two make a refresh in the other tab succeed.
  Assumed of the constants: clocks differ by the tolerance at most (`ServiceAssumption`);
  the first configuration of a site comes up (`FirstAssumption`); there is a signing key for
  each release (`ReleasesAssumption`); a route's users are those its chains let through, its
  `verify()` comes first and its freshness is the shortest it asks for (`RoutesAssumption`);
  lines are joined by a proxy, so only where there is one (`SitesAssumption`);
  `None` is none of the values it is compared with (`NoneAssumption`).

The assumption `Tolerance < IndexSlack` is one the configuration does not enforce; see
Findings for what happens without it.

Only model-checked: liveness under fairness (`RevocationDrains`, `EveryCallReturns`, and
`EveryCommandSettles`) and anything about ENABLED, which the prover does not handle;
and decoding.  What the recursive decoders
compute for inputs of every length is out of the prover's reach: it needs induction over
data.

## Findings

A finding is a run that TLC violates and an entry of `PROJECT.json` with the lines.

1. A session whose revocation failed half-way is pruned by the next listing, so
   that neither a listing nor a retry of `revokeAllForUser` finds it
   (`session_failed_listing`).

Seen while modelling, on configurations of these modules that are not kept as
runs:

* A refresh begun while a sign-in is on the wire shares its generation
  (`client/client.ts:319`, `385`); its late 401 or its token replaces the token the
  sign-in installed, against the comment at 118.
* A page that finds a readable key of an earlier version in two tabs may end with
  two keys: `load()` clears in a transaction of its own (`client/storage.ts:134`), which
  may delete what the other tab just created.  That tab's refreshes are then
  refused.  `HonestIsServed` names this exception.
* A stored key on another curve makes `load()` reject until somebody calls `clear()`.
* Hono's view of a request has no protocol (`server/hono.ts:117`), so over TLS that
  the process itself ends, every DPoP proof is refused unless a proxy sets
  `X-Forwarded-Proto` or the application calls `setRequestUrlBuilder()`.  The other
  exception of `HonestIsServed`.
* A repeated Authorization header that nothing joined is served on Hono with its first
  credential: `toHttpRequest` has no `rawHeaders` to give (`server/hono.ts:117`), and Node
  has dropped the other lines.  `SECURITY.md:255` and `hono.ts:31` say so.  The first
  credential has to be good in itself; that there was a second is what stays unseen.
  `Unnoticed` names the case, the exception of `ServedMeansEntitled` and of
  `ServedIsEntitled`; without it the run is violated.  What `@hono/node-server` does is
  modelled from that comment.
* While a new signing key is rolled out, an instance of the older release refuses
  tokens of the newer (`server/keys/keyring.ts:247`): a refresh, and not a sign-out.
  `HonestIsServed` asks for a release that is not older than the token.
* Only the active pair is probed at start (`keyring.ts:198`): a previous public key
  pasted wrongly is noticed when its tokens are refused.
* Any path with `//` in it, also in a query, is taken for an absolute URL and
  refused (`client/client.ts:233`).
* WebAuthn: `credentialKeyMaterial` of TPM statements admits the statement's own
  algorithm only (`attestation.ts:521`); `toAttestationPolicy` lists `fido-u2f`
  (`mds.ts:414`) although the AAGUIDs it sets always refuse it; the walk from a
  certificate takes the first issuer that fits and may miss a chain; of two
  entries with one AAGUID a disqualified one can hide behind the other; a BLOB's
  number is never compared with the one before; a policy is not looked at again
  for staleness after it was loaded.
* Stores: adding to a set without a TTL clears its expiry in memory and keeps it in
  Redis; `exists()` does not see sets in memory; a TTL of zero deletes only values
  there; a fraction of a second is rounded up only for Redis.  Nothing in the
  server does any of it.  A first connection that timed out rejects every later
  command.  A command that ioredis sends twice can answer for its second serving:
  `setIfAbsent` may say that it did not store what it stored (`types.ts:45`), and
  `take` that there was nothing, though it took it.
* A rotation that passed its entry check before a revocation can write its
  tombstone (`server/session/manager.ts:574`) after the family was wiped; the check
  at 584 does not delete it, and a stale tab then raises the reuse alarm that the
  comment at 825 wants to avoid.
* Two rotations inside one grace window, then the first token again: the mapping
  adopted (`manager.ts:758`) names a token that is already consumed, where the
  comment at 753 speaks of one chain.
* With `invalidatePrevious: false` an issue reads the generation without renewing its
  TTL (`server/tokens/one-time.ts:229`), so that the counter can lapse under a live
  token, start again and come round to its number: a token revoked before is
  accepted.  `RevocationSticks` is therefore stated for the slots that replace,
  the default.
* `Retry-After` (`server/ratelimit/limiter.ts:94`) names the instant at which the
  window just refused in counts in full, so that an obedient client is refused
  again; under a limit of 1, for ever.
* With a tolerance over 60 seconds (`config.ts:413` allows up to the token's
  lifetime) a session's index (`server/engine/paseto.ts:128`) lapses before its signed
  tokens do, and revoking the session then reaches none of them.
* Two sign-ins with one credential that overlap compare with the same stored
  count (`webauthn/ceremony.ts:574`) and may write the lower one back last, after
  which a copy of the authenticator can repeat the higher one.  `CountersAdvance` is
  stated for sign-ins that do not overlap.
* A request that reads the clock in one window and increments in the next
  (`limiter.ts:60-75`) is missed by requests of the new window that read the old
  counter first.  `NoDoubling` is stated for behaviours where none does.

## Not modelled

* Demonstrations, examples, benchmarks, the site and the documents: they use the
  packages and promise nothing of their own.
* The pool of `mapConcurrent`: its callers catch inside their workers, which
  `SessionManager` lets run in every order, so that its rejection path
  (`concurrent.ts:65`) is not reached from the server.
* Audit events, error texts, logging and the parsing of bodies.
* The arithmetic of curves, RSA and hashes: a signature or hash tells apart what it
  should.
* The audit sink that throws (`audit.ts`), which `safeSink` swallows.
* The connections of other processes to Redis: `Stores` has one, and its commands
  stand for theirs.
* An application that stores no owner with a WebAuthn credential.

## Plan

1. (done) The state machines of the server, client and WebAuthn, and their proofs.
2. (done) Attestation and metadata, the decoders, the two stores, and the service end
   to end.
3. (done) The rotation of refresh tokens, the reuse alarm, the refinement `KeepsPromise`
   and the client's safety, proved; listings and sign-out everywhere, the limiter,
   the stores, the metadata and the service in both directions, proved.
4. Larger instances of `Service` with the claims of `ProtectedRequest` in it; `Stores` with a
   connection per process.
