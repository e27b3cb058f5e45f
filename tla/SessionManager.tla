--------------------------- MODULE SessionManager ---------------------------
(***************************************************************************)
(* The session layer of @ninshorg/server (session/manager.ts) together     *)
(* with the token engine it drives (engine/opaque.ts, engine/paseto.ts).   *)
(* Every action is one store command and the local code up to the next     *)
(* one: the store executes a command atomically, and between two commands  *)
(* of a caller any other caller, on any process, may run.                  *)
(*                                                                         *)
(* The store is modelled by the keys that exist in it.  A refresh token    *)
(* and its hash are one identifier; what a record holds never changes      *)
(* after it is minted, so token and access keep the contents and the key   *)
(* sets keep the presence.  Two lifetimes matter to the control: the grace *)
(* window, which closes at any time after it opens (GraceLapses), and the  *)
(* family ceiling familyExpiresAt, which passes in two stages, once for    *)
(* the store's TTLs and once for the clock tolerance (FamilyAges).         *)
(***************************************************************************)
EXTENDS Naturals, FiniteSets

CONSTANTS
    Callers,        \* concurrent calls on a SessionManager, on any process
    Sessions,       \* session ids generateId() may return
    Users,
    UserOf,         \* the principal that signs in to each session
    Bound,          \* the sessions whose family is bound to a DPoP key
    RefreshTokens,  \* refresh tokens generateToken() may return
    AccessTokens,   \* access tokens the engine may mint
    NoSession, NoToken, NoAccess, NoUser,
    Strategy,       \* "opaque" or "paseto"
    GraceOn,        \* refreshGraceSeconds > 0
    Backoffs,       \* length of TOMBSTONE_BACKOFF_MS
    Menu,           \* the operations callers invoke
    MaxOps,         \* bound on the calls of a behaviour
    MaxFails,       \* bound on the store commands that fail
    Ageing          \* whether the family ceiling may pass

ASSUME ConstantsAssumption ==
    /\ UserOf \in [Sessions -> Users]
    /\ Bound \subseteq Sessions
    /\ NoSession \notin Sessions
    /\ NoToken \notin RefreshTokens
    /\ NoAccess \notin AccessTokens
    /\ NoUser \notin Users
    /\ Strategy \in {"opaque", "paseto"}
    /\ GraceOn \in BOOLEAN /\ Ageing \in BOOLEAN
    /\ Backoffs \in Nat /\ MaxOps \in Nat /\ MaxFails \in Nat

VARIABLES
    token,      \* what each minted refresh token's record says
    access,     \* the session each minted access token belongs to
    rt,         \* KEYS.refreshToken: the live refresh records
    consumed,   \* KEYS.refreshConsumed: the tombstones
    grace,      \* KEYS.refreshGrace: rotated token -> its replacement
    rtx,        \* KEYS.refreshRevoked
    rtIndex,    \* KEYS.sessionRefresh: session -> its refresh hashes
    meta,       \* KEYS.sessionMeta
    marker,     \* KEYS.sessionRevoked
    userIndex,  \* KEYS.userSessions
    at,         \* access tokens verify() accepts: opaque, the record exists;
                \* paseto, signed and not denylisted
    atid,       \* KEYS.accessTokenId (opaque only)
    atIndex,    \* KEYS.sessionTokens: session -> its access tokens
    phase,      \* how much of its fixed lifetime each family has used up
    pc,         \* where each caller is
    loc,        \* the local variables of its call
    fr,         \* the revokeFamily frame of a caller for each session
    handedR, handedA,   \* history: the tokens returned to callers
    ended,      \* history: sessions a revocation completed for
    lapsed,     \* history: rotated tokens whose grace mapping lapsed
    alarms,     \* history: tokens that raised refresh.reuse_detected
    reported,   \* history: sessions a RevocationIncompleteError named
    ops, fails

refreshKeys == <<rt, consumed, grace, rtx, rtIndex>>
sessionKeys == <<meta, marker, userIndex>>
accessKeys  == <<at, atid, atIndex>>
minted      == <<token, access>>
history     == <<handedR, handedA, ended, lapsed, alarms, reported>>
bounds      == <<phase, ops, fails>>
vars == <<refreshKeys, sessionKeys, accessKeys, minted, pc, loc, fr,
          history, bounds>>

-----------------------------------------------------------------------------
(***************************************************************************)
(* Types.                                                                  *)
(***************************************************************************)
Records == [session : Sessions, generation : Nat]
NoRecord == [session |-> NoSession, generation |-> 0]

Ops == {"none", "create", "refresh", "rotate", "adopt", "expire", "reuse",
        "revoke", "revokeAll", "list"}

Labels == {"idle", "peek", "take", "entryCheck", "writeSet", "writeIndex",
           "createMeta", "createUser", "setGrace", "setTombstone",
           "midCheck", "touchGet", "touchSet", "issue", "issueId",
           "issueIndex", "postCheck", "undoLookup", "undoRead",
           "undoDelete", "undoUnindex", "discard", "awaitTombstone",
           "revokedCheck", "backoff", "graceGet", "adoptCheck",
           "awaitFamily", "allRead", "awaitAll", "listRead", "listMeta",
           "listPrune"}

Locals == [op : Ops, sess : Sessions \cup {NoSession},
           old : RefreshTokens \cup {NoToken},
           new : RefreshTokens \cup {NoToken},
           acc : AccessTokens \cup {NoAccess},
           proof : BOOLEAN, found : BOOLEAN, tries : Nat,
           user : Users \cup {NoUser}, snap : SUBSET Sessions, stale : SUBSET Sessions,
           known : SUBSET Sessions]

FrameLabels == {"none", "marker", "meta", "enumerate", "markEach", "wipe",
                "drop", "tokens", "kill", "dropTokens", "unlist", "done",
                "failed"}

Frames == [pc : FrameLabels, hashes : SUBSET RefreshTokens,
           todo : SUBSET RefreshTokens, tokens : SUBSET AccessTokens,
           known : BOOLEAN]

NoLocals ==
    [op |-> "none", sess |-> NoSession, old |-> NoToken, new |-> NoToken,
     acc |-> NoAccess, proof |-> FALSE, found |-> FALSE, tries |-> 0,
     user |-> NoUser, snap |-> {}, stale |-> {},
     known |-> {}]

NoFrame == [pc |-> "none", hashes |-> {}, todo |-> {}, tokens |-> {},
            known |-> FALSE]

NoFrames == [s \in Sessions |-> NoFrame]

StoreTypeOK ==
    /\ token \in [RefreshTokens -> Records \cup {NoRecord}]
    /\ access \in [AccessTokens -> Sessions \cup {NoSession}]
    /\ rt \subseteq RefreshTokens
    /\ consumed \subseteq RefreshTokens
    /\ grace \in [RefreshTokens -> RefreshTokens \cup {NoToken}]
    /\ rtx \subseteq RefreshTokens
    /\ rtIndex \in [Sessions -> SUBSET RefreshTokens]
    /\ meta \subseteq Sessions
    /\ marker \subseteq Sessions
    /\ userIndex \in [Users -> SUBSET Sessions]
    /\ at \subseteq AccessTokens
    /\ atid \subseteq AccessTokens
    /\ atIndex \in [Sessions -> SUBSET AccessTokens]

CallerTypeOK == pc \in [Callers -> Labels] /\ loc \in [Callers -> Locals]

FrameTypeOK == fr \in [Callers -> [Sessions -> Frames]]

HistoryTypeOK ==
    /\ handedR \subseteq RefreshTokens
    /\ handedA \subseteq AccessTokens
    /\ ended \subseteq Sessions
    /\ lapsed \subseteq RefreshTokens
    /\ alarms \subseteq RefreshTokens
    /\ reported \subseteq Sessions
    /\ phase \in [Sessions -> {"live", "ended", "past"}]
    /\ ops \in Nat
    /\ fails \in Nat

\* Every variable has its type.
TypeOK == StoreTypeOK /\ CallerTypeOK /\ FrameTypeOK /\ HistoryTypeOK

-----------------------------------------------------------------------------
(***************************************************************************)
(* Helpers.                                                                *)
(***************************************************************************)
SessionOf(t) == token[t].session

\* Mutant: the binding is not checked.
MatchesAnything(c, s) == TRUE

\* A proof by the family's own key, or a family with no binding.
Matches(c, s) == s \in Bound => loc[c].proof

Minted(t) == token[t] # NoRecord

\* Random tokens and ids are distinct and nothing else about them matters:
\* they are taken in a fixed order.
FreshToken == CHOOSE t \in RefreshTokens : ~Minted(t)
FreshAccess == CHOOSE a \in AccessTokens : access[a] = NoSession

\* generateId() never repeats an id.
FreshSession(s) ==
    /\ \A t \in RefreshTokens : SessionOf(t) # s
    /\ \A c \in Callers : loc[c].sess # s

\* The sessions an application can name: from a TokenPair or listSessions().
Nameable == {SessionOf(t) : t \in handedR}
            \cup UNION {userIndex[u] : u \in Users}

Goto(c, l) == pc' = [pc EXCEPT ![c] = l]

Return(c) ==
    /\ Goto(c, "idle")
    /\ loc' = [loc EXCEPT ![c] = NoLocals]
    /\ fr' = [fr EXCEPT ![c] = NoFrames]

SetFrame(c, s, f) == fr' = [fr EXCEPT ![c][s] = f]

\* Enter revokeFamily(s) and wait for it.
EnterFamily(c, s, op) ==
    /\ Goto(c, "awaitFamily")
    /\ loc' = [loc EXCEPT ![c].op = op, ![c].sess = s]
    /\ SetFrame(c, s, [NoFrame EXCEPT !.pc = "marker"])

Init ==
    /\ token = [t \in RefreshTokens |-> NoRecord]
    /\ access = [a \in AccessTokens |-> NoSession]
    /\ rt = {} /\ consumed = {} /\ rtx = {}
    /\ grace = [t \in RefreshTokens |-> NoToken]
    /\ rtIndex = [s \in Sessions |-> {}]
    /\ meta = {} /\ marker = {}
    /\ userIndex = [u \in Users |-> {}]
    /\ at = {} /\ atid = {}
    /\ atIndex = [s \in Sessions |-> {}]
    /\ phase = [s \in Sessions |-> "live"]
    /\ pc = [c \in Callers |-> "idle"]
    /\ loc = [c \in Callers |-> NoLocals]
    /\ fr = [c \in Callers |-> NoFrames]
    /\ handedR = {} /\ handedA = {}
    /\ ended = {} /\ lapsed = {} /\ alarms = {} /\ reported = {}
    /\ ops = 0 /\ fails = 0

-----------------------------------------------------------------------------
(***************************************************************************)
(* Calls.  A client presents a refresh token it was handed, with a proof   *)
(* by the family's key or without; applications name the sessions and      *)
(* users they know.                                                        *)
(***************************************************************************)
Call(c, l, args) ==
    /\ pc[c] = "idle"
    /\ ops < MaxOps
    /\ ops' = ops + 1
    /\ Goto(c, l)
    /\ loc' = [loc EXCEPT ![c] = args]
    /\ UNCHANGED <<refreshKeys, sessionKeys, accessKeys, minted, fr,
                   history, phase, fails>>

CallCreate(c) ==
    /\ "create" \in Menu
    /\ \E s \in Sessions :
        /\ FreshSession(s)
        /\ Call(c, "writeSet",
                [NoLocals EXCEPT !.op = "create", !.sess = s, !.proof = TRUE])

CallRefresh(c) ==
    /\ "refresh" \in Menu
    /\ \E t \in handedR, p \in BOOLEAN :
        /\ p \/ SessionOf(t) \in Bound
        /\ Call(c, "peek",
                [NoLocals EXCEPT !.op = "refresh", !.sess = SessionOf(t),
                                 !.old = t, !.proof = p])

CallRevokeAll(c) ==
    /\ "revokeAll" \in Menu
    /\ \E u \in Users :
        Call(c, "allRead",
             [NoLocals EXCEPT !.op = "revokeAll", !.user = u,
                 !.known = {s \in {SessionOf(t) : t \in handedR} :
                               UserOf[s] = u}])

CallList(c) ==
    /\ "list" \in Menu
    /\ \E u \in Users :
        Call(c, "listRead", [NoLocals EXCEPT !.op = "list", !.user = u])

\* revoke(sessionId) is one revokeFamily.
CallRevoke(c) ==
    /\ "revoke" \in Menu
    /\ pc[c] = "idle"
    /\ ops < MaxOps
    /\ ops' = ops + 1
    /\ \E s \in Nameable : EnterFamily(c, s, "revoke")
    /\ UNCHANGED <<refreshKeys, sessionKeys, accessKeys, minted, history,
                   phase, fails>>

-----------------------------------------------------------------------------
(***************************************************************************)
(* #writeRefreshToken, shared by create() and #rotate().  A record whose   *)
(* remaining lifetime is zero is not stored.                               *)
(***************************************************************************)
\* Mutant: a rotated token gets a full TTL, whatever is left of its family.
WriteSetFull(c) ==
    /\ pc[c] = "writeSet"
    /\ \E t \in RefreshTokens : ~Minted(t)
    /\ LET t == FreshToken
           s == loc[c].sess
           g == IF loc[c].op = "create" THEN 0
                ELSE token[loc[c].old].generation + 1
       IN  /\ token' = [token EXCEPT ![t] = [session |-> s, generation |-> g]]
           /\ rt' = rt \cup {t}
           /\ loc' = [loc EXCEPT ![c].new = t]
    /\ Goto(c, "writeIndex")
    /\ UNCHANGED <<consumed, grace, rtx, rtIndex, sessionKeys, accessKeys,
                   access, fr, history, bounds>>

WriteSet(c) ==
    /\ pc[c] = "writeSet"
    /\ \E t \in RefreshTokens : ~Minted(t)
    /\ LET t == FreshToken
           s == loc[c].sess
           g == IF loc[c].op = "create" THEN 0
                ELSE token[loc[c].old].generation + 1
       IN  /\ token' = [token EXCEPT ![t] = [session |-> s, generation |-> g]]
           /\ rt' = IF phase[s] = "live" THEN rt \cup {t} ELSE rt
           /\ loc' = [loc EXCEPT ![c].new = t]
    /\ Goto(c, "writeIndex")
    /\ UNCHANGED <<consumed, grace, rtx, rtIndex, sessionKeys, accessKeys,
                   access, fr, history, bounds>>

WriteIndex(c) ==
    /\ pc[c] = "writeIndex"
    /\ rtIndex' = [rtIndex EXCEPT ![loc[c].sess] = @ \cup {loc[c].new}]
    /\ Goto(c, IF loc[c].op = "create" THEN "createMeta"
               ELSE IF GraceOn THEN "setGrace" ELSE "setTombstone")
    /\ UNCHANGED <<rt, consumed, grace, rtx, sessionKeys, accessKeys,
                   minted, loc, fr, history, bounds>>

(***************************************************************************)
(* create(): metadata before the user's index, so a listing that sees the  *)
(* session in the index finds its metadata.                                *)
(***************************************************************************)
CreateMeta(c) ==
    /\ pc[c] = "createMeta"
    /\ meta' = IF phase[loc[c].sess] = "live" THEN meta \cup {loc[c].sess}
               ELSE meta
    /\ Goto(c, "createUser")
    /\ UNCHANGED <<refreshKeys, marker, userIndex, accessKeys, minted, loc,
                   fr, history, bounds>>

CreateUser(c) ==
    /\ pc[c] = "createUser"
    /\ LET s == loc[c].sess
       IN  userIndex' = IF phase[s] = "live"
                        THEN [userIndex EXCEPT ![UserOf[s]] = @ \cup {s}]
                        ELSE userIndex
    /\ Goto(c, "issue")
    /\ UNCHANGED <<refreshKeys, meta, marker, accessKeys, minted, loc, fr,
                   history, bounds>>

-----------------------------------------------------------------------------
(***************************************************************************)
(* refresh(): peek at the binding, then consume.                           *)
(***************************************************************************)
Peek(c) ==
    /\ pc[c] = "peek"
    /\ IF loc[c].old \in rt /\ ~Matches(c, loc[c].sess)
       THEN Return(c)
       ELSE Goto(c, "take") /\ UNCHANGED <<loc, fr>>
    /\ UNCHANGED <<refreshKeys, sessionKeys, accessKeys, minted, history,
                   bounds>>

\* Mutant: get() in place of take().
TakeKeeps(c) ==
    /\ pc[c] = "take"
    /\ IF loc[c].old \in rt
       THEN /\ IF Matches(c, loc[c].sess)
               THEN /\ Goto(c, "entryCheck")
                    /\ loc' = [loc EXCEPT ![c].op = "rotate"]
                    /\ UNCHANGED fr
               ELSE Return(c)
       ELSE Goto(c, "awaitTombstone") /\ UNCHANGED <<loc, fr>>
    /\ UNCHANGED <<refreshKeys, sessionKeys, accessKeys, minted, history,
                   bounds>>

\* Mutant: the tombstone is written first, before the grace mapping.
TakeEntombs(c) ==
    /\ pc[c] = "take"
    /\ IF loc[c].old \in rt
       THEN /\ rt' = rt \ {loc[c].old}
            /\ consumed' = consumed \cup {loc[c].old}
            /\ Goto(c, "entryCheck")
            /\ loc' = [loc EXCEPT ![c].op = "rotate"]
            /\ UNCHANGED fr
       ELSE Goto(c, "awaitTombstone") /\ UNCHANGED <<rt, consumed, loc, fr>>
    /\ UNCHANGED <<grace, rtx, rtIndex, sessionKeys, accessKeys, minted,
                   history, bounds>>

\* take() is an atomic read-and-delete; #rotate repeats the binding check.
Take(c) ==
    /\ pc[c] = "take"
    /\ IF loc[c].old \in rt
       THEN /\ rt' = rt \ {loc[c].old}
            /\ IF Matches(c, loc[c].sess)
               THEN /\ Goto(c, "entryCheck")
                    /\ loc' = [loc EXCEPT ![c].op = "rotate"]
                    /\ UNCHANGED fr
               ELSE Return(c)
       ELSE Goto(c, "awaitTombstone") /\ UNCHANGED <<rt, loc, fr>>
    /\ UNCHANGED <<consumed, grace, rtx, rtIndex, sessionKeys, accessKeys,
                   minted, history, bounds>>

\* The revocation marker, then the expiry with its tolerance.
EntryCheck(c) ==
    /\ pc[c] = "entryCheck"
    /\ LET s == loc[c].sess
       IN  IF s \in marker THEN Return(c)
           ELSE IF phase[s] = "past" THEN EnterFamily(c, s, "expire")
           ELSE Goto(c, "writeSet") /\ UNCHANGED <<loc, fr>>
    /\ UNCHANGED <<refreshKeys, sessionKeys, accessKeys, minted, history,
                   bounds>>

SetGrace(c) ==
    /\ pc[c] = "setGrace"
    /\ grace' = [grace EXCEPT ![loc[c].old] = loc[c].new]
    /\ Goto(c, "setTombstone")
    /\ UNCHANGED <<rt, consumed, rtx, rtIndex, sessionKeys, accessKeys,
                   minted, loc, fr, history, bounds>>

SetTombstone(c) ==
    /\ pc[c] = "setTombstone"
    /\ consumed' = IF phase[loc[c].sess] = "live"
                   THEN consumed \cup {loc[c].old} ELSE consumed
    /\ Goto(c, "midCheck")
    /\ UNCHANGED <<rt, grace, rtx, rtIndex, sessionKeys, accessKeys, minted,
                   loc, fr, history, bounds>>

\* The marker again, after publishing.
MidCheck(c) ==
    /\ pc[c] = "midCheck"
    /\ Goto(c, IF loc[c].sess \in marker THEN "discard" ELSE "touchGet")
    /\ UNCHANGED <<refreshKeys, sessionKeys, accessKeys, minted, loc, fr,
                   history, bounds>>

\* #touchMeta reads and writes the metadata in two commands.
TouchGet(c) ==
    /\ pc[c] = "touchGet"
    /\ Goto(c, IF loc[c].sess \in meta THEN "touchSet" ELSE "issue")
    /\ UNCHANGED <<refreshKeys, sessionKeys, accessKeys, minted, loc, fr,
                   history, bounds>>

TouchSet(c) ==
    /\ pc[c] = "touchSet"
    /\ meta' = IF phase[loc[c].sess] = "live" THEN meta \cup {loc[c].sess}
               ELSE meta \ {loc[c].sess}
    /\ Goto(c, "issue")
    /\ UNCHANGED <<refreshKeys, marker, userIndex, accessKeys, minted, loc,
                   fr, history, bounds>>

\* The cleanup of a revoked rotation (old and new) or adoption (old alone).
Discard(c) ==
    /\ pc[c] = "discard"
    /\ rt' = IF loc[c].op = "rotate" THEN rt \ {loc[c].new} ELSE rt
    /\ grace' = [grace EXCEPT ![loc[c].old] = NoToken]
    /\ Return(c)
    /\ UNCHANGED <<consumed, rtx, rtIndex, sessionKeys, accessKeys, minted,
                   history, bounds>>

-----------------------------------------------------------------------------
(***************************************************************************)
(* #resolveNonLive, #awaitTombstone and #adoptReplacement: the token was   *)
(* not live.                                                               *)
(***************************************************************************)
\* The tombstone was found: check the binding, then look for the grace
\* mapping.
FoundTombstone(c) ==
    IF Matches(c, loc[c].sess)
    THEN Goto(c, "graceGet") /\ UNCHANGED <<loc, fr>>
    ELSE Return(c)

AwaitTombstone(c) ==
    /\ pc[c] = "awaitTombstone"
    /\ IF loc[c].old \in consumed THEN FoundTombstone(c)
       ELSE IF GraceOn THEN Goto(c, "revokedCheck") /\ UNCHANGED <<loc, fr>>
       ELSE Return(c)
    /\ UNCHANGED <<refreshKeys, sessionKeys, accessKeys, minted, history,
                   bounds>>

RevokedCheck(c) ==
    /\ pc[c] = "revokedCheck"
    /\ IF loc[c].old \in rtx \/ Backoffs = 0
       THEN Return(c)
       ELSE Goto(c, "backoff") /\ UNCHANGED <<loc, fr>>
    /\ UNCHANGED <<refreshKeys, sessionKeys, accessKeys, minted, history,
                   bounds>>

\* One read per delay of TOMBSTONE_BACKOFF_MS.
Backoff(c) ==
    /\ pc[c] = "backoff"
    /\ IF loc[c].old \in consumed THEN FoundTombstone(c)
       ELSE IF loc[c].tries + 1 < Backoffs
       THEN loc' = [loc EXCEPT ![c].tries = @ + 1] /\ UNCHANGED <<pc, fr>>
       ELSE Return(c)
    /\ UNCHANGED <<refreshKeys, sessionKeys, accessKeys, minted, history,
                   bounds>>

\* A grace mapping is adopted; without one the presentation is a reuse.
GraceGet(c) ==
    /\ pc[c] = "graceGet"
    /\ IF grace[loc[c].old] # NoToken
       THEN /\ loc' = [loc EXCEPT ![c].op = "adopt",
                                  ![c].new = grace[loc[c].old]]
            /\ Goto(c, "adoptCheck")
            /\ UNCHANGED fr
       ELSE EnterFamily(c, loc[c].sess, "reuse")
    /\ UNCHANGED <<refreshKeys, sessionKeys, accessKeys, minted, history,
                   bounds>>

\* Mutant: an adopted pair is returned without an access token of its own.
AdoptUnissued(c) ==
    /\ pc[c] = "adoptCheck"
    /\ IF loc[c].sess \in marker THEN Return(c)
       ELSE Goto(c, "postCheck") /\ UNCHANGED <<loc, fr>>
    /\ UNCHANGED <<refreshKeys, sessionKeys, accessKeys, minted, history,
                   bounds>>

AdoptCheck(c) ==
    /\ pc[c] = "adoptCheck"
    /\ IF loc[c].sess \in marker THEN Return(c)
       ELSE Goto(c, "issue") /\ UNCHANGED <<loc, fr>>
    /\ UNCHANGED <<refreshKeys, sessionKeys, accessKeys, minted, history,
                   bounds>>

-----------------------------------------------------------------------------
(***************************************************************************)
(* engine.issue(): record, reverse index and session index for opaque      *)
(* tokens; a local signature and the session index for PASETO.             *)
(***************************************************************************)
MintAccess(c, a) ==
    /\ \E b \in AccessTokens : access[b] = NoSession
    /\ access' = [access EXCEPT ![a] = loc[c].sess]
    /\ at' = at \cup {a}
    /\ loc' = [loc EXCEPT ![c].acc = a]

IssueRecord(c) ==
    /\ pc[c] = "issue" /\ Strategy = "opaque"
    /\ MintAccess(c, FreshAccess)
    /\ Goto(c, "issueId")
    /\ UNCHANGED <<refreshKeys, sessionKeys, atid, atIndex, token, fr,
                   history, bounds>>

IssueId(c) ==
    /\ pc[c] = "issueId"
    /\ atid' = atid \cup {loc[c].acc}
    /\ Goto(c, "issueIndex")
    /\ UNCHANGED <<refreshKeys, sessionKeys, at, atIndex, minted, loc, fr,
                   history, bounds>>

IssueIndex(c) ==
    /\ pc[c] = "issueIndex"
    /\ atIndex' = [atIndex EXCEPT ![loc[c].sess] = @ \cup {loc[c].acc}]
    /\ Goto(c, "postCheck")
    /\ UNCHANGED <<refreshKeys, sessionKeys, at, atid, minted, loc, fr,
                   history, bounds>>

IssueSigned(c) ==
    /\ pc[c] = "issue" /\ Strategy = "paseto"
    /\ MintAccess(c, FreshAccess)
    /\ atIndex' = [atIndex EXCEPT ![loc[c].sess] = @ \cup {FreshAccess}]
    /\ Goto(c, "postCheck")
    /\ UNCHANGED <<refreshKeys, sessionKeys, atid, token, fr, history,
                   bounds>>

\* Mutant: the pair is returned without checking the marker again.
PostCheckBlind(c) ==
    /\ pc[c] = "postCheck"
    /\ handedR' = handedR \cup {loc[c].new}
    /\ handedA' = handedA \cup {loc[c].acc}
    /\ Return(c)
    /\ UNCHANGED <<refreshKeys, sessionKeys, accessKeys, minted, ended,
                   lapsed, alarms, reported, bounds>>

(***************************************************************************)
(* The post-issuance check of create(), #rotate() and #adoptReplacement(): *)
(* return the pair, or revoke the access token just issued.                *)
(***************************************************************************)
PostCheck(c) ==
    /\ pc[c] = "postCheck"
    /\ IF loc[c].sess \in marker
       THEN /\ Goto(c, "undoLookup")
            /\ UNCHANGED <<loc, fr, handedR, handedA>>
       ELSE /\ handedR' = handedR \cup {loc[c].new}
            /\ handedA' = handedA \cup {loc[c].acc}
            /\ Return(c)
    /\ UNCHANGED <<refreshKeys, sessionKeys, accessKeys, minted, ended,
                   lapsed, alarms, reported, bounds>>

\* After engine.revoke(): what each operation cleans up before it throws.
AfterUndo(c) ==
    IF loc[c].op = "create" THEN EnterFamily(c, loc[c].sess, "create")
    ELSE Goto(c, "discard") /\ UNCHANGED <<loc, fr>>

\* OpaqueEngine.revoke(): look the id up, read the record, delete both keys,
\* clean the session index if the record was there.
UndoLookup(c) ==
    /\ pc[c] = "undoLookup" /\ Strategy = "opaque"
    /\ IF loc[c].acc \in atid
       THEN Goto(c, "undoRead") /\ UNCHANGED <<loc, fr>>
       ELSE AfterUndo(c)
    /\ UNCHANGED <<refreshKeys, sessionKeys, accessKeys, minted, history,
                   bounds>>

UndoRead(c) ==
    /\ pc[c] = "undoRead"
    /\ loc' = [loc EXCEPT ![c].found = loc[c].acc \in at]
    /\ Goto(c, "undoDelete")
    /\ UNCHANGED <<refreshKeys, sessionKeys, accessKeys, minted, fr,
                   history, bounds>>

UndoDelete(c) ==
    /\ pc[c] = "undoDelete"
    /\ at' = at \ {loc[c].acc}
    /\ atid' = atid \ {loc[c].acc}
    /\ IF loc[c].found
       THEN Goto(c, "undoUnindex") /\ UNCHANGED <<loc, fr>>
       ELSE AfterUndo(c)
    /\ UNCHANGED <<refreshKeys, sessionKeys, atIndex, minted, history,
                   bounds>>

UndoUnindex(c) ==
    /\ pc[c] = "undoUnindex"
    /\ atIndex' = [atIndex EXCEPT ![loc[c].sess] = @ \ {loc[c].acc}]
    /\ AfterUndo(c)
    /\ UNCHANGED <<refreshKeys, sessionKeys, at, atid, minted, history,
                   bounds>>

\* PasetoEngine.revoke(): one denylist entry.
UndoDeny(c) ==
    /\ pc[c] = "undoLookup" /\ Strategy = "paseto"
    /\ at' = at \ {loc[c].acc}
    /\ AfterUndo(c)
    /\ UNCHANGED <<refreshKeys, sessionKeys, atid, atIndex, minted,
                   history, bounds>>

-----------------------------------------------------------------------------
(***************************************************************************)
(* #revokeFamily, run by caller c for session s.  revokeAllForUser runs    *)
(* one for each of its sessions, concurrently (mapConcurrent).             *)
(***************************************************************************)
FrameGoto(c, s, l) == SetFrame(c, s, [fr[c][s] EXCEPT !.pc = l])

\* Written before anything is read.
FamMarker(c, s) ==
    /\ fr[c][s].pc = "marker"
    /\ marker' = marker \cup {s}
    /\ FrameGoto(c, s, "meta")
    /\ UNCHANGED <<refreshKeys, meta, userIndex, accessKeys, minted, pc,
                   loc, history, bounds>>

FamMeta(c, s) ==
    /\ fr[c][s].pc = "meta"
    /\ SetFrame(c, s, [fr[c][s] EXCEPT !.pc = "enumerate",
                                       !.known = s \in meta])
    /\ UNCHANGED <<refreshKeys, sessionKeys, accessKeys, minted, pc, loc,
                   history, bounds>>

FamEnumerate(c, s) ==
    /\ fr[c][s].pc = "enumerate"
    /\ SetFrame(c, s,
         [fr[c][s] EXCEPT !.hashes = rtIndex[s], !.todo = rtIndex[s],
             !.pc = IF rtIndex[s] = {} THEN "drop" ELSE "markEach"])
    /\ UNCHANGED <<refreshKeys, sessionKeys, accessKeys, minted, pc, loc,
                   history, bounds>>

\* Promise.all over the hashes: one write each, in any order.
FamMarkEach(c, s) ==
    /\ fr[c][s].pc = "markEach"
    /\ \E t \in fr[c][s].todo :
        /\ rtx' = rtx \cup {t}
        /\ SetFrame(c, s,
             [fr[c][s] EXCEPT !.todo = @ \ {t},
                 !.pc = IF fr[c][s].todo = {t} THEN "wipe" ELSE "markEach"])
    /\ UNCHANGED <<rt, consumed, grace, rtIndex, sessionKeys, accessKeys,
                   minted, pc, loc, history, bounds>>

\* One delete of every record, tombstone and grace mapping enumerated.
FamWipe(c, s) ==
    /\ fr[c][s].pc = "wipe"
    /\ rt' = rt \ fr[c][s].hashes
    /\ consumed' = consumed \ fr[c][s].hashes
    /\ grace' = [t \in RefreshTokens |->
                    IF t \in fr[c][s].hashes THEN NoToken ELSE grace[t]]
    /\ FrameGoto(c, s, "drop")
    /\ UNCHANGED <<rtx, rtIndex, sessionKeys, accessKeys, minted, pc, loc,
                   history, bounds>>

FamDrop(c, s) ==
    /\ fr[c][s].pc = "drop"
    /\ rtIndex' = [rtIndex EXCEPT ![s] = {}]
    /\ meta' = meta \ {s}
    /\ FrameGoto(c, s, "tokens")
    /\ UNCHANGED <<rt, consumed, grace, rtx, marker, userIndex, accessKeys,
                   minted, pc, loc, history, bounds>>

\* engine.revokeSession(): enumerate.  The opaque engine skips the deletes
\* for an empty enumeration; its reads of the records only name the ids to
\* delete, and a record is never deleted without its id.
FamTokens(c, s) ==
    /\ fr[c][s].pc = "tokens"
    /\ SetFrame(c, s,
         [fr[c][s] EXCEPT !.tokens = atIndex[s],
             !.pc = IF atIndex[s] = {} THEN "dropTokens" ELSE "kill"])
    /\ UNCHANGED <<refreshKeys, sessionKeys, accessKeys, minted, pc, loc,
                   history, bounds>>

\* OpaqueEngine.revokeSession(): one delete of every record and id.
FamDelete(c, s) ==
    /\ fr[c][s].pc = "kill" /\ Strategy = "opaque"
    /\ at' = at \ fr[c][s].tokens
    /\ atid' = atid \ fr[c][s].tokens
    /\ SetFrame(c, s, [fr[c][s] EXCEPT !.tokens = {}, !.pc = "dropTokens"])
    /\ UNCHANGED <<refreshKeys, sessionKeys, atIndex, minted, pc, loc,
                   history, bounds>>

\* PasetoEngine.revokeSession(): Promise.all, one denylist entry each.
FamDeny(c, s) ==
    /\ fr[c][s].pc = "kill" /\ Strategy = "paseto"
    /\ \E a \in fr[c][s].tokens :
        /\ at' = at \ {a}
        /\ SetFrame(c, s,
             [fr[c][s] EXCEPT !.tokens = @ \ {a},
                 !.pc = IF fr[c][s].tokens = {a} THEN "dropTokens"
                        ELSE "kill"])
    /\ UNCHANGED <<refreshKeys, sessionKeys, atid, atIndex, minted, pc, loc,
                   history, bounds>>

\* What is left after engine.revokeSession(): the user's index, unless
\* revokeAllForUser cleans it for all its sessions or the session had no
\* metadata.
FamDropTokens(c, s) ==
    /\ fr[c][s].pc = "dropTokens"
    /\ atIndex' = [atIndex EXCEPT ![s] = {}]
    /\ IF fr[c][s].known /\ loc[c].op # "revokeAll"
       THEN FrameGoto(c, s, "unlist") /\ UNCHANGED ended
       ELSE FrameGoto(c, s, "done") /\ ended' = ended \cup {s}
    /\ UNCHANGED <<refreshKeys, sessionKeys, at, atid, minted, pc, loc,
                   handedR, handedA, lapsed, alarms, reported, bounds>>

FamUnlist(c, s) ==
    /\ fr[c][s].pc = "unlist"
    /\ userIndex' = [userIndex EXCEPT ![UserOf[s]] = @ \ {s}]
    /\ FrameGoto(c, s, "done")
    /\ ended' = ended \cup {s}
    /\ UNCHANGED <<refreshKeys, meta, marker, accessKeys, minted, pc, loc,
                   handedR, handedA, lapsed, alarms, reported, bounds>>

FamStep(c, s) ==
    \/ FamMarker(c, s) \/ FamMeta(c, s) \/ FamEnumerate(c, s)
    \/ FamMarkEach(c, s) \/ FamWipe(c, s) \/ FamDrop(c, s)
    \/ FamTokens(c, s) \/ FamDelete(c, s) \/ FamDeny(c, s)
    \/ FamDropTokens(c, s) \/ FamUnlist(c, s)

\* The caller of one revokeFamily resumes; a reuse is reported only after
\* the family is revoked.
FamilyEnded(c) ==
    /\ pc[c] = "awaitFamily"
    /\ fr[c][loc[c].sess].pc \in {"done", "failed"}
    /\ alarms' = IF loc[c].op = "reuse" /\ fr[c][loc[c].sess].pc = "done"
                 THEN alarms \cup {loc[c].old} ELSE alarms
    /\ Return(c)
    /\ UNCHANGED <<refreshKeys, sessionKeys, accessKeys, minted, handedR,
                   handedA, ended, lapsed, reported, bounds>>

-----------------------------------------------------------------------------
(***************************************************************************)
(* revokeAllForUser(): snapshot the index, revoke each session, remove the *)
(* ones that succeeded, report the ones that failed.                       *)
(***************************************************************************)
AllRead(c) ==
    /\ pc[c] = "allRead"
    /\ LET snapshot == userIndex[loc[c].user]
       IN  IF snapshot = {} THEN Return(c)
           ELSE /\ loc' = [loc EXCEPT ![c].snap = snapshot]
                /\ fr' = [fr EXCEPT ![c] =
                            [s \in Sessions |->
                                IF s \in snapshot
                                THEN [NoFrame EXCEPT !.pc = "marker"]
                                ELSE NoFrame]]
                /\ Goto(c, "awaitAll")
    /\ UNCHANGED <<refreshKeys, sessionKeys, accessKeys, minted, history,
                   bounds>>

\* Mutant: the first revocation to finish ends the wait.
SettledAny(c) == \E s \in loc[c].snap : fr[c][s].pc \in {"done", "failed"}

Settled(c) == \A s \in loc[c].snap : fr[c][s].pc \in {"done", "failed"}
Succeeded(c) == {s \in loc[c].snap : fr[c][s].pc = "done"}
Failed(c) == {s \in loc[c].snap : fr[c][s].pc = "failed"}

\* Mutant: the index is deleted, with the sessions added meanwhile.
AllRemoveWhole(c) ==
    /\ pc[c] = "awaitAll"
    /\ Settled(c)
    /\ userIndex' = [userIndex EXCEPT ![loc[c].user] = {}]
    /\ reported' = reported \cup Failed(c)
    /\ Return(c)
    /\ UNCHANGED <<refreshKeys, meta, marker, accessKeys, minted, handedR,
                   handedA, ended, lapsed, alarms, bounds>>

AllRemove(c) ==
    /\ pc[c] = "awaitAll"
    /\ Settled(c)
    /\ userIndex' = [userIndex EXCEPT ![loc[c].user] = @ \ Succeeded(c)]
    /\ reported' = reported \cup Failed(c)
    /\ Return(c)
    /\ UNCHANGED <<refreshKeys, meta, marker, accessKeys, minted, handedR,
                   handedA, ended, lapsed, alarms, bounds>>

(***************************************************************************)
(* listSessions(): read the index, read each session's metadata, prune the *)
(* index of the sessions that had none.                                    *)
(***************************************************************************)
ListRead(c) ==
    /\ pc[c] = "listRead"
    /\ IF userIndex[loc[c].user] = {} THEN Return(c)
       ELSE /\ loc' = [loc EXCEPT ![c].snap = userIndex[loc[c].user]]
            /\ Goto(c, "listMeta")
            /\ UNCHANGED fr
    /\ UNCHANGED <<refreshKeys, sessionKeys, accessKeys, minted, history,
                   bounds>>

ListMeta(c) ==
    /\ pc[c] = "listMeta"
    /\ \E s \in loc[c].snap :
        LET stale == loc[c].stale \cup ({s} \ meta)
        IN  IF loc[c].snap # {s}
            THEN /\ loc' = [loc EXCEPT ![c].snap = @ \ {s},
                                       ![c].stale = stale]
                 /\ UNCHANGED <<pc, fr>>
            ELSE IF stale = {} THEN Return(c)
            ELSE /\ loc' = [loc EXCEPT ![c].snap = {}, ![c].stale = stale]
                 /\ Goto(c, "listPrune")
                 /\ UNCHANGED fr
    /\ UNCHANGED <<refreshKeys, sessionKeys, accessKeys, minted, history,
                   bounds>>

ListPrune(c) ==
    /\ pc[c] = "listPrune"
    /\ userIndex' = [userIndex EXCEPT ![loc[c].user] = @ \ loc[c].stale]
    /\ Return(c)
    /\ UNCHANGED <<refreshKeys, meta, marker, accessKeys, minted, history,
                   bounds>>

-----------------------------------------------------------------------------
(***************************************************************************)
(* Store failures and the passage of time.  A command that fails throws    *)
(* out of its call; a command that was applied although its reply was lost *)
(* is the command followed by a failure of the next one.                   *)
(***************************************************************************)
Fail(c) ==
    /\ fails < MaxFails
    /\ pc[c] \notin {"idle", "awaitFamily"}
    /\ pc[c] = "awaitAll" => Settled(c)
    /\ fails' = fails + 1
    /\ Return(c)
    /\ UNCHANGED <<refreshKeys, sessionKeys, accessKeys, minted, history,
                   phase, ops>>

FamFail(c, s) ==
    /\ fails < MaxFails
    /\ fr[c][s].pc \notin {"none", "done", "failed"}
    /\ fails' = fails + 1
    /\ FrameGoto(c, s, "failed")
    /\ UNCHANGED <<refreshKeys, sessionKeys, accessKeys, minted, pc, loc,
                   history, phase, ops>>

\* Every mapping has the same TTL, so a family's lapse in the order written.
GraceLapses(t) ==
    /\ grace[t] # NoToken
    /\ \A u \in RefreshTokens :
           grace[u] # NoToken /\ SessionOf(u) = SessionOf(t)
              => token[t].generation <= token[u].generation
    /\ grace' = [grace EXCEPT ![t] = NoToken]
    /\ lapsed' = lapsed \cup {t}
    /\ UNCHANGED <<rt, consumed, rtx, rtIndex, sessionKeys, accessKeys,
                   minted, pc, loc, fr, handedR, handedA, ended, alarms,
                   reported, bounds>>

\* familyExpiresAt passes: the store drops the family's records; later the
\* clock tolerance has passed too.
FamilyAges(s) ==
    /\ Ageing
    /\ \E t \in RefreshTokens : SessionOf(t) = s
    /\ phase[s] # "past"
    /\ phase' = [phase EXCEPT ![s] = IF @ = "live" THEN "ended" ELSE "past"]
    /\ LET family == {t \in RefreshTokens : SessionOf(t) = s}
       IN  /\ rt' = rt \ family
           /\ consumed' = consumed \ family
           /\ meta' = meta \ {s}
    /\ UNCHANGED <<grace, rtx, rtIndex, marker, userIndex, accessKeys,
                   minted, pc, loc, fr, history, ops, fails>>

-----------------------------------------------------------------------------
CallStep(c) ==
    \/ CallCreate(c) \/ CallRefresh(c) \/ CallRevoke(c)
    \/ CallRevokeAll(c) \/ CallList(c)

CallerStep(c) ==
    \/ WriteSet(c) \/ WriteIndex(c) \/ CreateMeta(c) \/ CreateUser(c)
    \/ Peek(c) \/ Take(c) \/ EntryCheck(c) \/ SetGrace(c)
    \/ SetTombstone(c) \/ MidCheck(c) \/ TouchGet(c) \/ TouchSet(c)
    \/ Discard(c)
    \/ AwaitTombstone(c) \/ RevokedCheck(c) \/ Backoff(c) \/ GraceGet(c)
    \/ AdoptCheck(c)
    \/ IssueRecord(c) \/ IssueId(c) \/ IssueIndex(c) \/ IssueSigned(c)
    \/ PostCheck(c)
    \/ UndoLookup(c) \/ UndoRead(c) \/ UndoDelete(c) \/ UndoUnindex(c)
    \/ UndoDeny(c)
    \/ FamilyEnded(c)
    \/ AllRead(c) \/ AllRemove(c)
    \/ ListRead(c) \/ ListMeta(c) \/ ListPrune(c)

\* No call is under way, and none need be made.
Quiet ==
    /\ \A c \in Callers : pc[c] = "idle"
    /\ UNCHANGED vars

Next ==
    \/ \E c \in Callers : CallStep(c) \/ CallerStep(c) \/ Fail(c)
    \/ \E c \in Callers, s \in Sessions : FamStep(c, s) \/ FamFail(c, s)
    \/ \E t \in RefreshTokens : GraceLapses(t)
    \/ \E s \in Sessions : FamilyAges(s)
    \/ Quiet

Spec == Init /\ [][Next]_vars

\* A call that has begun runs on: the event loop resumes it after each
\* command.  Nothing obliges a client to call, a command to fail or time to
\* pass.
Fairness ==
    /\ \A c \in Callers : WF_vars(CallerStep(c))
    /\ \A c \in Callers, s \in Sessions : WF_vars(FamStep(c, s))

FairSpec == Spec /\ Fairness
-----------------------------------------------------------------------------
(***************************************************************************)
(* Properties.                                                             *)
(***************************************************************************)
LiveRefresh(s) == {t \in rt : SessionOf(t) = s}
LiveAccess(s) == {a \in at : access[a] = s}

\* Once a revocation of a session has completed, no refresh token and no
\* access token that any caller was ever handed for it works: every race
\* between revokeFamily and create(), #rotate() or #adoptReplacement() is
\* settled by the marker written first and the check after issuance.
EndedSessionsAreDead ==
    \A s \in ended : /\ LiveRefresh(s) \cap handedR = {}
                     /\ LiveAccess(s) \cap handedA = {}

\* A family never has two live refresh records: take() lets exactly one
\* concurrent caller rotate, and the record it writes replaces the one taken.
OneLiveRefreshToken ==
    \A t, u \in rt : SessionOf(t) = SessionOf(u) => t = u

\* Rotation is a chain: no generation of a family is minted twice, whatever
\* callers present the same token at once.
RotationIsLinear ==
    \A t, u \in RefreshTokens :
        Minted(t) /\ token[t] = token[u] => t = u

\* A family ends at its absolute lifetime, however often it was renewed: past
\* familyExpiresAt the store holds no refresh token of it to present, no
\* tombstone and no metadata, also of a rotation that was under way when it
\* passed and writes afterwards.
NothingOutlivesFamily ==
    {SessionOf(t) : t \in rt \cup consumed} \cup meta
        \subseteq {s \in Sessions : phase[s] = "live"}

\* The reuse response is never the outcome of a parallel tab losing a race:
\* #resolveNonLive enters it only when the grace mapping was published and
\* has lapsed, or there is no grace window, or the session was already being
\* revoked.  "Grace first, tombstone second."
ReuseOnlyPastGrace ==
    [][\A c \in Callers :
          loc[c].op # "reuse" /\ loc'[c].op = "reuse" =>
             \/ loc[c].old \in lapsed
             \/ ~GraceOn
             \/ loc[c].sess \in marker]_vars

\* A call that presents a bound token without the family's key reads and
\* nothing more: it consumes no record, ends no session and mints nothing,
\* whatever else is under way.
WrongKeyIsInert ==
    [][\A c \in Callers :
          /\ loc[c].sess \in Bound /\ ~loc[c].proof
          /\ loc[c].op \notin {"none", "revoke"}
          /\ <<pc[c], loc[c]>>' # <<pc[c], loc[c]>>
          => /\ UNCHANGED <<refreshKeys, sessionKeys, accessKeys, minted>>
             /\ \A s \in Sessions : fr'[c][s].pc = "none"]_vars

\* Every session a caller holds tokens of, that has not expired and that no
\* revocation has begun on, is in its user's index and has its metadata, so
\* listSessions() shows it and revokeAllForUser() reaches it: no listing ever
\* prunes a session that is still being created or refreshed.
LiveSessionsListed ==
    \A t \in handedR :
        LET s == SessionOf(t)
        IN  phase[s] = "live" /\ s \notin marker
               => s \in userIndex[UserOf[s]] /\ s \in meta

\* A call other than c's is revoking s.
RevokedByOther(c, s) ==
    \E d \in Callers \ {c} : fr[d][s].pc \notin {"none", "done", "failed"}

\* "Sign out everywhere": when revokeAllForUser() returns without an error,
\* every session of the user that anyone held a token of when it was called
\* has been revoked, or has expired, or is being revoked by another call.  The
\* one exception takes a store failure: a session on which a revocation had
\* begun, failed, and which was no longer in the index when the call read it
\* (FailedStaysListed below).
SignOutEverywhere ==
    [][\A c \in Callers :
          /\ loc[c].op = "revokeAll"
          /\ pc[c] \in {"allRead", "awaitAll"} /\ pc'[c] = "idle"
          /\ fails' = fails /\ Failed(c) = {}
          => \A s \in loc[c].known :
                \/ s \in ended \/ phase[s] # "live" \/ RevokedByOther(c, s)
                \/ s \in marker \ loc[c].snap /\ fails > 0]_vars

\* A revocation that has begun drains: every credential of the session, the
\* ones still inside a call that raced it included, is eventually dead and
\* stays dead.
RevocationDrains ==
    \A s \in Sessions :
        [](s \in marker => <>[](LiveRefresh(s) = {} /\ LiveAccess(s) = {}))

(***************************************************************************)
(* A claim of a comment that the code does not keep.                       *)
(***************************************************************************)
\* The comment in revokeAllForUser() (session/manager.ts:353): a session
\* whose revocation failed stays in the user's index, so listSessions() shows
\* it and a retry reaches it.
FailedStaysListed ==
    \A s \in reported :
        s \in ended \/ phase[s] # "live" \/ s \in userIndex[UserOf[s]]
=============================================================================
