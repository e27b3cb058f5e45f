------------------------ MODULE SessionManagerProofs ------------------------
(***************************************************************************)
(* TLAPS proofs about SessionManager, for every set of callers, users,     *)
(* sessions and tokens, any number of calls and store failures, and both   *)
(* engines.  The first half is the invariant: types, the indexes, and that *)
(* a revocation is final.  The second is what the races between calls on a *)
(* session cannot do: fork a rotation chain, raise the reuse alarm for a   *)
(* token that lost a race, let a token without its key have an effect,     *)
(* hide a live session from its user, or leave one behind when the user    *)
(* signs out everywhere.                                                   *)
(***************************************************************************)
EXTENDS SessionInvariant, TLAPS

\* The part of the invariant that is about types and contents.
Typed == TypeOK /\ CallsOK /\ MintedOK

\* Minted tokens keep their contents.
Stable ==
    /\ \A t \in RefreshTokens :
          SessionOf(t) \in Sessions => token'[t] = token[t]
    /\ \A a \in AccessTokens :
          access[a] \in Sessions => access'[a] = access[a]

-----------------------------------------------------------------------------
(***************************************************************************)
(* The local variables and frames a call starts from.                      *)
(***************************************************************************)
LEMMA NoLocalsType == NoLocals \in Locals
  BY DEF NoLocals, Locals, Ops

LEMMA NoFramesType == NoFrame \in Frames /\ NoFrames \in [Sessions -> Frames]
  BY DEF NoFrame, NoFrames, Frames, FrameLabels

\* What a caller's move to label l with locals r has to establish.
LEMMA MoveOK ==
  ASSUME CallerTypeOK, CallsOK, Stable,
         NEW c \in Callers, NEW l \in Labels, NEW r \in Locals,
         pc' = [pc EXCEPT ![c] = l], loc' = [loc EXCEPT ![c] = r],
         l \notin Unfamiliar => r.sess \in Sessions,
         \/ l \in HasOld
         \/ l \in {"writeSet", "writeIndex"} /\ r.op # "create"
         \/ l = "awaitFamily" /\ r.op = "reuse"
         => r.old \in RefreshTokens /\ token'[r.old].session = r.sess,
         l \in HasNew \cup {"writeIndex"}
         => r.new \in RefreshTokens /\ token'[r.new].session = r.sess,
         l \in Unfamiliar \ {"idle"} => r.user \in Users,
         l \in HasAccess
         => r.acc \in AccessTokens /\ access'[r.acc] = r.sess
  PROVE  CallerTypeOK' /\ CallsOK'
<1>1. CallerTypeOK'
  BY DEF CallerTypeOK
<1>2. ASSUME NEW d \in Callers
      PROVE  CallOK(pc[d], loc[d])'
  <2>1. CASE d = c
    <3>1. pc'[d] = l /\ loc'[d] = r
      BY <2>1 DEF CallerTypeOK
    <3> QED BY <3>1 DEF CallOK, SessionOf
  <2>2. CASE d # c
    <3>1. pc'[d] = pc[d] /\ loc'[d] = loc[d]
      BY <2>2 DEF CallerTypeOK
    <3>2. CallOK(pc[d], loc[d])
      BY DEF CallsOK
    <3>3. pc[d] \in HasNew \cup {"writeIndex"} \cup HasOld \cup HasAccess
             \cup {"writeSet", "awaitFamily"} => pc[d] \notin Unfamiliar
      BY DEF HasNew, HasOld, HasAccess, Undoing, Unfamiliar
    <3> QED BY <3>1, <3>2, <3>3 DEF CallOK, SessionOf, Stable
  <2> QED BY <2>1, <2>2
<1> QED BY <1>1, <1>2 DEF CallsOK
\* Returning and entering revokeFamily, as moves.
LEMMA ReturnOK ==
  ASSUME CallerTypeOK, CallsOK, FrameTypeOK, Stable,
         NEW c \in Callers, Return(c)
  PROVE  CallerTypeOK' /\ CallsOK' /\ FrameTypeOK'
<1>1. "idle" \in Labels /\ "idle" \in Unfamiliar
  BY DEF Labels, Unfamiliar
<1>2. "idle" \notin HasOld \cup HasNew \cup HasAccess \cup
        {"writeSet", "writeIndex", "awaitFamily"}
  BY DEF HasOld, HasNew, HasAccess, Undoing
<1>3. CallerTypeOK' /\ CallsOK'
  BY <1>1, <1>2, MoveOK, NoLocalsType DEF Return, Goto
<1>4. FrameTypeOK'
  BY NoFramesType DEF Return, FrameTypeOK
<1> QED BY <1>3, <1>4

LEMMA FrameSet ==
  ASSUME FrameTypeOK, NEW c \in Callers, NEW s \in Sessions,
         NEW f \in Frames, SetFrame(c, s, f)
  PROVE  /\ FrameTypeOK'
         /\ fr'[c][s] = f
         /\ \A d \in Callers, x \in Sessions :
               <<d, x>> # <<c, s>> => fr'[d][x] = fr[d][x]
  BY DEF FrameTypeOK, SetFrame

LEMMA EnterOK ==
  ASSUME CallerTypeOK, CallsOK, FrameTypeOK, Stable,
         NEW c \in Callers, NEW s \in Sessions, NEW o \in Ops,
         EnterFamily(c, s, o),
         o = "reuse" => loc[c].old \in RefreshTokens
                        /\ token'[loc[c].old].session = s
  PROVE  CallerTypeOK' /\ CallsOK' /\ FrameTypeOK'
<1> DEFINE r == [loc[c] EXCEPT !.op = o, !.sess = s]
           f == [NoFrame EXCEPT !.pc = "marker"]
<1>1. loc[c] \in Locals
  BY DEF CallerTypeOK
<1>2. /\ r \in Locals /\ r.op = o /\ r.sess = s /\ r.old = loc[c].old
  BY <1>1 DEF Locals
<1>3. "awaitFamily" \in Labels
  BY DEF Labels
<1>4. "awaitFamily" \notin HasOld \cup HasNew \cup HasAccess \cup
        Unfamiliar \cup {"writeSet", "writeIndex"}
  BY DEF HasOld, HasNew, HasAccess, Undoing, Unfamiliar
<1>5. loc' = [loc EXCEPT ![c] = r]
  BY <1>1 DEF EnterFamily
<1> HIDE DEF r
<1>6. CallerTypeOK' /\ CallsOK'
  BY <1>2, <1>3, <1>4, <1>5, MoveOK DEF EnterFamily, Goto
<1>7. f \in Frames
  BY NoFramesType DEF Frames, FrameLabels
<1>8. FrameTypeOK'
  BY <1>7, FrameSet DEF EnterFamily
<1> QED BY <1>6, <1>8
-----------------------------------------------------------------------------
(***************************************************************************)
(* Revocations in progress: no step brings a handed-out credential of a    *)
(* revoked session back to life.                                           *)
(***************************************************************************)
HandedRefresh(s) == LiveRefresh(s) \cap handedR
HandedAccess(s) == LiveAccess(s) \cap handedA

Shrinks ==
    /\ marker \subseteq marker'
    /\ \A s \in marker : /\ HandedRefresh(s)' \subseteq HandedRefresh(s)
                         /\ HandedAccess(s)' \subseteq HandedAccess(s)

\* The invariant of one frame.
FrameOK(s, f) ==
    /\ f.pc \notin {"none", "marker", "failed"} => s \in marker
    /\ f.pc \in Enumerated => HandedRefresh(s) \subseteq f.hashes
    /\ f.pc \in AfterWipe => HandedRefresh(s) = {}
    /\ f.pc = "kill" => HandedAccess(s) \subseteq f.tokens
    /\ f.pc \in AfterKill => HandedAccess(s) = {}

LEMMA FramesAreOK ==
  FramesOK <=> \A c \in Callers, s \in Sessions : FrameOK(s, fr[c][s])
  BY DEF FramesOK, FrameOK, HandedRefresh, HandedAccess

LEMMA FrameIdle ==
  ASSUME NEW s \in Sessions, NEW f, f.pc \in {"none", "marker", "failed"}
  PROVE  FrameOK(s, f)'
  BY DEF FrameOK, Enumerated, AfterWipe, AfterKill

\* A step that moves no frame into a revocation.
LEMMA SafeStill ==
  ASSUME FramesOK, Shrinks, ended \subseteq marker, ended' = ended,
         EndedSessionsAreDead,
         \A d \in Callers, x \in Sessions :
            \/ fr'[d][x] = fr[d][x]
            \/ fr'[d][x].pc \in {"none", "marker", "failed"}
  PROVE  FramesOK' /\ (ended \subseteq marker)' /\ EndedSessionsAreDead'
<1>1. (ended \subseteq marker)'
  BY DEF Shrinks
<1>2. EndedSessionsAreDead'
  BY DEF EndedSessionsAreDead, Shrinks, HandedRefresh, HandedAccess
<1>3. ASSUME NEW d \in Callers, NEW x \in Sessions
      PROVE  FrameOK(x, fr[d][x])'
  <2>1. CASE fr'[d][x] = fr[d][x]
    <3>1. FrameOK(x, fr[d][x])
      BY FramesAreOK
    <3> QED BY <2>1, <3>1 DEF FrameOK, Shrinks, Enumerated, AfterWipe, AfterKill
  <2>2. CASE fr'[d][x].pc \in {"none", "marker", "failed"}
    BY <2>2 DEF FrameOK, Enumerated, AfterWipe, AfterKill
  <2> QED BY <2>1, <2>2
<1>4. FramesOK'
  BY <1>3 DEF FramesOK, FrameOK, HandedRefresh, HandedAccess
<1> QED BY <1>1, <1>2, <1>4

-----------------------------------------------------------------------------
(***************************************************************************)
(* Steps of a caller that leave alone what the invariant says of the store *)
(***************************************************************************)
core == <<rt, grace, rtIndex, marker, at, atIndex, token, access, handedR,
          handedA, ended>>

LEMMA CoreStill ==
  ASSUME IInv, UNCHANGED core
  PROVE  /\ Stable /\ MintedOK' /\ RefreshIndexed' /\ AccessIndexed'
         /\ Shrinks
  BY DEF IInv, core, Stable, MintedOK, RefreshIndexed, AccessIndexed, Shrinks,
         SessionOf, HandedRefresh, HandedAccess, LiveRefresh, LiveAccess

LEMMA CallerStart ==
  ASSUME IInv, UNCHANGED core, StoreTypeOK', HistoryTypeOK',
         NEW c \in Callers, NEW l \in Labels, NEW r \in Locals,
         pc' = [pc EXCEPT ![c] = l], loc' = [loc EXCEPT ![c] = r],
         CallOK(l, r), Ready(l, r), FrameTypeOK',
         \A d \in Callers, x \in Sessions :
            \/ fr'[d][x] = fr[d][x]
            \/ fr'[d][x].pc \in {"none", "marker", "failed"}
  PROVE  IInv'
<1>1. Stable /\ MintedOK' /\ RefreshIndexed' /\ AccessIndexed' /\ Shrinks
  BY CoreStill
<1>2. CallerTypeOK' /\ CallsOK'
  BY <1>1, MoveOK DEF IInv, TypeOK, CallOK, core, SessionOf
<1>3. CallsReady'
  <2>1. \A d \in Callers : \/ pc'[d] = l /\ loc'[d] = r
                           \/ pc'[d] = pc[d] /\ loc'[d] = loc[d]
    BY DEF IInv, TypeOK, CallerTypeOK
  <2> QED BY <2>1 DEF IInv, CallsReady, Ready, core
<1>4. FramesOK' /\ (ended \subseteq marker)' /\ EndedSessionsAreDead'
  BY <1>1, SafeStill DEF IInv, core
<1> QED BY <1>1, <1>2, <1>3, <1>4 DEF IInv, TypeOK

LEMMA CallerMove ==
  ASSUME IInv, UNCHANGED core, UNCHANGED fr, StoreTypeOK', HistoryTypeOK',
         NEW c \in Callers, NEW l \in Labels, NEW r \in Locals,
         pc' = [pc EXCEPT ![c] = l], loc' = [loc EXCEPT ![c] = r],
         CallOK(l, r), Ready(l, r)
  PROVE  IInv'
<1>1. FrameTypeOK'
  BY DEF IInv, TypeOK, FrameTypeOK
<1> QED BY <1>1, CallerStart

LEMMA CallerReturn ==
  ASSUME IInv, UNCHANGED core, StoreTypeOK', HistoryTypeOK',
         NEW c \in Callers, Return(c)
  PROVE  IInv'
<1>1. Stable /\ MintedOK' /\ RefreshIndexed' /\ AccessIndexed' /\ Shrinks
  BY CoreStill
<1>2. CallerTypeOK' /\ CallsOK' /\ FrameTypeOK'
  BY <1>1, ReturnOK DEF IInv, TypeOK
<1>3. CallsReady'
  <2>1. \A d \in Callers : \/ pc'[d] = "idle"
                           \/ pc'[d] = pc[d] /\ loc'[d] = loc[d]
    BY DEF IInv, TypeOK, CallerTypeOK, Return, Goto
  <2> QED BY <2>1 DEF IInv, CallsReady, Ready, core, HasNew, Undoing
<1>4. \A d \in Callers, x \in Sessions :
         fr'[d][x] = fr[d][x] \/ fr'[d][x].pc \in {"none", "marker", "failed"}
  BY DEF Return, NoFrames, NoFrame, IInv, TypeOK, FrameTypeOK
<1>5. FramesOK' /\ (ended \subseteq marker)' /\ EndedSessionsAreDead'
  BY <1>1, <1>4, SafeStill DEF IInv, core
<1> QED BY <1>1, <1>2, <1>3, <1>5 DEF IInv, TypeOK

LEMMA CallerEnter ==
  ASSUME IInv, UNCHANGED core, StoreTypeOK', HistoryTypeOK',
         NEW c \in Callers, NEW s \in Sessions, NEW o \in Ops,
         EnterFamily(c, s, o),
         o = "reuse" => loc[c].old \in RefreshTokens
                        /\ SessionOf(loc[c].old) = s
  PROVE  IInv'
<1>1. Stable /\ MintedOK' /\ RefreshIndexed' /\ AccessIndexed' /\ Shrinks
  BY CoreStill
<1>2. CallerTypeOK' /\ CallsOK' /\ FrameTypeOK'
  BY <1>1, EnterOK DEF IInv, TypeOK, SessionOf, core
<1>3. CallsReady'
  <2>1. \A d \in Callers : \/ pc'[d] = "awaitFamily"
                           \/ pc'[d] = pc[d] /\ loc'[d] = loc[d]
    BY DEF IInv, TypeOK, CallerTypeOK, EnterFamily, Goto
  <2> QED BY <2>1 DEF IInv, CallsReady, Ready, core, HasNew, Undoing
<1>4. \A d \in Callers, x \in Sessions :
         fr'[d][x] = fr[d][x] \/ fr'[d][x].pc \in {"none", "marker", "failed"}
  BY DEF EnterFamily, SetFrame, NoFrame, IInv, TypeOK, FrameTypeOK
<1>5. FramesOK' /\ (ended \subseteq marker)' /\ EndedSessionsAreDead'
  BY <1>1, <1>4, SafeStill DEF IInv, core
<1> QED BY <1>1, <1>2, <1>3, <1>5 DEF IInv, TypeOK
LEMMA Here ==
  ASSUME IInv, NEW c \in Callers
  PROVE  loc[c] \in Locals /\ CallOK(pc[c], loc[c]) /\ Ready(pc[c], loc[c])
  BY DEF IInv, TypeOK, CallerTypeOK, CallsOK, CallsReady

LEMMA GotoMove ==
  ASSUME IInv, UNCHANGED core, UNCHANGED <<loc, fr>>,
         StoreTypeOK', HistoryTypeOK',
         NEW c \in Callers, NEW l \in Labels, Goto(c, l),
         CallOK(l, loc[c]), Ready(l, loc[c])
  PROVE  IInv'
<1>1. loc[c] \in Locals /\ loc' = [loc EXCEPT ![c] = loc[c]]
  BY DEF IInv, TypeOK, CallerTypeOK
<1> QED BY <1>1, CallerMove DEF Goto

\* A step that writes nothing in the store.
LEMMA Control ==
  ASSUME IInv,
         UNCHANGED <<refreshKeys, sessionKeys, accessKeys, minted, history,
                     bounds>>
  PROVE  UNCHANGED core /\ StoreTypeOK' /\ HistoryTypeOK'
  BY DEF IInv, TypeOK, StoreTypeOK, HistoryTypeOK, core, refreshKeys,
         sessionKeys, accessKeys, minted, history, bounds

-----------------------------------------------------------------------------
(***************************************************************************)
(* The steps that only read.                                               *)
(***************************************************************************)
USE DEF Labels, HasOld, HasNew, HasAccess, Undoing, Unfamiliar, CallOK, Ready

LEMMA PeekOK == ASSUME IInv, NEW c \in Callers, Peek(c) PROVE IInv'
<1>1. UNCHANGED core /\ StoreTypeOK' /\ HistoryTypeOK'
  BY Control DEF Peek
<1>2. CASE Return(c)
  BY <1>1, <1>2, CallerReturn
<1>3. CASE Goto(c, "take") /\ UNCHANGED <<loc, fr>>
  BY <1>1, <1>3, Here, GotoMove DEF Peek
<1> QED BY <1>2, <1>3 DEF Peek

LEMMA EntryCheckOK == ASSUME IInv, NEW c \in Callers, EntryCheck(c) PROVE IInv'
<1>1. UNCHANGED core /\ StoreTypeOK' /\ HistoryTypeOK'
  BY Control DEF EntryCheck
<1>2. CASE Return(c)
  BY <1>1, <1>2, CallerReturn
<1>3. CASE EnterFamily(c, loc[c].sess, "expire")
  BY <1>1, <1>3, Here, CallerEnter DEF EntryCheck, Ops
<1>4. CASE Goto(c, "writeSet") /\ UNCHANGED <<loc, fr>>
  BY <1>1, <1>4, Here, GotoMove DEF EntryCheck
<1> QED BY <1>2, <1>3, <1>4 DEF EntryCheck

LEMMA MidCheckOK == ASSUME IInv, NEW c \in Callers, MidCheck(c) PROVE IInv'
<1>1. UNCHANGED core /\ StoreTypeOK' /\ HistoryTypeOK'
  BY Control DEF MidCheck
<1>2. Goto(c, "discard") \/ Goto(c, "touchGet")
  BY DEF MidCheck
<1> QED BY <1>1, <1>2, Here, GotoMove DEF MidCheck

LEMMA TouchGetOK == ASSUME IInv, NEW c \in Callers, TouchGet(c) PROVE IInv'
<1>1. UNCHANGED core /\ StoreTypeOK' /\ HistoryTypeOK'
  BY Control DEF TouchGet
<1>2. Goto(c, "touchSet") \/ Goto(c, "issue")
  BY DEF TouchGet
<1> QED BY <1>1, <1>2, Here, GotoMove DEF TouchGet

LEMMA AwaitTombstoneOK ==
  ASSUME IInv, NEW c \in Callers, AwaitTombstone(c) PROVE IInv'
<1>1. UNCHANGED core /\ StoreTypeOK' /\ HistoryTypeOK'
  BY Control DEF AwaitTombstone
<1>2. CASE Return(c)
  BY <1>1, <1>2, CallerReturn
<1>3. CASE Goto(c, "graceGet") /\ UNCHANGED <<loc, fr>>
  BY <1>1, <1>3, Here, GotoMove DEF AwaitTombstone
<1>4. CASE Goto(c, "revokedCheck") /\ UNCHANGED <<loc, fr>>
  BY <1>1, <1>4, Here, GotoMove DEF AwaitTombstone
<1> QED BY <1>2, <1>3, <1>4 DEF AwaitTombstone, FoundTombstone

LEMMA RevokedCheckOK ==
  ASSUME IInv, NEW c \in Callers, RevokedCheck(c) PROVE IInv'
<1>1. UNCHANGED core /\ StoreTypeOK' /\ HistoryTypeOK'
  BY Control DEF RevokedCheck
<1>2. CASE Return(c)
  BY <1>1, <1>2, CallerReturn
<1>3. CASE Goto(c, "backoff") /\ UNCHANGED <<loc, fr>>
  BY <1>1, <1>3, Here, GotoMove DEF RevokedCheck
<1> QED BY <1>2, <1>3 DEF RevokedCheck

LEMMA BackoffOK == ASSUME IInv, NEW c \in Callers, Backoff(c) PROVE IInv'
<1>1. UNCHANGED core /\ StoreTypeOK' /\ HistoryTypeOK'
  BY Control DEF Backoff
<1>2. CASE Return(c)
  BY <1>1, <1>2, CallerReturn
<1>3. CASE Goto(c, "graceGet") /\ UNCHANGED <<loc, fr>>
  BY SMTT(40), <1>1, <1>3, Here, GotoMove DEF Backoff
<1>4. CASE /\ loc' = [loc EXCEPT ![c].tries = @ + 1]
           /\ UNCHANGED <<pc, fr>>
  <2> DEFINE r == [loc[c] EXCEPT !.tries = @ + 1]
  <2>1. loc[c] \in Locals /\ pc' = [pc EXCEPT ![c] = "backoff"]
    BY <1>4 DEF IInv, TypeOK, CallerTypeOK, Backoff
  <2>2. /\ r \in Locals
        /\ r.sess = loc[c].sess /\ r.old = loc[c].old /\ r.new = loc[c].new
        /\ r.acc = loc[c].acc /\ r.op = loc[c].op
    BY <2>1 DEF Locals
  <2>3. loc' = [loc EXCEPT ![c] = r]
    BY <1>4
  <2> HIDE DEF r
  <2>4. CallOK("backoff", r) /\ Ready("backoff", r)
    BY <2>2, Here DEF Backoff
  <2> QED BY <1>1, <1>4, <2>1, <2>2, <2>3, <2>4, CallerMove
<1> QED BY <1>2, <1>3, <1>4 DEF Backoff, FoundTombstone

LEMMA GraceGetOK == ASSUME IInv, NEW c \in Callers, GraceGet(c) PROVE IInv'
<1>1. UNCHANGED core /\ StoreTypeOK' /\ HistoryTypeOK'
  BY Control DEF GraceGet
<1>2. CASE EnterFamily(c, loc[c].sess, "reuse")
  BY <1>1, <1>2, Here, CallerEnter DEF GraceGet, Ops
<1>3. CASE grace[loc[c].old] # NoToken
  <2> DEFINE u == grace[loc[c].old]
             r == [loc[c] EXCEPT !.op = "adopt", !.new = u]
  <2>1. loc[c] \in Locals /\ loc[c].old \in RefreshTokens
        /\ SessionOf(loc[c].old) = loc[c].sess /\ loc[c].sess \in Sessions
    BY Here DEF GraceGet
  <2>2. u \in RefreshTokens /\ SessionOf(u) = loc[c].sess
    BY <1>3, <2>1 DEF IInv, TypeOK, StoreTypeOK, MintedOK
  <2>3. loc[c].sess \notin marker => u \in rtIndex[loc[c].sess]
    BY <1>3, <2>1 DEF IInv, RefreshIndexed
  <2>4. r \in Locals /\ r.sess = loc[c].sess /\ r.new = u
    BY <2>1, <2>2 DEF Locals, Ops
  <2>5. loc' = [loc EXCEPT ![c] = r] /\ pc' = [pc EXCEPT ![c] = "adoptCheck"]
        /\ UNCHANGED fr
    BY <1>3 DEF GraceGet, Goto
  <2> HIDE DEF r, u
  <2> QED BY <1>1, <2>1, <2>2, <2>3, <2>4, <2>5, CallerMove
<1> QED BY <1>2, <1>3 DEF GraceGet

LEMMA AdoptCheckOK == ASSUME IInv, NEW c \in Callers, AdoptCheck(c) PROVE IInv'
<1>1. UNCHANGED core /\ StoreTypeOK' /\ HistoryTypeOK'
  BY Control DEF AdoptCheck
<1>2. CASE Return(c)
  BY <1>1, <1>2, CallerReturn
<1>3. CASE Goto(c, "issue") /\ UNCHANGED <<loc, fr>>
  BY <1>1, <1>3, Here, GotoMove DEF AdoptCheck
<1> QED BY <1>2, <1>3 DEF AdoptCheck

LEMMA AfterUndoOK ==
  ASSUME IInv, NEW c \in Callers, UNCHANGED core, StoreTypeOK',
         HistoryTypeOK', pc[c] \in Undoing, AfterUndo(c)
  PROVE  IInv'
<1>1. CASE EnterFamily(c, loc[c].sess, "create")
  BY <1>1, Here, CallerEnter DEF Ops
<1>2. CASE Goto(c, "discard") /\ UNCHANGED <<loc, fr>>
  BY <1>2, Here, GotoMove
<1> QED BY <1>1, <1>2 DEF AfterUndo

LEMMA UndoLookupOK == ASSUME IInv, NEW c \in Callers, UndoLookup(c) PROVE IInv'
<1>1. UNCHANGED core /\ StoreTypeOK' /\ HistoryTypeOK'
  BY Control DEF UndoLookup
<1>2. CASE AfterUndo(c)
  BY <1>1, <1>2, AfterUndoOK DEF UndoLookup
<1>3. CASE Goto(c, "undoRead") /\ UNCHANGED <<loc, fr>>
  BY <1>1, <1>3, Here, GotoMove DEF UndoLookup
<1> QED BY <1>2, <1>3 DEF UndoLookup

LEMMA FoundType ==
  ASSUME NEW r \in Locals, NEW b \in BOOLEAN
  PROVE  LET q == [r EXCEPT !.found = b]
         IN  /\ q \in Locals
             /\ q.sess = r.sess /\ q.new = r.new /\ q.acc = r.acc
  BY SMTT(40) DEF Locals

LEMMA UndoReadOK == ASSUME IInv, NEW c \in Callers, UndoRead(c) PROVE IInv'
<1> DEFINE b == loc[c].acc \in at
           r == [loc[c] EXCEPT !.found = b]
<1>1. UNCHANGED core /\ StoreTypeOK' /\ HistoryTypeOK'
  BY Control DEF UndoRead
<1>2. loc[c] \in Locals /\ b \in BOOLEAN
  BY Here
<1>4. loc' = [loc EXCEPT ![c] = r] /\ pc' = [pc EXCEPT ![c] = "undoDelete"]
      /\ UNCHANGED fr
  BY DEF UndoRead, Goto
<1> HIDE DEF b
<1>3. /\ r \in Locals
      /\ r.sess = loc[c].sess /\ r.new = loc[c].new /\ r.acc = loc[c].acc
  BY <1>2, FoundType
<1> HIDE DEF r
<1>5. CallOK("undoDelete", r) /\ Ready("undoDelete", r)
  BY <1>3, Here DEF UndoRead
<1> QED BY <1>1, <1>3, <1>4, <1>5, CallerMove
-----------------------------------------------------------------------------
(***************************************************************************)
(* The steps that write keys the invariant does not speak of, and calls.   *)
(***************************************************************************)
LEMMA CallCreateOK ==
  ASSUME IInv, NEW c \in Callers, CallCreate(c) PROVE IInv'
<1> PICK s \in Sessions :
      Call(c, "writeSet",
           [NoLocals EXCEPT !.op = "create", !.sess = s, !.proof = TRUE])
  BY DEF CallCreate
<1> DEFINE r == [NoLocals EXCEPT !.op = "create", !.sess = s, !.proof = TRUE]
<1>1. UNCHANGED core /\ StoreTypeOK' /\ HistoryTypeOK'
  BY DEF Call, core, IInv, TypeOK, StoreTypeOK, HistoryTypeOK, refreshKeys,
         sessionKeys, accessKeys, minted, history
<1>2. r \in Locals /\ r.sess = s /\ r.op = "create"
  BY NoLocalsType DEF Locals, Ops, NoLocals
<1>3. loc' = [loc EXCEPT ![c] = r] /\ pc' = [pc EXCEPT ![c] = "writeSet"]
      /\ UNCHANGED fr
  BY DEF Call, Goto
<1> HIDE DEF r
<1> QED BY <1>1, <1>2, <1>3, CallerMove

LEMMA CallRefreshOK ==
  ASSUME IInv, NEW c \in Callers, CallRefresh(c) PROVE IInv'
<1> PICK t \in handedR, p \in BOOLEAN :
      Call(c, "peek",
           [NoLocals EXCEPT !.op = "refresh", !.sess = SessionOf(t),
                            !.old = t, !.proof = p])
  BY DEF CallRefresh
<1> DEFINE s == SessionOf(t)
           r == [NoLocals EXCEPT !.op = "refresh", !.sess = s,
                                 !.old = t, !.proof = p]
<1>1. UNCHANGED core /\ StoreTypeOK' /\ HistoryTypeOK'
  BY DEF Call, core, IInv, TypeOK, StoreTypeOK, HistoryTypeOK, refreshKeys,
         sessionKeys, accessKeys, minted, history
<1>2. s \in Sessions /\ t \in RefreshTokens
  BY DEF IInv, MintedOK, TypeOK, HistoryTypeOK
<1>3. loc' = [loc EXCEPT ![c] = r] /\ pc' = [pc EXCEPT ![c] = "peek"]
      /\ UNCHANGED fr
  BY DEF Call, Goto
<1>4. SessionOf(t) = s
  OBVIOUS
<1> HIDE DEF s
<1>5. r \in Locals /\ r.sess = s /\ r.old = t
  BY <1>2, NoLocalsType DEF Locals, Ops, NoLocals
<1> HIDE DEF r
<1> QED BY ZenonT(60), <1>1, <1>2, <1>3, <1>4, <1>5, CallerMove

LEMMA CallRevokeAllOK ==
  ASSUME IInv, NEW c \in Callers, CallRevokeAll(c) PROVE IInv'
<1> PICK u \in Users :
      Call(c, "allRead",
           [NoLocals EXCEPT !.op = "revokeAll", !.user = u,
               !.known = {s \in {SessionOf(t) : t \in handedR} :
                             UserOf[s] = u}])
  BY DEF CallRevokeAll
<1> DEFINE k == {s \in {SessionOf(t) : t \in handedR} : UserOf[s] = u}
           r == [NoLocals EXCEPT !.op = "revokeAll", !.user = u, !.known = k]
<1>1. UNCHANGED core /\ StoreTypeOK' /\ HistoryTypeOK'
  BY DEF Call, core, IInv, TypeOK, StoreTypeOK, HistoryTypeOK, refreshKeys,
         sessionKeys, accessKeys, minted, history
<1>2. k \subseteq Sessions
  BY DEF IInv, MintedOK
<1>3. loc' = [loc EXCEPT ![c] = r] /\ pc' = [pc EXCEPT ![c] = "allRead"]
      /\ UNCHANGED fr
  BY DEF Call, Goto
<1> HIDE DEF k
<1>4. r \in Locals /\ r.user = u
  BY <1>2, NoLocalsType DEF Locals, Ops, NoLocals
<1> HIDE DEF r
<1>5. CallOK("allRead", r) /\ Ready("allRead", r) /\ "allRead" \in Labels
  BY <1>4
<1> QED BY <1>1, <1>3, <1>4, <1>5, CallerMove

LEMMA CallListOK ==
  ASSUME IInv, NEW c \in Callers, CallList(c) PROVE IInv'
<1> PICK u \in Users :
      Call(c, "listRead", [NoLocals EXCEPT !.op = "list", !.user = u])
  BY DEF CallList
<1> DEFINE r == [NoLocals EXCEPT !.op = "list", !.user = u]
<1>1. UNCHANGED core /\ StoreTypeOK' /\ HistoryTypeOK'
  BY DEF Call, core, IInv, TypeOK, StoreTypeOK, HistoryTypeOK, refreshKeys,
         sessionKeys, accessKeys, minted, history
<1>2. loc' = [loc EXCEPT ![c] = r] /\ pc' = [pc EXCEPT ![c] = "listRead"]
      /\ UNCHANGED fr
  BY DEF Call, Goto
<1>3. r \in Locals /\ r.user = u
  BY NoLocalsType DEF Locals, Ops, NoLocals
<1> HIDE DEF r
<1>4. CallOK("listRead", r) /\ Ready("listRead", r) /\ "listRead" \in Labels
  BY <1>3
<1> QED BY <1>1, <1>2, <1>3, <1>4, CallerMove

LEMMA CallRevokeOK ==
  ASSUME IInv, NEW c \in Callers, CallRevoke(c) PROVE IInv'
<1> PICK s \in Nameable : EnterFamily(c, s, "revoke")
  BY DEF CallRevoke
<1>1. UNCHANGED core /\ StoreTypeOK' /\ HistoryTypeOK'
  BY DEF CallRevoke, core, IInv, TypeOK, StoreTypeOK, HistoryTypeOK,
         refreshKeys, sessionKeys, accessKeys, minted, history
<1>2. s \in Sessions
  BY DEF Nameable, IInv, MintedOK, TypeOK, StoreTypeOK
<1> QED BY <1>1, <1>2, CallerEnter DEF Ops

LEMMA CreateMetaOK == ASSUME IInv, NEW c \in Callers, CreateMeta(c) PROVE IInv'
<1>1. loc[c].sess \in Sessions
  BY Here DEF CreateMeta
<1>2. UNCHANGED core /\ StoreTypeOK' /\ HistoryTypeOK'
  BY <1>1 DEF CreateMeta, core, IInv, TypeOK, StoreTypeOK, HistoryTypeOK,
              refreshKeys, accessKeys, minted, history, bounds
<1> QED BY <1>2, Here, GotoMove DEF CreateMeta

LEMMA CreateUserOK == ASSUME IInv, NEW c \in Callers, CreateUser(c) PROVE IInv'
<1>1. loc[c].sess \in Sessions
  BY Here DEF CreateUser
<1>2. UNCHANGED core /\ StoreTypeOK' /\ HistoryTypeOK'
  BY <1>1 DEF CreateUser, core, IInv, TypeOK, StoreTypeOK, HistoryTypeOK,
              refreshKeys, accessKeys, minted, history, bounds
<1> QED BY <1>2, Here, GotoMove DEF CreateUser

LEMMA SetTombstoneOK ==
  ASSUME IInv, NEW c \in Callers, SetTombstone(c) PROVE IInv'
<1>1. loc[c].old \in RefreshTokens
  BY Here DEF SetTombstone
<1>2. UNCHANGED core /\ StoreTypeOK' /\ HistoryTypeOK'
  BY <1>1 DEF SetTombstone, core, IInv, TypeOK, StoreTypeOK, HistoryTypeOK,
              sessionKeys, accessKeys, minted, history, bounds
<1> QED BY <1>2, Here, GotoMove DEF SetTombstone

LEMMA TouchSetOK == ASSUME IInv, NEW c \in Callers, TouchSet(c) PROVE IInv'
<1>1. loc[c].sess \in Sessions
  BY Here DEF TouchSet
<1>2. UNCHANGED core /\ StoreTypeOK' /\ HistoryTypeOK'
  BY <1>1 DEF TouchSet, core, IInv, TypeOK, StoreTypeOK, HistoryTypeOK,
              refreshKeys, accessKeys, minted, history, bounds
<1> QED BY <1>2, Here, GotoMove DEF TouchSet

LEMMA IssueIdOK == ASSUME IInv, NEW c \in Callers, IssueId(c) PROVE IInv'
<1>1. loc[c].acc \in AccessTokens
  BY Here DEF IssueId
<1>2. UNCHANGED core /\ StoreTypeOK' /\ HistoryTypeOK'
  BY <1>1 DEF IssueId, core, IInv, TypeOK, StoreTypeOK, HistoryTypeOK,
              refreshKeys, sessionKeys, minted, history, bounds
<1> QED BY <1>2, Here, GotoMove DEF IssueId
-----------------------------------------------------------------------------
(***************************************************************************)
(* The ends of calls, sign out everywhere, and listings.                   *)
(***************************************************************************)
LEMMA FamilyEndedOK ==
  ASSUME IInv, NEW c \in Callers, FamilyEnded(c) PROVE IInv'
<1>1. loc[c].op = "reuse" => loc[c].old \in RefreshTokens
  BY Here DEF FamilyEnded
<1>2. UNCHANGED core /\ StoreTypeOK' /\ HistoryTypeOK'
  BY <1>1 DEF FamilyEnded, core, IInv, TypeOK, StoreTypeOK, HistoryTypeOK,
              refreshKeys, sessionKeys, accessKeys, minted, bounds
<1> QED BY <1>2, CallerReturn DEF FamilyEnded

LEMMA AllReadOK == ASSUME IInv, NEW c \in Callers, AllRead(c) PROVE IInv'
<1> DEFINE S == userIndex[loc[c].user]
           r == [loc[c] EXCEPT !.snap = S]
           F == [s \in Sessions |-> IF s \in S
                                    THEN [NoFrame EXCEPT !.pc = "marker"]
                                    ELSE NoFrame]
<1>1. UNCHANGED core /\ StoreTypeOK' /\ HistoryTypeOK'
  BY Control DEF AllRead
<1>2. CASE Return(c)
  BY <1>1, <1>2, CallerReturn
<1>3. CASE /\ loc' = [loc EXCEPT ![c] = r] /\ fr' = [fr EXCEPT ![c] = F]
           /\ Goto(c, "awaitAll") /\ S # {}
  <2>1. S \subseteq Sessions
    <3>1. loc[c].user \in Users
      BY Here DEF AllRead
    <3> QED BY <3>1 DEF IInv, TypeOK, StoreTypeOK
  <2>2. loc[c] \in Locals /\ loc[c].user \in Users
    BY Here DEF AllRead
  <2> HIDE DEF S
  <2>3. r \in Locals /\ r.user = loc[c].user
    BY <2>1, <2>2 DEF Locals
  <2>4. /\ F \in [Sessions -> Frames]
        /\ \A s \in Sessions : F[s].pc \in {"none", "marker"}
    BY NoFramesType DEF Frames, FrameLabels, NoFrame
  <2> HIDE DEF r, F
  <2>5. FrameTypeOK'
    BY <1>3, <2>4 DEF IInv, TypeOK, FrameTypeOK
  <2>6. \A d \in Callers, x \in Sessions :
           \/ fr'[d][x] = fr[d][x]
           \/ fr'[d][x].pc \in {"none", "marker", "failed"}
    BY <1>3, <2>4 DEF IInv, TypeOK, FrameTypeOK
  <2>7. /\ CallOK("awaitAll", r) /\ Ready("awaitAll", r)
        /\ "awaitAll" \in Labels
    BY <2>2, <2>3
  <2> QED BY Zenon, <1>1, <1>3, <2>3, <2>5, <2>6, <2>7, CallerStart DEF Goto
<1> QED BY <1>2, <1>3 DEF AllRead

LEMMA AllRemoveOK == ASSUME IInv, NEW c \in Callers, AllRemove(c) PROVE IInv'
<1>1. loc[c] \in Locals
  BY Here
<1>2. Failed(c) \subseteq Sessions
  BY <1>1 DEF Failed, Locals
<1>3. UNCHANGED core /\ StoreTypeOK' /\ HistoryTypeOK'
  BY <1>2 DEF AllRemove, core, IInv, TypeOK, StoreTypeOK, HistoryTypeOK,
              refreshKeys, accessKeys, minted, bounds
<1> QED BY <1>3, CallerReturn DEF AllRemove

LEMMA ListReadOK == ASSUME IInv, NEW c \in Callers, ListRead(c) PROVE IInv'
<1> DEFINE S == userIndex[loc[c].user]
           r == [loc[c] EXCEPT !.snap = S]
<1>1. UNCHANGED core /\ StoreTypeOK' /\ HistoryTypeOK'
  BY Control DEF ListRead
<1>2. CASE Return(c)
  BY <1>1, <1>2, CallerReturn
<1>3. CASE /\ loc' = [loc EXCEPT ![c] = r]
           /\ Goto(c, "listMeta") /\ UNCHANGED fr
  <2>1. loc[c] \in Locals /\ loc[c].user \in Users
    BY Here DEF ListRead
  <2>4. S \subseteq Sessions
    BY <2>1 DEF IInv, TypeOK, StoreTypeOK
  <2> HIDE DEF S
  <2>2. r \in Locals /\ r.user = loc[c].user
    BY <2>1, <2>4 DEF Locals
  <2> HIDE DEF r
  <2>3. /\ CallOK("listMeta", r) /\ Ready("listMeta", r)
        /\ "listMeta" \in Labels
    BY <2>1, <2>2
  <2> QED BY <1>1, <1>3, <2>2, <2>3, CallerMove DEF Goto
<1> QED BY <1>2, <1>3 DEF ListRead

LEMMA ListMetaOK == ASSUME IInv, NEW c \in Callers, ListMeta(c) PROVE IInv'
<1> DEFINE r(A, B) == [loc[c] EXCEPT !.snap = A, !.stale = B]
<1>1. UNCHANGED core /\ StoreTypeOK' /\ HistoryTypeOK'
  BY Control DEF ListMeta
<1>2. CASE Return(c)
  BY <1>1, <1>2, CallerReturn
<1>3. loc[c] \in Locals /\ pc[c] = "listMeta" /\ loc[c].user \in Users
  BY Here DEF ListMeta
<1>4. \A A, B \in SUBSET Sessions :
         r(A, B) \in Locals /\ r(A, B).user = loc[c].user
  BY <1>3 DEF Locals
<1>5. loc[c].snap \in SUBSET Sessions /\ loc[c].stale \in SUBSET Sessions
  BY <1>3 DEF Locals
<1>6. ASSUME NEW l \in {"listMeta", "listPrune"}, NEW A \in SUBSET Sessions,
             NEW B \in SUBSET Sessions, loc' = [loc EXCEPT ![c] = r(A, B)],
             pc' = [pc EXCEPT ![c] = l], UNCHANGED fr
      PROVE  IInv'
  <2> DEFINE q == r(A, B)
  <2>1. /\ q \in Locals /\ q.user = loc[c].user
        /\ loc' = [loc EXCEPT ![c] = q]
    BY <1>4, <1>6
  <2> HIDE DEF q
  <2>2. CallOK(l, q) /\ Ready(l, q) /\ l \in Labels
    BY <1>3, <2>1
  <2>3. UNCHANGED fr /\ pc' = [pc EXCEPT ![c] = l]
    BY <1>6
  <2> HIDE DEF r, CallOK, Ready
  <2> QED BY <1>1, <2>1, <2>2, <2>3, CallerMove
<1>7. SUFFICES ASSUME ~Return(c) PROVE IInv'
  BY <1>2
<1>8. PICK s \in loc[c].snap :
         \/ /\ loc' = [loc EXCEPT ![c] = r(loc[c].snap \ {s},
                            loc[c].stale \cup ({s} \ meta))]
            /\ UNCHANGED <<pc, fr>>
         \/ /\ loc' = [loc EXCEPT ![c] = r({},
                            loc[c].stale \cup ({s} \ meta))]
            /\ Goto(c, "listPrune") /\ UNCHANGED fr
  <2>1. PICK s \in loc[c].snap :
          LET stale == loc[c].stale \cup ({s} \ meta)
          IN  IF loc[c].snap # {s}
              THEN /\ loc' = [loc EXCEPT ![c].snap = @ \ {s},
                                         ![c].stale = stale]
                   /\ UNCHANGED <<pc, fr>>
              ELSE IF stale = {} THEN Return(c)
              ELSE /\ loc' = [loc EXCEPT ![c].snap = {}, ![c].stale = stale]
                   /\ Goto(c, "listPrune")
                   /\ UNCHANGED fr
    BY DEF ListMeta
  <2> DEFINE T == loc[c].stale \cup ({s} \ meta)
  <2>2. CASE loc[c].snap # {s}
    <3>1. loc' = [loc EXCEPT ![c].snap = @ \ {s}, ![c].stale = T]
          /\ UNCHANGED <<pc, fr>>
      BY <2>1, <2>2
    <3> HIDE DEF T
    <3>2. loc' = [loc EXCEPT ![c] = r(loc[c].snap \ {s}, T)]
      BY <1>3, <3>1
    <3> QED BY <3>1, <3>2 DEF T
  <2>3. CASE loc[c].snap = {s}
    <3>1. loc' = [loc EXCEPT ![c].snap = {}, ![c].stale = T]
          /\ Goto(c, "listPrune") /\ UNCHANGED fr
      BY <1>7, <2>1, <2>3
    <3> HIDE DEF T
    <3>2. loc' = [loc EXCEPT ![c] = r({}, T)]
      BY <1>3, <3>1
    <3> QED BY <3>1, <3>2 DEF T
  <2> QED BY Zenon, <2>2, <2>3
<1> DEFINE B == loc[c].stale \cup ({s} \ meta)
           A == loc[c].snap \ {s}
<1>9. B \in SUBSET Sessions /\ A \in SUBSET Sessions
  BY <1>5, <1>8
<1>10. CASE UNCHANGED <<pc, fr>> /\ loc' = [loc EXCEPT ![c] = r(A, B)]
  <2>1. pc' = [pc EXCEPT ![c] = "listMeta"]
    BY <1>3, <1>10 DEF IInv, TypeOK, CallerTypeOK
  <2> HIDE DEF r, A, B
  <2> QED BY <1>6, <1>9, <1>10, <2>1
<1>11. CASE /\ loc' = [loc EXCEPT ![c] = r({}, B)]
            /\ Goto(c, "listPrune") /\ UNCHANGED fr
  <2> HIDE DEF r, A, B
  <2> QED BY <1>6, <1>9, <1>11 DEF Goto
<1> QED BY <1>8, <1>10, <1>11

LEMMA ListPruneOK == ASSUME IInv, NEW c \in Callers, ListPrune(c) PROVE IInv'
<1>2. loc[c].user \in Users
  BY Here DEF ListPrune
<1>1. UNCHANGED core /\ StoreTypeOK' /\ HistoryTypeOK'
  BY <1>2 DEF ListPrune, core, IInv, TypeOK, StoreTypeOK, HistoryTypeOK,
         refreshKeys, accessKeys, minted, history, bounds
<1> QED BY <1>1, CallerReturn DEF ListPrune

LEMMA FailOK == ASSUME IInv, NEW c \in Callers, Fail(c) PROVE IInv'
<1>1. UNCHANGED core /\ StoreTypeOK' /\ HistoryTypeOK'
  BY DEF Fail, core, IInv, TypeOK, StoreTypeOK, HistoryTypeOK, refreshKeys,
         sessionKeys, accessKeys, minted, history
<1> QED BY <1>1, CallerReturn DEF Fail-----------------------------------------------------------------------------
(***************************************************************************)
(* The steps that change what the invariant speaks of.                     *)
(***************************************************************************)
\* What such a step must not take from the calls under way.
Keeps ==
    /\ Stable /\ Shrinks
    /\ \A s \in Sessions \ marker' : /\ rtIndex[s] \subseteq rtIndex'[s]
                                     /\ atIndex[s] \subseteq atIndex'[s]
    /\ \A a \in AccessTokens : access[a] \in Sessions /\ a \in at' => a \in at

\* What it must establish of the store.
StoreFacts == StoreTypeOK /\ HistoryTypeOK /\ MintedOK /\ RefreshIndexed
              /\ AccessIndexed

LEMMA StoreMove ==
  ASSUME IInv, Keeps, StoreFacts', UNCHANGED <<fr, ended>>,
         NEW c \in Callers, NEW l \in Labels, NEW r \in Locals,
         pc' = [pc EXCEPT ![c] = l], loc' = [loc EXCEPT ![c] = r],
         CallOK(l, r)', Ready(l, r)'
  PROVE  IInv'
<1>1. CallerTypeOK' /\ FrameTypeOK'
  BY DEF IInv, TypeOK, CallerTypeOK, FrameTypeOK
<1>2. ASSUME NEW d \in Callers
      PROVE  CallOK(pc[d], loc[d])' /\ Ready(pc[d], loc[d])'
  <2>1. CASE d = c
    <3>1. pc'[d] = l /\ loc'[d] = r
      BY <2>1 DEF IInv, TypeOK, CallerTypeOK
    <3> QED BY <3>1
  <2>2. CASE d # c
    <3>1. pc'[d] = pc[d] /\ loc'[d] = loc[d]
      BY <2>2 DEF IInv, TypeOK, CallerTypeOK
    <3> DEFINE k == pc[d]
               q == loc[d]
    <3>2. CallOK(k, q) /\ Ready(k, q)
      BY Here
    <3>3. k = pc'[d] /\ q = loc'[d]
      BY <3>1
    <3> QED BY <3>2, <3>3 DEF Keeps, Stable, Shrinks, SessionOf
  <2> QED BY <2>1, <2>2
<1>3. CallsOK' /\ CallsReady'
  BY <1>2 DEF CallsOK, CallsReady
<1>4. FramesOK' /\ (ended \subseteq marker)' /\ EndedSessionsAreDead'
  BY SafeStill DEF IInv, Keeps
<1> QED BY <1>1, <1>3, <1>4 DEF IInv, TypeOK, StoreFacts
LEMMA StoreReturn ==
  ASSUME IInv, Keeps, StoreFacts', UNCHANGED ended,
         NEW c \in Callers, Return(c)
  PROVE  IInv'
<1>1. CallerTypeOK' /\ CallsOK' /\ FrameTypeOK'
  BY ReturnOK DEF IInv, TypeOK, Keeps
<1>2. ASSUME NEW d \in Callers
      PROVE  Ready(pc[d], loc[d])'
  <2>1. CASE pc'[d] = "idle"
    BY <2>1
  <2>2. CASE pc'[d] = pc[d] /\ loc'[d] = loc[d]
    <3> DEFINE k == pc[d]
               q == loc[d]
    <3>1. CallOK(k, q) /\ Ready(k, q) /\ k = pc'[d] /\ q = loc'[d]
      BY <2>2, Here
    <3> QED BY <3>1 DEF Keeps, Shrinks
  <2> QED BY <2>1, <2>2 DEF IInv, TypeOK, CallerTypeOK, Return, Goto
<1>3. CallsReady'
  BY <1>2 DEF CallsReady
<1>4. \A d \in Callers, x \in Sessions :
         fr'[d][x] = fr[d][x] \/ fr'[d][x].pc \in {"none", "marker", "failed"}
  BY DEF Return, NoFrames, NoFrame, IInv, TypeOK, FrameTypeOK
<1>5. FramesOK' /\ (ended \subseteq marker)' /\ EndedSessionsAreDead'
  BY <1>4, SafeStill DEF IInv, Keeps
<1> QED BY <1>1, <1>3, <1>5 DEF IInv, TypeOK, StoreFacts

\* No caller moves.
LEMMA CallersStay ==
  ASSUME IInv, Keeps, UNCHANGED <<pc, loc>>
  PROVE  CallerTypeOK' /\ CallsOK' /\ CallsReady'
<1>1. CallerTypeOK'
  BY DEF IInv, TypeOK, CallerTypeOK
<1>2. ASSUME NEW d \in Callers
      PROVE  CallOK(pc[d], loc[d])' /\ Ready(pc[d], loc[d])'
  <2> DEFINE k == pc[d]
             q == loc[d]
  <2>1. CallOK(k, q) /\ Ready(k, q) /\ k = pc'[d] /\ q = loc'[d]
    BY Here
  <2> QED BY <2>1 DEF Keeps, Stable, Shrinks, SessionOf
<1> QED BY <1>1, <1>2 DEF CallsOK, CallsReady

LEMMA StoreStay ==
  ASSUME IInv, Keeps, StoreFacts', UNCHANGED <<pc, loc, fr, ended>>
  PROVE  IInv'
<1>1. CallerTypeOK' /\ CallsOK' /\ CallsReady'
  BY CallersStay
<1>2. FrameTypeOK'
  BY DEF IInv, TypeOK, FrameTypeOK
<1>3. FramesOK' /\ (ended \subseteq marker)' /\ EndedSessionsAreDead'
  BY SafeStill DEF IInv, Keeps
<1> QED BY <1>1, <1>2, <1>3 DEF IInv, TypeOK, StoreFacts

\* One step of a revocation.
LEMMA FrameStep ==
  ASSUME IInv, Keeps, StoreFacts', UNCHANGED <<pc, loc>>,
         NEW c \in Callers, NEW s \in Sessions, NEW f \in Frames,
         SetFrame(c, s, f), FrameOK(s, f)',
         \/ ended' = ended
         \/ ended' = ended \cup {s} /\ f.pc = "done"
  PROVE  IInv'
<1>1. CallerTypeOK' /\ CallsOK' /\ CallsReady'
  BY CallersStay
<1>2. FrameTypeOK' /\ fr'[c][s] = f
      /\ \A d \in Callers, x \in Sessions :
            <<d, x>> # <<c, s>> => fr'[d][x] = fr[d][x]
  BY FrameSet DEF IInv, TypeOK
<1>3. ASSUME NEW d \in Callers, NEW x \in Sessions
      PROVE  FrameOK(x, fr[d][x])'
  <2>1. CASE <<d, x>> = <<c, s>>
    BY <1>2, <2>1 DEF FrameOK
  <2>2. CASE <<d, x>> # <<c, s>>
    <3>1. fr'[d][x] = fr[d][x]
      BY <1>2, <2>2
    <3>2. FrameOK(x, fr[d][x])
      BY FramesAreOK DEF IInv
    <3> QED BY <3>1, <3>2
            DEF FrameOK, Keeps, Shrinks, Enumerated, AfterWipe, AfterKill
  <2> QED BY <2>1, <2>2
<1>4. FramesOK'
  BY <1>3 DEF FramesOK, FrameOK, HandedRefresh, HandedAccess
<1>5. f.pc = "done" => s \in marker' /\ HandedRefresh(s)' = {}
                       /\ HandedAccess(s)' = {}
  BY DEF FrameOK, AfterWipe, AfterKill
<1>6. (ended \subseteq marker)' /\ EndedSessionsAreDead'
  BY <1>5 DEF IInv, Keeps, Shrinks, EndedSessionsAreDead, HandedRefresh,
              HandedAccess
<1> QED BY <1>1, <1>2, <1>4, <1>6 DEF IInv, TypeOK, StoreFacts-----------------------------------------------------------------------------
(***************************************************************************)
(* revokeFamily.                                                           *)
(***************************************************************************)
LEMMA FrameHere ==
  ASSUME IInv, NEW c \in Callers, NEW s \in Sessions
  PROVE  fr[c][s] \in Frames /\ FrameOK(s, fr[c][s])
  BY FramesAreOK DEF IInv, TypeOK, FrameTypeOK

LEMMA FrameGotoType ==
  ASSUME NEW f \in Frames, NEW l \in FrameLabels
  PROVE  LET g == [f EXCEPT !.pc = l]
         IN  /\ g \in Frames /\ g.pc = l
             /\ g.hashes = f.hashes /\ g.tokens = f.tokens
  BY DEF Frames

\* A step that changes neither the live tokens, their indexes nor the marker.
LEMMA StoreCalm ==
  ASSUME IInv,
         UNCHANGED <<rt, grace, rtIndex, marker, at, atIndex, token, access,
                     handedR, handedA>>
  PROVE  Keeps /\ MintedOK' /\ RefreshIndexed' /\ AccessIndexed'
  BY DEF IInv, Keeps, Stable, MintedOK, RefreshIndexed, AccessIndexed,
         Shrinks, SessionOf, HandedRefresh, HandedAccess, LiveRefresh,
         LiveAccess

LEMMA FamMarkerOK ==
  ASSUME IInv, NEW c \in Callers, NEW s \in Sessions, FamMarker(c, s)
  PROVE  IInv'
<1> DEFINE f == [fr[c][s] EXCEPT !.pc = "meta"]
<1>1. f \in Frames /\ f.pc = "meta"
  BY ZenonT(60), FrameHere, FrameGotoType DEF FrameLabels
<1>2. SetFrame(c, s, f) /\ UNCHANGED <<pc, loc, ended>>
  BY DEF FamMarker, FrameGoto, history
<1>3. marker' = marker \cup {s}
  BY DEF FamMarker
<1>4. Keeps /\ StoreFacts'
  BY DEF FamMarker, IInv, TypeOK, StoreTypeOK, HistoryTypeOK, Keeps, Stable,
         StoreFacts, MintedOK, RefreshIndexed, AccessIndexed, Shrinks,
         SessionOf, HandedRefresh, HandedAccess, LiveRefresh, LiveAccess,
         refreshKeys, accessKeys, minted, history, bounds
<1> HIDE DEF f
<1> PICK g \in Frames : g = f
  BY <1>1
<1>5. FrameOK(s, g)'
  BY <1>1, <1>3 DEF FrameOK, Enumerated, AfterWipe, AfterKill
<1>20. SetFrame(c, s, g)
  BY <1>2 DEF SetFrame
<1> QED BY <1>2, <1>4, <1>5, <1>20, FrameStep

LEMMA FamMetaOK ==
  ASSUME IInv, NEW c \in Callers, NEW s \in Sessions, FamMeta(c, s)
  PROVE  IInv'
<1> DEFINE k == s \in meta
           f == [fr[c][s] EXCEPT !.pc = "enumerate", !.known = k]
<1>1. fr[c][s] \in Frames /\ s \in marker
  BY FrameHere DEF FamMeta, FrameOK
<1>2. SetFrame(c, s, f) /\ UNCHANGED <<pc, loc, ended>>
  BY DEF FamMeta, history
<1>3. k \in BOOLEAN
  OBVIOUS
<1> HIDE DEF k
<1>4. f \in Frames /\ f.pc = "enumerate"
  BY <1>1, <1>3 DEF Frames, FrameLabels
<1> HIDE DEF f
<1>5. UNCHANGED core /\ StoreTypeOK' /\ HistoryTypeOK'
  BY DEF FamMeta, IInv, TypeOK, StoreTypeOK, HistoryTypeOK, core, refreshKeys,
         sessionKeys, accessKeys, minted, history, bounds
<1>6. Keeps /\ StoreFacts'
  BY <1>5, StoreCalm DEF StoreFacts, core
<1> PICK g \in Frames : g = f
  BY <1>4
<1>7. FrameOK(s, g)'
  BY <1>1, <1>4, <1>5 DEF FrameOK, Enumerated, AfterWipe, AfterKill, core
<1>20. SetFrame(c, s, g)
  BY <1>2 DEF SetFrame
<1> QED BY <1>2, <1>6, <1>7, <1>20, FrameStep

LEMMA FamEnumerateOK ==
  ASSUME IInv, NEW c \in Callers, NEW s \in Sessions, FamEnumerate(c, s)
  PROVE  IInv'
<1> DEFINE H == rtIndex[s]
           l == IF H = {} THEN "drop" ELSE "markEach"
           f == [fr[c][s] EXCEPT !.hashes = H, !.todo = H, !.pc = l]
<1>1. fr[c][s] \in Frames /\ s \in marker
  BY FrameHere DEF FamEnumerate, FrameOK
<1>2. SetFrame(c, s, f) /\ UNCHANGED <<pc, loc, ended>>
  BY DEF FamEnumerate, history
<1>3. UNCHANGED core /\ StoreTypeOK' /\ HistoryTypeOK'
  BY DEF FamEnumerate, IInv, TypeOK, StoreTypeOK, HistoryTypeOK, core,
         refreshKeys, sessionKeys, accessKeys, minted, history, bounds
<1>4. Keeps /\ StoreFacts'
  BY <1>3, StoreCalm DEF StoreFacts, core
<1>5. H \subseteq RefreshTokens /\ HandedRefresh(s) \subseteq H
  BY DEF IInv, TypeOK, StoreTypeOK, RefreshIndexed, HandedRefresh, LiveRefresh
<1> HIDE DEF H
<1>6. f \in Frames /\ f.hashes = H /\ f.pc = l
  BY <1>1, <1>5 DEF Frames, FrameLabels
<1> HIDE DEF f
<1>7. UNCHANGED <<HandedRefresh(s), marker>>
  BY <1>3 DEF HandedRefresh, LiveRefresh, SessionOf, core
<1> PICK g \in Frames : g = f
  BY <1>6
<1>8. HandedRefresh(s)' \subseteq g.hashes /\ g.pc \in {"drop", "markEach"}
      /\ (g.pc = "drop" => HandedRefresh(s)' = {}) /\ s \in marker'
  BY <1>1, <1>5, <1>6, <1>7
<1>9. FrameOK(s, g)'
  BY <1>8 DEF FrameOK, Enumerated, AfterWipe, AfterKill
<1>20. SetFrame(c, s, g)
  BY <1>2 DEF SetFrame
<1> QED BY <1>2, <1>4, <1>9, <1>20, FrameStep

LEMMA FamMarkEachOK ==
  ASSUME IInv, NEW c \in Callers, NEW s \in Sessions, FamMarkEach(c, s)
  PROVE  IInv'
<1> PICK t \in fr[c][s].todo :
      /\ rtx' = rtx \cup {t}
      /\ SetFrame(c, s,
           [fr[c][s] EXCEPT !.todo = @ \ {t},
               !.pc = IF fr[c][s].todo = {t} THEN "wipe" ELSE "markEach"])
  BY DEF FamMarkEach
<1> DEFINE l == IF fr[c][s].todo = {t} THEN "wipe" ELSE "markEach"
           f == [fr[c][s] EXCEPT !.todo = @ \ {t}, !.pc = l]
<1>1. /\ fr[c][s] \in Frames /\ s \in marker
      /\ HandedRefresh(s) \subseteq fr[c][s].hashes
  BY FrameHere DEF FamMarkEach, FrameOK, Enumerated
<1>2. SetFrame(c, s, f) /\ UNCHANGED <<pc, loc, ended>>
  BY DEF FamMarkEach, history
<1>3. t \in RefreshTokens
  BY <1>1 DEF Frames
<1>4. UNCHANGED core /\ StoreTypeOK' /\ HistoryTypeOK'
  BY <1>3 DEF FamMarkEach, IInv, TypeOK, StoreTypeOK, HistoryTypeOK, core,
              sessionKeys, accessKeys, minted, history, bounds
<1>5. Keeps /\ StoreFacts'
  BY <1>4, StoreCalm DEF StoreFacts, core
<1>6. l \in {"wipe", "markEach"}
  OBVIOUS
<1> HIDE DEF l
<1>7. f \in Frames /\ f.hashes = fr[c][s].hashes /\ f.pc = l
  BY <1>1, <1>6 DEF Frames, FrameLabels
<1> HIDE DEF f
<1>8. UNCHANGED <<HandedRefresh(s), marker>>
  BY <1>4 DEF HandedRefresh, LiveRefresh, SessionOf, core
<1> PICK g \in Frames : g = f
  BY <1>7
<1>9. /\ HandedRefresh(s)' \subseteq g.hashes /\ s \in marker'
      /\ g.pc \in {"wipe", "markEach"}
  BY <1>1, <1>6, <1>7, <1>8
<1>10. FrameOK(s, g)'
  BY <1>9 DEF FrameOK, Enumerated, AfterWipe, AfterKill
<1>20. SetFrame(c, s, g)
  BY <1>2 DEF SetFrame
<1> QED BY <1>2, <1>5, <1>10, <1>20, FrameStep
LEMMA FamWipeOK ==
  ASSUME IInv, NEW c \in Callers, NEW s \in Sessions, FamWipe(c, s)
  PROVE  IInv'
<1> DEFINE f == [fr[c][s] EXCEPT !.pc = "drop"]
<1>1. f \in Frames /\ f.pc = "drop"
  BY ZenonT(60), FrameHere, FrameGotoType DEF FrameLabels
<1>2. SetFrame(c, s, f) /\ UNCHANGED <<pc, loc, ended>>
  BY DEF FamWipe, FrameGoto, history
<1>3. s \in marker /\ HandedRefresh(s) \subseteq fr[c][s].hashes
  BY FrameHere DEF FamWipe, FrameOK, Enumerated
<1>4. /\ rt' = rt \ fr[c][s].hashes
      /\ \A t \in RefreshTokens : grace'[t] \in {NoToken, grace[t]}
      /\ UNCHANGED <<marker, rtIndex, at, atIndex, token, access, handedR,
                     handedA>>
  BY DEF FamWipe, history, sessionKeys, accessKeys, minted
<1>5. StoreTypeOK' /\ HistoryTypeOK'
  BY DEF FamWipe, IInv, TypeOK, StoreTypeOK, HistoryTypeOK, sessionKeys,
         accessKeys, minted, history, bounds
<1>6. Keeps /\ StoreFacts'
  BY <1>4, <1>5 DEF IInv, Keeps, Stable, StoreFacts, MintedOK, RefreshIndexed,
         AccessIndexed, Shrinks, SessionOf, HandedRefresh, HandedAccess,
         LiveRefresh, LiveAccess
<1>7. HandedRefresh(s)' = {}
  BY <1>3, <1>4 DEF HandedRefresh, LiveRefresh, SessionOf
<1> HIDE DEF f
<1> PICK g \in Frames : g = f
  BY <1>1
<1>8. SetFrame(c, s, g)
  BY <1>2 DEF SetFrame
<1>9. FrameOK(s, g)'
  BY <1>1, <1>3, <1>4, <1>7 DEF FrameOK, Enumerated, AfterWipe, AfterKill
<1> QED BY <1>2, <1>6, <1>8, <1>9, FrameStep

LEMMA FamDropOK ==
  ASSUME IInv, NEW c \in Callers, NEW s \in Sessions, FamDrop(c, s)
  PROVE  IInv'
<1> DEFINE f == [fr[c][s] EXCEPT !.pc = "tokens"]
<1>1. f \in Frames /\ f.pc = "tokens"
  BY FrameHere, FrameGotoType DEF FrameLabels
<1>2. SetFrame(c, s, f) /\ UNCHANGED <<pc, loc, ended>>
  BY DEF FamDrop, FrameGoto, history
<1>3. s \in marker /\ HandedRefresh(s) = {}
  BY FrameHere DEF FamDrop, FrameOK, AfterWipe
<1>4. /\ rtIndex' = [rtIndex EXCEPT ![s] = {}]
      /\ UNCHANGED <<rt, grace, marker, at, atIndex, token, access, handedR,
                     handedA>>
  BY DEF FamDrop, history, accessKeys, minted
<1>5. StoreTypeOK' /\ HistoryTypeOK'
  BY DEF FamDrop, IInv, TypeOK, StoreTypeOK, HistoryTypeOK, accessKeys,
         minted, history, bounds
<1>6. RefreshIndexed'
  BY <1>3, <1>4 DEF IInv, TypeOK, StoreTypeOK, MintedOK, RefreshIndexed,
         HandedRefresh, LiveRefresh, SessionOf
<1>7. Keeps /\ StoreFacts'
  BY <1>3, <1>4, <1>5, <1>6 DEF IInv, TypeOK, StoreTypeOK, Keeps, Stable,
         StoreFacts, MintedOK, AccessIndexed, Shrinks, SessionOf,
         HandedRefresh, HandedAccess, LiveRefresh, LiveAccess
<1>8. HandedRefresh(s)' = {}
  BY <1>3, <1>4 DEF HandedRefresh, LiveRefresh, SessionOf
<1> HIDE DEF f
<1> PICK g \in Frames : g = f
  BY <1>1
<1>9. SetFrame(c, s, g)
  BY <1>2 DEF SetFrame
<1>10. FrameOK(s, g)'
  BY <1>1, <1>3, <1>4, <1>8 DEF FrameOK, Enumerated, AfterWipe, AfterKill
<1> QED BY <1>2, <1>7, <1>9, <1>10, FrameStep

LEMMA FamTokensOK ==
  ASSUME IInv, NEW c \in Callers, NEW s \in Sessions, FamTokens(c, s)
  PROVE  IInv'
<1> DEFINE A == atIndex[s]
           l == IF A = {} THEN "dropTokens" ELSE "kill"
           f == [fr[c][s] EXCEPT !.tokens = A, !.pc = l]
<1>1. fr[c][s] \in Frames /\ s \in marker /\ HandedRefresh(s) = {}
  BY FrameHere DEF FamTokens, FrameOK, AfterWipe
<1>2. SetFrame(c, s, f) /\ UNCHANGED <<pc, loc, ended>>
  BY DEF FamTokens, history
<1>3. UNCHANGED core /\ StoreTypeOK' /\ HistoryTypeOK'
  BY DEF FamTokens, IInv, TypeOK, StoreTypeOK, HistoryTypeOK, core,
         refreshKeys, sessionKeys, accessKeys, minted, history, bounds
<1>4. Keeps /\ StoreFacts'
  BY <1>3, StoreCalm DEF StoreFacts, core
<1>5. A \subseteq AccessTokens /\ HandedAccess(s) \subseteq A
  BY DEF IInv, TypeOK, StoreTypeOK, AccessIndexed, HandedAccess, LiveAccess
<1> HIDE DEF A
<1>6. f \in Frames /\ f.tokens = A /\ f.pc = l
  BY <1>1, <1>5 DEF Frames, FrameLabels
<1> HIDE DEF f
<1>7. UNCHANGED <<HandedRefresh(s), HandedAccess(s), marker>>
  BY <1>3 DEF HandedRefresh, LiveRefresh, HandedAccess, LiveAccess, SessionOf,
              core
<1> PICK g \in Frames : g = f
  BY <1>6
<1>8. /\ HandedRefresh(s)' = {} /\ HandedAccess(s)' \subseteq g.tokens
      /\ g.pc \in {"kill", "dropTokens"} /\ s \in marker'
      /\ (g.pc = "dropTokens" => HandedAccess(s)' = {})
  BY <1>1, <1>5, <1>6, <1>7
<1>9. FrameOK(s, g)'
  BY <1>8 DEF FrameOK, Enumerated, AfterWipe, AfterKill
<1>10. SetFrame(c, s, g)
  BY <1>2 DEF SetFrame
<1> QED BY <1>2, <1>4, <1>9, <1>10, FrameStep

\* Killing some of the access tokens a revocation enumerated.
LEMMA KillOK ==
  ASSUME IInv, NEW c \in Callers, NEW s \in Sessions,
         fr[c][s].pc = "kill", NEW K \in SUBSET fr[c][s].tokens,
         NEW l \in {"kill", "dropTokens"},
         l = "dropTokens" => fr[c][s].tokens = K,
         SetFrame(c, s, [fr[c][s] EXCEPT !.tokens = fr[c][s].tokens \ K,
                                         !.pc = l]),
         at' = at \ K, atid' \subseteq atid, HistoryTypeOK',
         UNCHANGED <<refreshKeys, sessionKeys, atIndex, minted, pc, loc,
                     history>>
  PROVE  IInv'
<1> DEFINE T == fr[c][s].tokens
           f == [fr[c][s] EXCEPT !.tokens = T \ K, !.pc = l]
<1>1. /\ fr[c][s] \in Frames /\ s \in marker /\ HandedRefresh(s) = {}
      /\ HandedAccess(s) \subseteq T
  BY FrameHere DEF FrameOK, AfterWipe
<1>2. SetFrame(c, s, f) /\ UNCHANGED <<pc, loc, ended>>
  BY DEF history
<1>3. /\ at' = at \ K
      /\ UNCHANGED <<rt, grace, rtIndex, marker, atIndex, token, access,
                     handedR, handedA>>
  BY DEF refreshKeys, sessionKeys, minted, history
<1>4. StoreTypeOK'
  BY DEF IInv, TypeOK, StoreTypeOK, refreshKeys, sessionKeys, minted
<1>5. Keeps /\ StoreFacts'
  BY <1>3, <1>4 DEF IInv, Keeps, Stable, StoreFacts, MintedOK, RefreshIndexed,
         AccessIndexed, Shrinks, SessionOf, HandedRefresh, HandedAccess,
         LiveRefresh, LiveAccess
<1>6. HandedRefresh(s)' = {} /\ HandedAccess(s)' = HandedAccess(s) \ K
      /\ marker' = marker
  BY <1>1, <1>3 DEF HandedRefresh, LiveRefresh, HandedAccess, LiveAccess,
                    SessionOf
<1>7. T \subseteq AccessTokens
  BY <1>1 DEF Frames
<1>8. l = "dropTokens" => T = K
  OBVIOUS
<1> HIDE DEF T
<1>9. f \in Frames /\ f.tokens = T \ K /\ f.pc = l
  BY <1>1, <1>7 DEF Frames, FrameLabels
<1> HIDE DEF f
<1> PICK g \in Frames : g = f
  BY <1>9
<1>10. /\ HandedRefresh(s)' = {} /\ HandedAccess(s)' \subseteq g.tokens
       /\ g.pc \in {"kill", "dropTokens"} /\ s \in marker'
       /\ (g.pc = "dropTokens" => HandedAccess(s)' = {})
  BY <1>1, <1>6, <1>8, <1>9
<1>11. FrameOK(s, g)'
  BY <1>10 DEF FrameOK, Enumerated, AfterWipe, AfterKill
<1>12. SetFrame(c, s, g)
  BY <1>2 DEF SetFrame
<1> QED BY <1>2, <1>5, <1>11, <1>12, FrameStep

LEMMA FamDeleteOK ==
  ASSUME IInv, NEW c \in Callers, NEW s \in Sessions, FamDelete(c, s)
  PROVE  IInv'
<1> DEFINE T == fr[c][s].tokens
<1>1. /\ SetFrame(c, s, [fr[c][s] EXCEPT !.tokens = T \ T,
                                         !.pc = "dropTokens"])
      /\ at' = at \ T /\ atid' \subseteq atid
  BY DEF FamDelete
<1>2. HistoryTypeOK'
  BY DEF FamDelete, IInv, TypeOK, HistoryTypeOK, history, bounds
<1> QED BY Zenon, <1>1, <1>2, KillOK DEF FamDelete

LEMMA FamDenyOK ==
  ASSUME IInv, NEW c \in Callers, NEW s \in Sessions, FamDeny(c, s)
  PROVE  IInv'
<1> PICK a \in fr[c][s].tokens :
      /\ at' = at \ {a}
      /\ SetFrame(c, s,
           [fr[c][s] EXCEPT !.tokens = @ \ {a},
               !.pc = IF fr[c][s].tokens = {a} THEN "dropTokens"
                      ELSE "kill"])
  BY DEF FamDeny
<1> DEFINE l == IF fr[c][s].tokens = {a} THEN "dropTokens" ELSE "kill"
<1>1. /\ SetFrame(c, s, [fr[c][s] EXCEPT !.tokens = fr[c][s].tokens \ {a},
                                         !.pc = l])
      /\ l \in {"kill", "dropTokens"}
      /\ l = "dropTokens" => fr[c][s].tokens = {a}
  OBVIOUS
<1>2. HistoryTypeOK' /\ atid' \subseteq atid
  BY DEF FamDeny, IInv, TypeOK, HistoryTypeOK, history, bounds
<1> HIDE DEF l
<1> PICK k \in {"kill", "dropTokens"} : k = l
  BY <1>1
<1> QED BY Zenon, <1>1, <1>2, KillOK DEF FamDeny
LEMMA FamDropTokensOK ==
  ASSUME IInv, NEW c \in Callers, NEW s \in Sessions, FamDropTokens(c, s)
  PROVE  IInv'
<1>1. PICK l \in {"unlist", "done"} :
         /\ SetFrame(c, s, [fr[c][s] EXCEPT !.pc = l])
         /\ \/ ended' = ended
            \/ ended' = ended \cup {s} /\ l = "done"
  BY DEF FamDropTokens, FrameGoto
<1> DEFINE f == [fr[c][s] EXCEPT !.pc = l]
<1>2. f \in Frames /\ f.pc = l
  <2>1. l \in FrameLabels
    BY DEF FrameLabels
  <2>2. fr[c][s] \in Frames
    BY FrameHere
  <2> QED BY <2>1, <2>2, FrameGotoType
<1>3. /\ s \in marker /\ HandedRefresh(s) = {} /\ HandedAccess(s) = {}
  BY FrameHere DEF FamDropTokens, FrameOK, AfterWipe, AfterKill
<1>4. /\ atIndex' = [atIndex EXCEPT ![s] = {}]
      /\ UNCHANGED <<rt, grace, rtIndex, marker, at, token, access, handedR,
                     handedA, pc, loc>>
  BY DEF FamDropTokens, refreshKeys, sessionKeys, minted
<1>5. StoreTypeOK' /\ HistoryTypeOK'
  BY <1>1 DEF FamDropTokens, IInv, TypeOK, StoreTypeOK, HistoryTypeOK,
         refreshKeys, sessionKeys, minted, bounds
<1>6. AccessIndexed'
  <2>1. ASSUME NEW a \in handedA' \cap at'
        PROVE  (a \in atIndex[access[a]])'
    <3>1. a \in atIndex[access[a]] /\ access[a] \in Sessions
      BY <1>4 DEF IInv, MintedOK, AccessIndexed
    <3>2. access[a] # s
      BY <1>3, <1>4 DEF HandedAccess, LiveAccess
    <3> QED BY <1>4, <3>1, <3>2 DEF IInv, TypeOK, StoreTypeOK
  <2> QED BY <2>1 DEF AccessIndexed
<1>7. Keeps /\ StoreFacts'
  BY <1>3, <1>4, <1>5, <1>6 DEF IInv, TypeOK, StoreTypeOK, Keeps, Stable,
         StoreFacts, MintedOK, RefreshIndexed, Shrinks, SessionOf,
         HandedRefresh, HandedAccess, LiveRefresh, LiveAccess
<1>8. HandedRefresh(s)' = {} /\ HandedAccess(s)' = {} /\ s \in marker'
  BY <1>3, <1>4 DEF HandedRefresh, LiveRefresh, HandedAccess, LiveAccess,
                    SessionOf
<1> HIDE DEF f
<1> PICK g \in Frames : g = f
  BY <1>2
<1>9. SetFrame(c, s, g)
  BY <1>1 DEF SetFrame, f
<1>10. FrameOK(s, g)'
  BY <1>2, <1>8 DEF FrameOK, Enumerated
<1>11. \/ ended' = ended
       \/ ended' = ended \cup {s} /\ g.pc = "done"
  BY <1>1, <1>2
<1> QED BY <1>4, <1>7, <1>9, <1>10, <1>11, FrameStep

LEMMA FamUnlistOK ==
  ASSUME IInv, NEW c \in Callers, NEW s \in Sessions, FamUnlist(c, s)
  PROVE  IInv'
<1> DEFINE f == [fr[c][s] EXCEPT !.pc = "done"]
<1>1. f \in Frames /\ f.pc = "done"
  BY FrameHere, FrameGotoType DEF FrameLabels
<1>2. SetFrame(c, s, f) /\ UNCHANGED <<pc, loc>> /\ ended' = ended \cup {s}
  BY DEF FamUnlist, FrameGoto
<1>3. /\ s \in marker /\ HandedRefresh(s) = {} /\ HandedAccess(s) = {}
  BY FrameHere DEF FamUnlist, FrameOK, AfterWipe, AfterKill
<1>4. UNCHANGED <<rt, grace, rtIndex, marker, at, atIndex, token, access,
                  handedR, handedA>>
  BY DEF FamUnlist, refreshKeys, accessKeys, minted
<1>5. StoreTypeOK' /\ HistoryTypeOK'
  BY DEF FamUnlist, IInv, TypeOK, StoreTypeOK, HistoryTypeOK, refreshKeys,
         accessKeys, minted, bounds
<1>6. Keeps /\ StoreFacts'
  BY <1>4, <1>5, StoreCalm DEF StoreFacts
<1>7. HandedRefresh(s)' = {} /\ HandedAccess(s)' = {} /\ s \in marker'
  BY <1>3, <1>4 DEF HandedRefresh, LiveRefresh, HandedAccess, LiveAccess,
                    SessionOf
<1> HIDE DEF f
<1> PICK g \in Frames : g = f
  BY <1>1
<1>8. SetFrame(c, s, g)
  BY <1>2 DEF SetFrame
<1>9. FrameOK(s, g)'
  BY <1>1, <1>7 DEF FrameOK, Enumerated
<1> QED BY <1>1, <1>2, <1>6, <1>8, <1>9, FrameStep

LEMMA FamFailOK ==
  ASSUME IInv, NEW c \in Callers, NEW s \in Sessions, FamFail(c, s)
  PROVE  IInv'
<1> DEFINE f == [fr[c][s] EXCEPT !.pc = "failed"]
<1>1. f \in Frames /\ f.pc = "failed"
  BY FrameHere, FrameGotoType DEF FrameLabels
<1>2. SetFrame(c, s, f) /\ UNCHANGED <<pc, loc, ended>>
  BY DEF FamFail, FrameGoto, history
<1>3. UNCHANGED core /\ StoreTypeOK' /\ HistoryTypeOK'
  BY DEF FamFail, IInv, TypeOK, StoreTypeOK, HistoryTypeOK, core, refreshKeys,
         sessionKeys, accessKeys, minted, history
<1>4. Keeps /\ StoreFacts'
  BY <1>3, StoreCalm DEF StoreFacts, core
<1> HIDE DEF f
<1> PICK g \in Frames : g = f
  BY <1>1
<1>5. SetFrame(c, s, g)
  BY <1>2 DEF SetFrame
<1>6. FrameOK(s, g)'
  BY <1>1, FrameIdle
<1> QED BY <1>2, <1>4, <1>5, <1>6, FrameStep
-----------------------------------------------------------------------------
(***************************************************************************)
(* The writes of create() and #rotate(), and issuance.                     *)
(***************************************************************************)
LEMMA FreshTokenOK ==
  ASSUME \E t \in RefreshTokens : ~Minted(t)
  PROVE  FreshToken \in RefreshTokens /\ ~Minted(FreshToken)
  BY DEF FreshToken

LEMMA FreshAccessOK ==
  ASSUME \E a \in AccessTokens : access[a] = NoSession
  PROVE  FreshAccess \in AccessTokens /\ access[FreshAccess] = NoSession
  BY DEF FreshAccess

LEMMA WriteSetOK == ASSUME IInv, NEW c \in Callers, WriteSet(c) PROVE IInv'
<1> DEFINE s == loc[c].sess
           n == IF loc[c].op = "create" THEN 0
                ELSE token[loc[c].old].generation + 1
           r == [loc[c] EXCEPT !.new = FreshToken]
<1> PICK t \in RefreshTokens : t = FreshToken /\ ~Minted(t)
  BY FreshTokenOK DEF WriteSet
<1>1. /\ loc[c] \in Locals /\ CallOK(pc[c], loc[c]) /\ s \in Sessions
      /\ pc[c] = "writeSet"
  BY Here DEF WriteSet
<1>2. n \in Nat
  BY <1>1 DEF IInv, TypeOK, StoreTypeOK, Records, NoRecord
<1>3. SessionOf(t) = NoSession /\ NoSession \notin Sessions
  BY ConstantsAssumption DEF Minted, NoRecord, SessionOf
<1>4. /\ token' = [token EXCEPT ![t] = [session |-> s, generation |-> n]]
      /\ rt' \in {rt, rt \cup {t}}
      /\ loc' = [loc EXCEPT ![c] = r] /\ pc' = [pc EXCEPT ![c] = "writeIndex"]
      /\ UNCHANGED <<consumed, grace, rtx, rtIndex, sessionKeys, accessKeys,
                     access, fr, history, bounds>>
  BY DEF WriteSet, Goto
<1>5. r \in Locals /\ r.new = t /\ r.sess = s /\ r.old = loc[c].old
      /\ r.op = loc[c].op
  BY <1>1 DEF Locals
<1> HIDE DEF r, n, s
<1>6. /\ \A u \in RefreshTokens :
            token'[u] = IF u = t THEN [session |-> s, generation |-> n]
                        ELSE token[u]
      /\ token' \in [RefreshTokens -> Records \cup {NoRecord}]
  BY <1>1, <1>2, <1>4 DEF IInv, TypeOK, StoreTypeOK, Records
<1>7. StoreTypeOK' /\ HistoryTypeOK'
  BY <1>4, <1>6 DEF IInv, TypeOK, StoreTypeOK, HistoryTypeOK, sessionKeys,
         accessKeys, history, bounds
<1>8. UNCHANGED <<grace, rtIndex, marker, at, atIndex, access, handedR,
                  handedA, ended>>
  BY <1>4 DEF sessionKeys, accessKeys, history
<1>9. Stable /\ t \notin handedR
  BY <1>3, <1>6, <1>8 DEF IInv, MintedOK, Stable
<1>10. handedR \cap rt' = handedR \cap rt
  BY <1>4, <1>9
<1>11. \A u \in handedR : SessionOf(u)' = SessionOf(u)
  BY <1>6, <1>9 DEF SessionOf, IInv, TypeOK, HistoryTypeOK
<1>12. Shrinks
  BY <1>8, <1>10, <1>11 DEF Shrinks, HandedRefresh, HandedAccess, LiveRefresh,
         LiveAccess
<1>13. MintedOK'
  BY <1>3, <1>6, <1>8, <1>11 DEF IInv, MintedOK, SessionOf, TypeOK,
         StoreTypeOK
<1>14. RefreshIndexed'
  BY <1>3, <1>6, <1>8, <1>10, <1>11, <1>13 DEF IInv, RefreshIndexed, SessionOf,
         MintedOK
<1>15. AccessIndexed'
  BY <1>8 DEF IInv, AccessIndexed
<1>16. Keeps /\ StoreFacts'
  BY <1>7, <1>8, <1>9, <1>12, <1>13, <1>14, <1>15 DEF Keeps, StoreFacts
<1> PICK q \in Locals : q = r
  BY <1>5
<1>17. CallOK("writeIndex", q)' /\ Ready("writeIndex", q)'
  BY <1>1, <1>3, <1>5, <1>6 DEF SessionOf, s
<1>18. /\ loc' = [loc EXCEPT ![c] = q] /\ "writeIndex" \in Labels
       /\ pc' = [pc EXCEPT ![c] = "writeIndex"] /\ UNCHANGED fr
  BY <1>4
<1> HIDE DEF CallOK, Ready, Labels
<1> QED BY <1>8, <1>16, <1>17, <1>18, StoreMove
LEMMA WriteIndexOK == ASSUME IInv, NEW c \in Callers, WriteIndex(c) PROVE IInv'
<1> DEFINE s == loc[c].sess
           t == loc[c].new
<1>1. PICK l \in {"createMeta", "setGrace", "setTombstone"} :
         /\ Goto(c, l)
         /\ l # "createMeta" => loc[c].op # "create"
  BY DEF WriteIndex
<1>2. /\ loc[c] \in Locals /\ CallOK("writeIndex", loc[c]) /\ s \in Sessions
      /\ t \in RefreshTokens /\ SessionOf(t) = s
  BY Here DEF WriteIndex
<1>3. /\ rtIndex' = [rtIndex EXCEPT ![s] = @ \cup {t}]
      /\ UNCHANGED <<rt, grace, marker, at, atIndex, token, access, handedR,
                     handedA, ended, fr, loc>>
  BY DEF WriteIndex, sessionKeys, accessKeys, minted, history
<1>4. StoreTypeOK' /\ HistoryTypeOK'
  BY <1>2 DEF WriteIndex, IInv, TypeOK, StoreTypeOK, HistoryTypeOK,
         sessionKeys, accessKeys, minted, history, bounds
<1>5. \A x \in Sessions : rtIndex[x] \subseteq rtIndex'[x]
  BY <1>3 DEF IInv, TypeOK, StoreTypeOK
<1>6. RefreshIndexed'
  BY <1>3, <1>5 DEF IInv, RefreshIndexed, MintedOK, SessionOf
<1>7. Keeps /\ StoreFacts'
  BY <1>3, <1>4, <1>5, <1>6 DEF IInv, Keeps, Stable, StoreFacts, MintedOK,
         AccessIndexed, Shrinks, SessionOf, HandedRefresh, HandedAccess,
         LiveRefresh, LiveAccess
<1>8. t \in rtIndex'[s]
  BY <1>2, <1>3 DEF IInv, TypeOK, StoreTypeOK
<1> PICK q \in Locals : q = loc[c]
  BY <1>2
<1>9. CallOK(l, q)' /\ Ready(l, q)' /\ l \in Labels
  BY <1>1, <1>2, <1>3, <1>8 DEF SessionOf
<1>10. loc' = [loc EXCEPT ![c] = q]
  BY <1>3 DEF IInv, TypeOK, CallerTypeOK
<1>11. pc' = [pc EXCEPT ![c] = l] /\ UNCHANGED <<fr, ended>>
  BY <1>1, <1>3 DEF Goto
<1> HIDE DEF CallOK, Ready, Labels
<1> QED BY <1>7, <1>9, <1>10, <1>11, StoreMove

\* What is the same for both engines: a fresh access token is live.
LEMMA MintOK ==
  ASSUME IInv, NEW c \in Callers, loc[c].sess \in Sessions,
         MintAccess(c, FreshAccess),
         \/ atIndex' = atIndex
         \/ atIndex' = [atIndex EXCEPT ![loc[c].sess] = @ \cup {FreshAccess}],
         UNCHANGED <<refreshKeys, sessionKeys, atid, token, fr, history,
                     bounds>>
  PROVE  /\ Keeps /\ StoreFacts' /\ FreshAccess \in AccessTokens
         /\ access' = [access EXCEPT ![FreshAccess] = loc[c].sess]
<1> DEFINE s == loc[c].sess
<1> PICK a \in AccessTokens : a = FreshAccess /\ access[a] = NoSession
  BY FreshAccessOK DEF MintAccess
<1>1. /\ access' = [access EXCEPT ![a] = s]
      /\ at' = at \cup {a}
      /\ \/ atIndex' = atIndex
         \/ atIndex' = [atIndex EXCEPT ![s] = @ \cup {a}]
      /\ UNCHANGED <<rt, grace, rtIndex, marker, token, handedR, handedA>>
  BY DEF MintAccess, refreshKeys, sessionKeys, history
<1>2. NoSession \notin Sessions
  BY ConstantsAssumption
<1>3. StoreTypeOK' /\ HistoryTypeOK'
  BY <1>1 DEF IInv, TypeOK, StoreTypeOK, HistoryTypeOK, refreshKeys,
         sessionKeys, history, bounds
<1>4. a \notin handedA
  BY <1>2 DEF IInv, MintedOK
<1>5. /\ \A b \in AccessTokens : b # a => access'[b] = access[b]
      /\ \A x \in Sessions : atIndex[x] \subseteq atIndex'[x]
  BY <1>1 DEF IInv, TypeOK, StoreTypeOK
<1>6. MintedOK' /\ RefreshIndexed'
  BY <1>1, <1>4, <1>5 DEF IInv, MintedOK, RefreshIndexed, SessionOf, TypeOK,
         HistoryTypeOK
<1>7. AccessIndexed'
  BY <1>1, <1>4, <1>5 DEF IInv, MintedOK, AccessIndexed, TypeOK, HistoryTypeOK
<1>8. Keeps
  BY <1>1, <1>2, <1>4, <1>5 DEF Keeps, Stable, Shrinks, HandedRefresh,
         HandedAccess, LiveRefresh, LiveAccess, SessionOf, IInv, TypeOK,
         HistoryTypeOK
<1> QED BY <1>1, <1>3, <1>6, <1>7, <1>8 DEF StoreFacts

LEMMA AccType ==
  ASSUME NEW r \in Locals, NEW a \in AccessTokens
  PROVE  LET q == [r EXCEPT !.acc = a]
         IN  /\ q \in Locals /\ q.acc = a
             /\ q.sess = r.sess /\ q.new = r.new /\ q.op = r.op
  BY DEF Locals

LEMMA IssueRecordOK ==
  ASSUME IInv, NEW c \in Callers, IssueRecord(c) PROVE IInv'
<1>1. /\ loc[c] \in Locals /\ loc[c].sess \in Sessions
      /\ CallOK("issue", loc[c]) /\ Ready("issue", loc[c])
  BY Here DEF IssueRecord
<1>2. UNCHANGED <<atIndex, rtIndex, marker, token, ended, fr>>
  BY DEF IssueRecord, accessKeys, refreshKeys, sessionKeys, history
<1>3. /\ Keeps /\ StoreFacts' /\ FreshAccess \in AccessTokens
      /\ access' = [access EXCEPT ![FreshAccess] = loc[c].sess]
  BY <1>1, MintOK DEF IssueRecord
<1> PICK a \in AccessTokens : a = FreshAccess
  BY <1>3
<1>4. PICK q \in Locals : q = [loc[c] EXCEPT !.acc = a]
  BY <1>1, AccType
<1>5. /\ q.acc = a /\ q.sess = loc[c].sess /\ q.new = loc[c].new
      /\ access'[a] = q.sess
  BY <1>1, <1>3, <1>4, AccType DEF IInv, TypeOK, StoreTypeOK
<1>6. CallOK("issueId", q)' /\ Ready("issueId", q)' /\ "issueId" \in Labels
  BY <1>1, <1>2, <1>5 DEF SessionOf
<1>7. /\ loc' = [loc EXCEPT ![c] = q] /\ pc' = [pc EXCEPT ![c] = "issueId"]
      /\ UNCHANGED <<fr, ended>>
  BY <1>2, <1>4 DEF IssueRecord, MintAccess, Goto
<1> HIDE DEF CallOK, Ready, Labels
<1> QED BY <1>3, <1>6, <1>7, StoreMove

LEMMA IssueSignedOK ==
  ASSUME IInv, NEW c \in Callers, IssueSigned(c) PROVE IInv'
<1>1. /\ loc[c] \in Locals /\ loc[c].sess \in Sessions
      /\ CallOK("issue", loc[c]) /\ Ready("issue", loc[c])
  BY Here DEF IssueSigned
<1>2. UNCHANGED <<rtIndex, marker, token, ended, fr>>
  BY DEF IssueSigned, refreshKeys, sessionKeys, history
<1>3. /\ Keeps /\ StoreFacts' /\ FreshAccess \in AccessTokens
      /\ access' = [access EXCEPT ![FreshAccess] = loc[c].sess]
  BY <1>1, MintOK DEF IssueSigned
<1> PICK a \in AccessTokens : a = FreshAccess
  BY <1>3
<1>4. PICK q \in Locals : q = [loc[c] EXCEPT !.acc = a]
  BY <1>1, AccType
<1>5. /\ q.acc = a /\ q.sess = loc[c].sess /\ q.new = loc[c].new
      /\ access'[a] = q.sess
  BY <1>1, <1>3, <1>4, AccType DEF IInv, TypeOK, StoreTypeOK
<1>6. a \in atIndex'[q.sess]
  BY <1>1, <1>5 DEF IssueSigned, IInv, TypeOK, StoreTypeOK
<1>7. /\ CallOK("postCheck", q)' /\ Ready("postCheck", q)'
      /\ "postCheck" \in Labels
  BY <1>1, <1>2, <1>5, <1>6 DEF SessionOf
<1>8. /\ loc' = [loc EXCEPT ![c] = q] /\ pc' = [pc EXCEPT ![c] = "postCheck"]
      /\ UNCHANGED <<fr, ended>>
  BY <1>2, <1>4 DEF IssueSigned, MintAccess, Goto
<1> HIDE DEF CallOK, Ready, Labels
<1> QED BY <1>3, <1>7, <1>8, StoreMove
LEMMA IssueIndexOK ==
  ASSUME IInv, NEW c \in Callers, IssueIndex(c) PROVE IInv'
<1> DEFINE s == loc[c].sess
           a == loc[c].acc
<1>1. /\ loc[c] \in Locals /\ CallOK("issueIndex", loc[c])
      /\ Ready("issueIndex", loc[c]) /\ s \in Sessions /\ a \in AccessTokens
  BY Here DEF IssueIndex
<1>2. /\ atIndex' = [atIndex EXCEPT ![s] = @ \cup {a}]
      /\ UNCHANGED <<rt, grace, rtIndex, marker, at, token, access, handedR,
                     handedA, ended, fr, loc>>
  BY DEF IssueIndex, refreshKeys, sessionKeys, minted, history
<1>3. StoreTypeOK' /\ HistoryTypeOK'
  BY <1>1 DEF IssueIndex, IInv, TypeOK, StoreTypeOK, HistoryTypeOK,
         refreshKeys, sessionKeys, minted, history, bounds
<1>4. (\A x \in Sessions : atIndex[x] \subseteq atIndex'[x]) /\ a \in atIndex'[s]
  BY <1>1, <1>2 DEF IInv, TypeOK, StoreTypeOK
<1>5. AccessIndexed'
  BY <1>2, <1>4 DEF IInv, AccessIndexed, MintedOK
<1>6. Keeps /\ StoreFacts'
  BY <1>2, <1>3, <1>4, <1>5 DEF IInv, Keeps, Stable, StoreFacts, MintedOK,
         RefreshIndexed, Shrinks, SessionOf, HandedRefresh, HandedAccess,
         LiveRefresh, LiveAccess
<1> PICK q \in Locals : q = loc[c]
  BY <1>1
<1>7. CallOK("postCheck", q)' /\ Ready("postCheck", q)' /\ "postCheck" \in Labels
  BY <1>1, <1>2, <1>4 DEF SessionOf
<1>8. loc' = [loc EXCEPT ![c] = q]
  BY <1>2 DEF IInv, TypeOK, CallerTypeOK
<1>9. pc' = [pc EXCEPT ![c] = "postCheck"] /\ UNCHANGED <<fr, ended>>
  BY <1>2 DEF IssueIndex, Goto
<1> HIDE DEF CallOK, Ready, Labels
<1> QED BY <1>6, <1>7, <1>8, <1>9, StoreMove

LEMMA SetGraceOK == ASSUME IInv, NEW c \in Callers, SetGrace(c) PROVE IInv'
<1> DEFINE s == loc[c].sess
           t == loc[c].old
           u == loc[c].new
<1>1. /\ loc[c] \in Locals /\ CallOK("setGrace", loc[c])
      /\ Ready("setGrace", loc[c]) /\ s \in Sessions
      /\ t \in RefreshTokens /\ SessionOf(t) = s
      /\ u \in RefreshTokens /\ SessionOf(u) = s
      /\ (s \notin marker => u \in rtIndex[s])
  BY Here DEF SetGrace
<1>2. /\ grace' = [grace EXCEPT ![t] = u]
      /\ UNCHANGED <<rt, rtIndex, marker, at, atIndex, token, access, handedR,
                     handedA, ended, fr, loc>>
  BY DEF SetGrace, sessionKeys, accessKeys, minted, history
<1>3. StoreTypeOK' /\ HistoryTypeOK'
  BY <1>1 DEF SetGrace, IInv, TypeOK, StoreTypeOK, HistoryTypeOK,
         sessionKeys, accessKeys, minted, history, bounds
<1>4. \A x \in RefreshTokens :
         x # t => grace'[x] = grace[x] /\ SessionOf(x)' = SessionOf(x)
  BY <1>2 DEF IInv, TypeOK, StoreTypeOK, SessionOf
<1>5. grace'[t] = u
  BY <1>1, <1>2 DEF IInv, TypeOK, StoreTypeOK
<1>6. MintedOK' /\ RefreshIndexed'
  BY <1>1, <1>2, <1>4, <1>5 DEF IInv, MintedOK, RefreshIndexed, SessionOf
<1>7. Keeps /\ StoreFacts'
  BY <1>2, <1>3, <1>6 DEF IInv, Keeps, Stable, StoreFacts, AccessIndexed,
         Shrinks, SessionOf, HandedRefresh, HandedAccess, LiveRefresh,
         LiveAccess
<1> PICK q \in Locals : q = loc[c]
  BY <1>1
<1>8. /\ CallOK("setTombstone", q)' /\ Ready("setTombstone", q)'
      /\ "setTombstone" \in Labels
  BY <1>1, <1>2 DEF SessionOf
<1>9. loc' = [loc EXCEPT ![c] = q]
  BY <1>2 DEF IInv, TypeOK, CallerTypeOK
<1>10. pc' = [pc EXCEPT ![c] = "setTombstone"] /\ UNCHANGED <<fr, ended>>
  BY <1>2 DEF SetGrace, Goto
<1> HIDE DEF CallOK, Ready, Labels
<1> QED BY <1>7, <1>8, <1>9, <1>10, StoreMove

\* Refresh records and grace mappings disappear.
LEMMA Fewer ==
  ASSUME IInv, rt' \subseteq rt,
         \A t \in RefreshTokens : grace'[t] \in {NoToken, grace[t]},
         UNCHANGED <<marker, rtIndex, at, atIndex, token, access, handedR,
                     handedA>>
  PROVE  Keeps /\ MintedOK' /\ RefreshIndexed' /\ AccessIndexed'
  BY DEF IInv, Keeps, Stable, MintedOK, RefreshIndexed, AccessIndexed,
         Shrinks, SessionOf, HandedRefresh, HandedAccess, LiveRefresh,
         LiveAccess

LEMMA DiscardOK == ASSUME IInv, NEW c \in Callers, Discard(c) PROVE IInv'
<1>1. StoreTypeOK' /\ HistoryTypeOK'
  BY DEF Discard, IInv, TypeOK, StoreTypeOK, HistoryTypeOK, sessionKeys,
         accessKeys, minted, history, bounds
<1>2. /\ rt' \subseteq rt
      /\ \A t \in RefreshTokens : grace'[t] \in {NoToken, grace[t]}
      /\ UNCHANGED <<marker, rtIndex, at, atIndex, token, access, handedR,
                     handedA, ended>>
  BY DEF Discard, IInv, TypeOK, StoreTypeOK, sessionKeys, accessKeys, minted,
         history
<1>3. Keeps /\ StoreFacts' /\ Return(c)
  BY <1>1, <1>2, Fewer DEF StoreFacts, Discard
<1> QED BY <1>2, <1>3, StoreReturn

LEMMA GraceLapsesOK ==
  ASSUME IInv, NEW t \in RefreshTokens, GraceLapses(t) PROVE IInv'
<1>1. StoreTypeOK' /\ HistoryTypeOK'
  BY DEF GraceLapses, IInv, TypeOK, StoreTypeOK, HistoryTypeOK, sessionKeys,
         accessKeys, minted, bounds
<1>2. /\ rt' \subseteq rt
      /\ \A u \in RefreshTokens : grace'[u] \in {NoToken, grace[u]}
      /\ UNCHANGED <<marker, rtIndex, at, atIndex, token, access, handedR,
                     handedA, pc, loc, fr, ended>>
  BY DEF GraceLapses, IInv, TypeOK, StoreTypeOK, sessionKeys, accessKeys,
         minted
<1>3. Keeps /\ StoreFacts'
  BY <1>1, <1>2, Fewer DEF StoreFacts
<1> QED BY <1>2, <1>3, StoreStay

LEMMA FamilyAgesOK ==
  ASSUME IInv, NEW s \in Sessions, FamilyAges(s) PROVE IInv'
<1>1. StoreTypeOK' /\ HistoryTypeOK'
  BY DEF FamilyAges, IInv, TypeOK, StoreTypeOK, HistoryTypeOK, accessKeys,
         minted, history
<1>2. /\ rt' \subseteq rt
      /\ \A u \in RefreshTokens : grace'[u] \in {NoToken, grace[u]}
      /\ UNCHANGED <<marker, rtIndex, at, atIndex, token, access, handedR,
                     handedA, pc, loc, fr, ended>>
  BY DEF FamilyAges, accessKeys, minted, history
<1>3. Keeps /\ StoreFacts'
  BY <1>1, <1>2, Fewer DEF StoreFacts
<1> QED BY <1>2, <1>3, StoreStay
LEMMA TakeOK == ASSUME IInv, NEW c \in Callers, Take(c) PROVE IInv'
<1>1. /\ loc[c] \in Locals /\ CallOK("take", loc[c])
      /\ loc[c].sess \in Sessions
  BY Here DEF Take
<1>2. StoreTypeOK' /\ HistoryTypeOK'
  BY DEF Take, IInv, TypeOK, StoreTypeOK, HistoryTypeOK, sessionKeys,
         accessKeys, minted, history, bounds
<1>3. /\ rt' \subseteq rt
      /\ \A t \in RefreshTokens : grace'[t] \in {NoToken, grace[t]}
      /\ UNCHANGED <<marker, rtIndex, at, atIndex, token, access, handedR,
                     handedA, ended>>
  BY DEF Take, sessionKeys, accessKeys, minted, history
<1>4. Keeps /\ StoreFacts'
  BY <1>2, <1>3, Fewer DEF StoreFacts
<1>5. CASE Return(c)
  BY <1>3, <1>4, <1>5, StoreReturn
<1>6. CASE /\ Goto(c, "entryCheck") /\ UNCHANGED fr
           /\ loc' = [loc EXCEPT ![c].op = "rotate"]
  <2>1. PICK q \in Locals : q = [loc[c] EXCEPT !.op = "rotate"]
    BY <1>1 DEF Locals, Ops
  <2>2. q.sess = loc[c].sess /\ q.old = loc[c].old
    BY <1>1, <2>1 DEF Locals
  <2>3. /\ CallOK("entryCheck", q)' /\ Ready("entryCheck", q)'
        /\ "entryCheck" \in Labels
    BY <1>1, <1>3, <2>2 DEF SessionOf
  <2>4. /\ loc' = [loc EXCEPT ![c] = q] /\ UNCHANGED <<fr, ended>>
        /\ pc' = [pc EXCEPT ![c] = "entryCheck"]
    BY <1>3, <1>6, <2>1 DEF Goto
  <2> HIDE DEF CallOK, Ready, Labels
  <2> QED BY <1>4, <2>3, <2>4, StoreMove
<1>7. CASE Goto(c, "awaitTombstone") /\ UNCHANGED <<rt, loc, fr>>
  <2>1. UNCHANGED core
    BY <1>7 DEF Take, core, sessionKeys, accessKeys, minted, history
  <2> QED BY <1>1, <1>2, <1>7, <2>1, GotoMove
<1> QED BY <1>5, <1>6, <1>7 DEF Take

\* The tokens handed out are the ones in the indexes of an unrevoked session.
LEMMA PostCheckOK == ASSUME IInv, NEW c \in Callers, PostCheck(c) PROVE IInv'
<1> DEFINE s == loc[c].sess
           t == loc[c].new
           a == loc[c].acc
<1>1. /\ loc[c] \in Locals /\ s \in Sessions
      /\ t \in RefreshTokens /\ SessionOf(t) = s
      /\ a \in AccessTokens /\ access[a] = s
      /\ (s \notin marker => t \in rtIndex[s] /\ a \in atIndex[s])
      /\ CallOK("postCheck", loc[c]) /\ Ready("postCheck", loc[c])
  BY Here DEF PostCheck
<1>2. UNCHANGED <<rt, grace, rtIndex, marker, at, atIndex, token, access,
                  ended>>
  BY DEF PostCheck, refreshKeys, sessionKeys, accessKeys, minted
<1>3. StoreTypeOK' /\ HistoryTypeOK'
  BY <1>1 DEF PostCheck, IInv, TypeOK, StoreTypeOK, HistoryTypeOK,
         refreshKeys, sessionKeys, accessKeys, minted, bounds
<1>4. CASE s \in marker
  <2>1. Goto(c, "undoLookup") /\ UNCHANGED <<loc, fr, handedR, handedA>>
    BY <1>4 DEF PostCheck
  <2>2. UNCHANGED core
    BY <1>2, <2>1 DEF core
  <2> QED BY <1>1, <1>3, <1>4, <2>1, <2>2, GotoMove
<1>5. CASE s \notin marker
  <2>1. /\ handedR' = handedR \cup {t} /\ handedA' = handedA \cup {a}
        /\ Return(c)
    BY <1>5 DEF PostCheck
  <2>2. MintedOK'
    BY <1>1, <1>2, <2>1 DEF IInv, MintedOK, SessionOf
  <2>3. RefreshIndexed' /\ AccessIndexed'
    BY <1>1, <1>2, <1>5, <2>1 DEF IInv, RefreshIndexed, AccessIndexed,
                                  SessionOf
  <2>4. Shrinks
    BY <1>1, <1>2, <1>5, <2>1 DEF Shrinks, HandedRefresh, HandedAccess,
                                  LiveRefresh, LiveAccess, SessionOf
  <2>5. Keeps /\ StoreFacts'
    BY <1>2, <1>3, <2>2, <2>3, <2>4 DEF Keeps, Stable, StoreFacts
  <2> QED BY <1>2, <2>1, <2>5, StoreReturn
<1> QED BY <1>4, <1>5

-----------------------------------------------------------------------------
(***************************************************************************)
(* Undoing an issuance.                                                    *)
(***************************************************************************)
LEMMA StoreEnter ==
  ASSUME IInv, Keeps, StoreFacts', UNCHANGED ended,
         NEW c \in Callers, NEW s \in Sessions, NEW o \in Ops, o # "reuse",
         EnterFamily(c, s, o)
  PROVE  IInv'
<1>1. CallerTypeOK' /\ CallsOK' /\ FrameTypeOK'
  BY EnterOK DEF IInv, TypeOK, Keeps
<1>2. ASSUME NEW d \in Callers
      PROVE  Ready(pc[d], loc[d])'
  <2>1. CASE pc'[d] = "awaitFamily"
    BY <2>1
  <2>2. CASE pc'[d] = pc[d] /\ loc'[d] = loc[d]
    <3> DEFINE k == pc[d]
               q == loc[d]
    <3>1. CallOK(k, q) /\ Ready(k, q) /\ k = pc'[d] /\ q = loc'[d]
      BY <2>2, Here
    <3> QED BY <3>1 DEF Keeps, Shrinks
  <2> QED BY <2>1, <2>2 DEF IInv, TypeOK, CallerTypeOK, EnterFamily, Goto
<1>3. CallsReady'
  BY <1>2 DEF CallsReady
<1>4. \A d \in Callers, x \in Sessions :
         fr'[d][x] = fr[d][x] \/ fr'[d][x].pc \in {"none", "marker", "failed"}
  BY DEF EnterFamily, SetFrame, NoFrame, IInv, TypeOK, FrameTypeOK
<1>5. FramesOK' /\ (ended \subseteq marker)' /\ EndedSessionsAreDead'
  BY <1>4, SafeStill DEF IInv, Keeps
<1> QED BY <1>1, <1>3, <1>5 DEF IInv, TypeOK, StoreFacts

LEMMA StoreAfterUndo ==
  ASSUME IInv, Keeps, StoreFacts', UNCHANGED ended,
         NEW c \in Callers, pc[c] \in Undoing, AfterUndo(c)
  PROVE  IInv'
<1>1. loc[c] \in Locals /\ loc[c].sess \in Sessions
  BY Here
<1>2. CASE EnterFamily(c, loc[c].sess, "create")
  BY <1>1, <1>2, StoreEnter DEF Ops
<1>3. CASE Goto(c, "discard") /\ UNCHANGED <<loc, fr>>
  <2> PICK q \in Locals : q = loc[c]
    BY <1>1
  <2>1. CallOK("discard", q)' /\ Ready("discard", q)' /\ "discard" \in Labels
    BY <1>1
  <2>2. /\ loc' = [loc EXCEPT ![c] = q] /\ UNCHANGED <<fr, ended>>
        /\ pc' = [pc EXCEPT ![c] = "discard"]
    BY <1>3 DEF IInv, TypeOK, CallerTypeOK, Goto
  <2> HIDE DEF CallOK, Ready, Labels
  <2> QED BY <2>1, <2>2, StoreMove
<1> QED BY <1>2, <1>3 DEF AfterUndo

\* An access token dies.
LEMMA FewerAccess ==
  ASSUME IInv, at' \subseteq at,
         UNCHANGED <<rt, grace, marker, rtIndex, atIndex, token, access,
                     handedR, handedA>>
  PROVE  Keeps /\ MintedOK' /\ RefreshIndexed' /\ AccessIndexed'
  BY DEF IInv, Keeps, Stable, MintedOK, RefreshIndexed, AccessIndexed,
         Shrinks, SessionOf, HandedRefresh, HandedAccess, LiveRefresh,
         LiveAccess

LEMMA UndoDeleteOK ==
  ASSUME IInv, NEW c \in Callers, UndoDelete(c) PROVE IInv'
<1>1. /\ loc[c] \in Locals /\ CallOK("undoDelete", loc[c])
      /\ Ready("undoDelete", loc[c])
  BY Here DEF UndoDelete
<1>2. StoreTypeOK' /\ HistoryTypeOK'
  BY DEF UndoDelete, IInv, TypeOK, StoreTypeOK, HistoryTypeOK, refreshKeys,
         sessionKeys, minted, history, bounds
<1>3. /\ at' = at \ {loc[c].acc}
      /\ UNCHANGED <<rt, grace, marker, rtIndex, atIndex, token, access,
                     handedR, handedA, ended>>
  BY DEF UndoDelete, refreshKeys, sessionKeys, minted, history
<1>4. Keeps /\ StoreFacts'
  BY <1>2, <1>3, FewerAccess DEF StoreFacts
<1>5. CASE Goto(c, "undoUnindex") /\ UNCHANGED <<loc, fr>>
  <2> PICK q \in Locals : q = loc[c]
    BY <1>1
  <2>1. /\ CallOK("undoUnindex", q)' /\ Ready("undoUnindex", q)'
        /\ "undoUnindex" \in Labels
    BY <1>1, <1>3
  <2>2. /\ loc' = [loc EXCEPT ![c] = q] /\ UNCHANGED <<fr, ended>>
        /\ pc' = [pc EXCEPT ![c] = "undoUnindex"]
    BY <1>3, <1>5 DEF IInv, TypeOK, CallerTypeOK, Goto
  <2> HIDE DEF CallOK, Ready, Labels
  <2> QED BY <1>4, <2>1, <2>2, StoreMove
<1>6. CASE AfterUndo(c)
  BY <1>3, <1>4, <1>6, StoreAfterUndo DEF UndoDelete
<1> QED BY <1>5, <1>6 DEF UndoDelete

LEMMA UndoDenyOK == ASSUME IInv, NEW c \in Callers, UndoDeny(c) PROVE IInv'
<1>1. StoreTypeOK' /\ HistoryTypeOK'
  BY DEF UndoDeny, IInv, TypeOK, StoreTypeOK, HistoryTypeOK, refreshKeys,
         sessionKeys, minted, history, bounds
<1>2. /\ at' = at \ {loc[c].acc}
      /\ UNCHANGED <<rt, grace, marker, rtIndex, atIndex, token, access,
                     handedR, handedA, ended>>
  BY DEF UndoDeny, refreshKeys, sessionKeys, minted, history
<1>3. Keeps /\ StoreFacts'
  BY <1>1, <1>2, FewerAccess DEF StoreFacts
<1> QED BY <1>2, <1>3, StoreAfterUndo DEF UndoDeny

LEMMA UndoUnindexOK ==
  ASSUME IInv, NEW c \in Callers, UndoUnindex(c) PROVE IInv'
<1> DEFINE s == loc[c].sess
           a == loc[c].acc
<1>1. s \in Sessions /\ s \in marker /\ a \notin at
  BY Here DEF UndoUnindex
<1>2. StoreTypeOK' /\ HistoryTypeOK'
  BY DEF UndoUnindex, IInv, TypeOK, StoreTypeOK, HistoryTypeOK, refreshKeys,
         sessionKeys, minted, history, bounds
<1>3. /\ atIndex' = [atIndex EXCEPT ![s] = @ \ {a}]
      /\ UNCHANGED <<rt, grace, marker, rtIndex, at, token, access,
                     handedR, handedA, ended>>
  BY DEF UndoUnindex, refreshKeys, sessionKeys, minted, history
<1>4. /\ \A x \in Sessions : x # s => atIndex'[x] = atIndex[x]
      /\ \A x \in Sessions : atIndex[x] \ {a} \subseteq atIndex'[x]
  BY <1>3 DEF IInv, TypeOK, StoreTypeOK
<1>5. AccessIndexed'
  BY <1>1, <1>3, <1>4 DEF IInv, AccessIndexed, MintedOK
<1>6. Keeps /\ StoreFacts'
  BY <1>1, <1>2, <1>3, <1>4, <1>5 DEF IInv, Keeps, Stable, StoreFacts,
         MintedOK, RefreshIndexed, Shrinks, SessionOf, HandedRefresh,
         HandedAccess, LiveRefresh, LiveAccess
<1> QED BY <1>3, <1>6, StoreAfterUndo DEF UndoUnindex
-----------------------------------------------------------------------------
(***************************************************************************)
(* The theorems.                                                           *)
(***************************************************************************)
LEMMA InitOK == Init => IInv
<1> SUFFICES ASSUME Init PROVE IInv
  OBVIOUS
<1>1. TypeOK
  BY NoLocalsType, NoFramesType, ConstantsAssumption
     DEF Init, TypeOK, StoreTypeOK, CallerTypeOK, FrameTypeOK, HistoryTypeOK
<1>2. CallsOK /\ CallsReady
  BY DEF Init, CallsOK, CallsReady
<1>3. MintedOK /\ RefreshIndexed /\ AccessIndexed
  BY DEF Init, MintedOK, RefreshIndexed, AccessIndexed
<1>4. FramesOK /\ ended \subseteq marker /\ EndedSessionsAreDead
  BY DEF Init, FramesOK, NoFrames, NoFrame, Enumerated, AfterWipe, AfterKill,
         EndedSessionsAreDead
<1> QED BY <1>1, <1>2, <1>3, <1>4 DEF IInv

LEMMA CallerStepOK ==
  ASSUME IInv, NEW c \in Callers, CallStep(c) \/ CallerStep(c) \/ Fail(c)
  PROVE  IInv'
<1>1. CASE CallStep(c)
  BY <1>1, CallCreateOK, CallRefreshOK, CallRevokeOK, CallRevokeAllOK,
     CallListOK DEF CallStep
<1>2. CASE CallerStep(c)
  BY <1>2, WriteSetOK, WriteIndexOK, CreateMetaOK, CreateUserOK, PeekOK,
     TakeOK, EntryCheckOK, SetGraceOK, SetTombstoneOK, MidCheckOK, TouchGetOK,
     TouchSetOK, DiscardOK, AwaitTombstoneOK, RevokedCheckOK, BackoffOK,
     GraceGetOK, AdoptCheckOK, IssueRecordOK, IssueIdOK, IssueIndexOK,
     IssueSignedOK, PostCheckOK, UndoLookupOK, UndoReadOK, UndoDeleteOK,
     UndoUnindexOK, UndoDenyOK, FamilyEndedOK, AllReadOK, AllRemoveOK,
     ListReadOK, ListMetaOK, ListPruneOK
     DEF CallerStep
<1>3. CASE Fail(c)
  BY <1>3, FailOK
<1> QED BY <1>1, <1>2, <1>3

LEMMA FamStepOK ==
  ASSUME IInv, NEW c \in Callers, NEW s \in Sessions,
         FamStep(c, s) \/ FamFail(c, s)
  PROVE  IInv'
  BY FamMarkerOK, FamMetaOK, FamEnumerateOK, FamMarkEachOK, FamWipeOK,
     FamDropOK, FamTokensOK, FamDeleteOK, FamDenyOK, FamDropTokensOK,
     FamUnlistOK, FamFailOK DEF FamStep

LEMMA StutterOK == ASSUME IInv, UNCHANGED vars PROVE IInv'
<1>1. UNCHANGED core /\ StoreTypeOK' /\ HistoryTypeOK' /\ UNCHANGED <<pc, loc, fr>>
  BY DEF vars, IInv, TypeOK, StoreTypeOK, HistoryTypeOK, core, refreshKeys,
         sessionKeys, accessKeys, minted, history, bounds
<1>2. Keeps /\ StoreFacts'
  BY <1>1, StoreCalm DEF StoreFacts, core
<1> QED BY <1>1, <1>2, StoreStay DEF core

\* The invariant holds of every reachable state, for any callers, sessions
\* and tokens, however calls, revocations, store failures and lapses of time
\* interleave, and with either engine.
THEOREM Invariance == Spec => []IInv
<1>1. ASSUME IInv, [Next]_vars
      PROVE  IInv'
  <2>1. CASE \E c \in Callers : CallStep(c) \/ CallerStep(c) \/ Fail(c)
    BY <1>1, <2>1, CallerStepOK
  <2>2. CASE \E c \in Callers, s \in Sessions : FamStep(c, s) \/ FamFail(c, s)
    BY <1>1, <2>2, FamStepOK
  <2>3. CASE \E t \in RefreshTokens : GraceLapses(t)
    BY <1>1, <2>3, GraceLapsesOK
  <2>4. CASE \E s \in Sessions : FamilyAges(s)
    BY <1>1, <2>4, FamilyAgesOK
  <2>5. CASE Quiet \/ UNCHANGED vars
    BY <1>1, <2>5, StutterOK DEF Quiet
  <2> QED BY <1>1, <2>1, <2>2, <2>3, <2>4, <2>5 DEF Next
<1> QED BY InitOK, <1>1, PTL DEF Spec

\* Every variable keeps its type.
THEOREM TypeCorrect == Spec => []TypeOK
<1>1. IInv => TypeOK
  BY DEF IInv
<1> QED BY Invariance, <1>1, PTL

\* Revocation is final: once revokeFamily has completed for a session, no
\* token that any caller was ever handed for it works, now or later.
THEOREM RevocationIsFinal == Spec => []EndedSessionsAreDead
<1>1. IInv => EndedSessionsAreDead
  BY DEF IInv
<1> QED BY Invariance, <1>1, PTL

-----------------------------------------------------------------------------
(***************************************************************************)
(* Rotation is a chain: a family has at most one live refresh record, and  *)
(* no generation of it is minted twice.  The argument is that the head of  *)
(* a family's chain is in one place: in the store as the one live record,  *)
(* or with the one call that took it and is about to write its successor,  *)
(* or lost.                                                                *)
(***************************************************************************)

\* A call between take(), or the choice of a session id, and the record it
\* will write.
Taking(c) == pc[c] \in {"entryCheck", "writeSet"}

Newest(t) ==
    \A u \in RefreshTokens :
        SessionOf(u) = SessionOf(t) => token[u].generation <= token[t].generation

\* What such a call holds is nowhere else: the newest token of its family, or
\* a session id that no token carries.
HoldsHead(c) ==
    /\ pc[c] = "entryCheck" => loc[c].op # "create"
    /\ Taking(c) =>
         IF loc[c].op = "create"
           THEN \A t \in RefreshTokens : SessionOf(t) # loc[c].sess
           ELSE loc[c].old \notin rt /\ Newest(loc[c].old)

Linear ==
    /\ RotationIsLinear
    /\ \A t \in rt : Minted(t) /\ Newest(t)
    /\ \A c \in Callers : HoldsHead(c)
    /\ \A c, d \in Callers : Taking(c) /\ Taking(d) /\ loc[c].sess = loc[d].sess => c = d

\* Two newest tokens of a family are the same token.
LEMMA OneNewest ==
  ASSUME StoreTypeOK, RotationIsLinear, NEW t \in RefreshTokens, NEW u \in RefreshTokens,
         Minted(t), Minted(u), Newest(t), Newest(u), SessionOf(t) = SessionOf(u)
  PROVE  t = u
<1>1. token[t] \in Records /\ token[u] \in Records
  BY DEF StoreTypeOK, Minted
<1>2. token[t].generation \in Nat /\ token[u].generation \in Nat
      /\ token[t].generation <= token[u].generation
      /\ token[u].generation <= token[t].generation
  BY <1>1 DEF Newest, Records
<1>3. token[t].generation = token[u].generation
  BY <1>2
<1>4. token[t] = token[u]
  BY <1>1, <1>3 DEF Records, SessionOf
<1> QED BY <1>4 DEF RotationIsLinear

LEMMA MintedSession ==
  ASSUME StoreTypeOK, NEW t \in RefreshTokens
  PROVE  Minted(t) <=> SessionOf(t) \in Sessions
  BY ConstantsAssumption DEF StoreTypeOK, Minted, SessionOf, Records, NoRecord

-----------------------------------------------------------------------------
(***************************************************************************)
(* Steps that neither take a record nor write one.                         *)
(***************************************************************************)
Untaken ==
    /\ token' = token
    /\ rt' \subseteq rt
    /\ \A c \in Callers : Taking(c)' => /\ Taking(c) /\ loc'[c] = loc[c]
                                        /\ pc'[c] = "entryCheck" => pc[c] = "entryCheck"

LEMMA StillLinear ==
  ASSUME Linear, Untaken
  PROVE  Linear'
<1>1. RotationIsLinear' /\ \A t \in rt' : Minted(t)' /\ Newest(t)'
  BY DEF Linear, Untaken, RotationIsLinear, Minted, Newest, SessionOf
<1>2. \A c \in Callers : HoldsHead(c)'
  BY DEF Linear, Untaken, HoldsHead, Taking, Newest, SessionOf
<1>3. \A c, d \in Callers : (Taking(c) /\ Taking(d) /\ loc[c].sess = loc[d].sess)' => c = d
  BY DEF Linear, Untaken
<1> QED BY <1>1, <1>2, <1>3 DEF Linear

\* The caller moves on to a label that holds no head.
LEMMA MovedAway ==
  ASSUME CallerTypeOK, NEW c \in Callers, token' = token, rt' \subseteq rt,
         NEW l, l \notin {"entryCheck", "writeSet"}, Goto(c, l),
         \A d \in Callers \ {c} : loc'[d] = loc[d]
  PROVE  Untaken
<1>1. pc'[c] = l /\ \A d \in Callers \ {c} : pc'[d] = pc[d] /\ loc'[d] = loc[d]
  BY DEF Goto, CallerTypeOK
<1> QED BY <1>1 DEF Untaken, Taking

LEMMA Returned ==
  ASSUME CallerTypeOK, NEW c \in Callers, token' = token, rt' \subseteq rt, Return(c)
  PROVE  Untaken
<1>1. Goto(c, "idle") /\ \A d \in Callers \ {c} : loc'[d] = loc[d]
  BY DEF Return, CallerTypeOK
<1> QED BY <1>1, MovedAway

LEMMA Entered ==
  ASSUME CallerTypeOK, NEW c \in Callers, token' = token, rt' \subseteq rt,
         NEW s, NEW o, EnterFamily(c, s, o)
  PROVE  Untaken
<1>1. Goto(c, "awaitFamily") /\ \A d \in Callers \ {c} : loc'[d] = loc[d]
  BY DEF EnterFamily, CallerTypeOK
<1> QED BY <1>1, MovedAway

LEMMA Resting ==
  ASSUME token' = token, rt' \subseteq rt, UNCHANGED <<pc, loc>>
  PROVE  Untaken
  BY DEF Untaken, Taking

\* The steps of a call that read, and those that write other keys.
LEMMA CallUntaken ==
  ASSUME CallerTypeOK, NEW c \in Callers,
         CallRefresh(c) \/ CallRevoke(c) \/ CallRevokeAll(c) \/ CallList(c)
  PROVE  Untaken
<1>1. token' = token /\ rt' = rt
  BY DEF CallRefresh, CallRevoke, CallRevokeAll, CallList, Call, refreshKeys, minted
<1>2. CASE CallRevoke(c)
  BY <1>1, <1>2, Entered DEF CallRevoke
<1>3. CASE CallRefresh(c)
  <2>1. Goto(c, "peek") /\ \A d \in Callers \ {c} : loc'[d] = loc[d]
    BY ZenonT(60), <1>3 DEF CallRefresh, Call, CallerTypeOK
  <2> QED BY <1>1, <2>1, MovedAway
<1>4. CASE CallRevokeAll(c)
  <2>1. Goto(c, "allRead") /\ \A d \in Callers \ {c} : loc'[d] = loc[d]
    BY <1>4 DEF CallRevokeAll, Call, CallerTypeOK
  <2> QED BY <1>1, <2>1, MovedAway
<1>5. CASE CallList(c)
  <2>1. Goto(c, "listRead") /\ \A d \in Callers \ {c} : loc'[d] = loc[d]
    BY <1>5 DEF CallList, Call, CallerTypeOK
  <2> QED BY <1>1, <2>1, MovedAway
<1> QED BY <1>2, <1>3, <1>4, <1>5

LEMMA WriteUntaken ==
  ASSUME CallerTypeOK, NEW c \in Callers,
         \/ WriteIndex(c) \/ CreateMeta(c) \/ CreateUser(c) \/ SetGrace(c)
         \/ SetTombstone(c) \/ MidCheck(c) \/ TouchGet(c) \/ TouchSet(c)
         \/ IssueId(c) \/ IssueIndex(c)
  PROVE  Untaken
<1>1. token' = token /\ rt' = rt /\ loc' = loc
  BY DEF WriteIndex, CreateMeta, CreateUser, SetGrace, SetTombstone, MidCheck, TouchGet,
         TouchSet, IssueId, IssueIndex, refreshKeys, minted
<1>2. \E l \in {"createMeta", "setGrace", "setTombstone", "createUser", "issue", "midCheck",
                "discard", "touchGet", "touchSet", "issueIndex", "postCheck"} : Goto(c, l)
  BY DEF WriteIndex, CreateMeta, CreateUser, SetGrace, SetTombstone, MidCheck, TouchGet,
         TouchSet, IssueId, IssueIndex
<1> QED BY <1>1, <1>2, MovedAway

LEMMA IssueUntaken ==
  ASSUME CallerTypeOK, NEW c \in Callers,
         IssueRecord(c) \/ IssueSigned(c) \/ UndoRead(c)
  PROVE  Untaken
<1>1. /\ token' = token /\ rt' = rt
      /\ \A d \in Callers \ {c} : loc'[d] = loc[d]
  BY DEF IssueRecord, IssueSigned, UndoRead, MintAccess, refreshKeys, minted, CallerTypeOK
<1>2. Goto(c, "issueId") \/ Goto(c, "postCheck") \/ Goto(c, "undoDelete")
  BY DEF IssueRecord, IssueSigned, UndoRead
<1> QED BY <1>1, <1>2, MovedAway

LEMMA UndoUntaken ==
  ASSUME CallerTypeOK, NEW c \in Callers,
         UndoLookup(c) \/ UndoDelete(c) \/ UndoUnindex(c) \/ UndoDeny(c)
  PROVE  Untaken
<1>1. token' = token /\ rt' = rt
  BY DEF UndoLookup, UndoDelete, UndoUnindex, UndoDeny, refreshKeys, minted
<1>2. \/ AfterUndo(c)
      \/ (Goto(c, "undoRead") \/ Goto(c, "undoUnindex")) /\ UNCHANGED <<loc, fr>>
  BY DEF UndoLookup, UndoDelete, UndoUnindex, UndoDeny
<1>3. CASE AfterUndo(c)
  <2>1. CASE EnterFamily(c, loc[c].sess, "create")
    BY <1>1, <2>1, Entered
  <2>2. CASE Goto(c, "discard") /\ UNCHANGED <<loc, fr>>
    BY <1>1, <2>2, MovedAway
  <2> QED BY <1>3, <2>1, <2>2 DEF AfterUndo
<1>4. CASE (Goto(c, "undoRead") \/ Goto(c, "undoUnindex")) /\ UNCHANGED <<loc, fr>>
  BY <1>1, <1>4, MovedAway
<1> QED BY <1>2, <1>3, <1>4

LEMMA ResolveUntaken ==
  ASSUME CallerTypeOK, NEW c \in Callers,
         \/ Peek(c) \/ AwaitTombstone(c) \/ RevokedCheck(c) \/ Backoff(c)
         \/ GraceGet(c) \/ AdoptCheck(c) \/ PostCheck(c) \/ Discard(c)
  PROVE  Untaken
<1>1. token' = token /\ rt' \subseteq rt
  BY DEF Peek, AwaitTombstone, RevokedCheck, Backoff, GraceGet, AdoptCheck, PostCheck,
         Discard, refreshKeys, minted
<1>2. CASE Return(c)
  BY <1>1, <1>2, Returned
<1>3. CASE EnterFamily(c, loc[c].sess, "reuse")
  BY <1>1, <1>3, Entered
<1>4. CASE \E l \in {"take", "graceGet", "revokedCheck", "backoff", "issue", "undoLookup"} :
              Goto(c, l) /\ loc' = loc
  BY <1>1, <1>4, MovedAway
<1>5. CASE Goto(c, "adoptCheck")
           /\ loc' = [loc EXCEPT ![c].op = "adopt", ![c].new = grace[loc[c].old]]
  <2>1. \A d \in Callers \ {c} : loc'[d] = loc[d]
    BY <1>5 DEF CallerTypeOK
  <2> QED BY <1>1, <1>5, <2>1, MovedAway
<1>6. CASE pc[c] = "backoff" /\ loc' = [loc EXCEPT ![c].tries = @ + 1] /\ UNCHANGED <<pc, fr>>
  <2>1. \A d \in Callers \ {c} : loc'[d] = loc[d]
    BY <1>6 DEF CallerTypeOK
  <2> QED BY <1>1, <1>6, <2>1 DEF Untaken, Taking
<1> QED BY <1>2, <1>3, <1>4, <1>5, <1>6 DEF Peek, AwaitTombstone, FoundTombstone,
           RevokedCheck, Backoff, GraceGet, AdoptCheck, PostCheck, Discard

LEMMA ListUntaken ==
  ASSUME CallerTypeOK, NEW c \in Callers,
         \/ FamilyEnded(c) \/ AllRead(c) \/ AllRemove(c)
         \/ ListRead(c) \/ ListMeta(c) \/ ListPrune(c) \/ Fail(c)
  PROVE  Untaken
<1>1. token' = token /\ rt' = rt
  BY DEF FamilyEnded, AllRead, AllRemove, ListRead, ListMeta, ListPrune, Fail,
         refreshKeys, minted
<1>2. CASE Return(c)
  BY <1>1, <1>2, Returned
<1>3. CASE ~Return(c)
  <2>1. \A d \in Callers \ {c} : loc'[d] = loc[d]
    BY <1>3 DEF FamilyEnded, AllRead, AllRemove, ListRead, ListMeta, ListPrune, Fail,
           CallerTypeOK
  <2>2. \/ Goto(c, "awaitAll") \/ Goto(c, "listMeta") \/ Goto(c, "listPrune")
        \/ pc[c] = "listMeta" /\ pc' = pc
    BY <1>3 DEF FamilyEnded, AllRead, AllRemove, ListRead, ListMeta, ListPrune, Fail
  <2>3. CASE pc[c] = "listMeta" /\ pc' = pc
    BY <1>1, <2>1, <2>3 DEF Untaken, Taking
  <2> QED BY <1>1, <2>1, <2>2, <2>3, MovedAway
<1> QED BY <1>2, <1>3

LEMMA FamilyUntaken ==
  ASSUME NEW c \in Callers, NEW s \in Sessions, FamStep(c, s) \/ FamFail(c, s)
  PROVE  Untaken
<1>1. token' = token /\ rt' \subseteq rt /\ UNCHANGED <<pc, loc>>
  BY Zenon DEF FamStep, FamFail, FamMarker, FamMeta, FamEnumerate, FamMarkEach, FamWipe, FamDrop,
         FamTokens, FamDelete, FamDeny, FamDropTokens, FamUnlist, refreshKeys, minted
<1> QED BY <1>1, Resting

LEMMA TimeUntaken ==
  ASSUME \/ \E t \in RefreshTokens : GraceLapses(t)
         \/ \E s \in Sessions : FamilyAges(s)
         \/ Quiet \/ UNCHANGED vars
  PROVE  Untaken
<1>1. token' = token /\ rt' \subseteq rt /\ UNCHANGED <<pc, loc>>
  BY DEF GraceLapses, FamilyAges, Quiet, vars, refreshKeys, minted
<1> QED BY <1>1, Resting

-----------------------------------------------------------------------------
(***************************************************************************)
(* The steps that hand the head of a chain on.                             *)
(***************************************************************************)
LEMMA CreateLinear ==
  ASSUME IInv, Linear, NEW c \in Callers, CallCreate(c)
  PROVE  Linear'
<1>1. PICK s \in Sessions :
        /\ FreshSession(s)
        /\ Call(c, "writeSet", [NoLocals EXCEPT !.op = "create", !.sess = s, !.proof = TRUE])
  BY DEF CallCreate
<1>2. /\ pc'[c] = "writeSet" /\ loc'[c].op = "create" /\ loc'[c].sess = s
      /\ \A d \in Callers \ {c} : pc'[d] = pc[d] /\ loc'[d] = loc[d]
      /\ token' = token /\ rt' = rt
  BY <1>1 DEF Call, Goto, NoLocals, IInv, TypeOK, CallerTypeOK, minted, refreshKeys
<1>3. RotationIsLinear' /\ \A t \in rt' : Minted(t)' /\ Newest(t)'
  BY <1>2 DEF Linear, RotationIsLinear, Minted, Newest, SessionOf
<1>4. \A d \in Callers : HoldsHead(d)'
  <2>1. HoldsHead(c)'
    BY <1>1, <1>2 DEF HoldsHead, Taking, FreshSession, SessionOf
  <2>2. ASSUME NEW d \in Callers \ {c} PROVE HoldsHead(d)'
    BY <1>2 DEF Linear, HoldsHead, Taking, Newest, SessionOf
  <2> QED BY <2>1, <2>2
<1>5. \A d, e \in Callers : (Taking(d) /\ Taking(e) /\ loc[d].sess = loc[e].sess)' => d = e
  BY <1>1, <1>2 DEF Linear, Taking, FreshSession
<1> QED BY <1>3, <1>4, <1>5 DEF Linear

\* take() hands the head to exactly one of the calls that present it.
LEMMA TakeLinear ==
  ASSUME IInv, Linear, NEW c \in Callers, Take(c)
  PROVE  Linear'
<1>1. CASE ~(loc[c].old \in rt /\ Matches(c, loc[c].sess))
  <2>1. token' = token /\ rt' \subseteq rt
    BY DEF Take, minted
  <2>2. CallerTypeOK
    BY DEF IInv, TypeOK
  <2>3. Return(c) \/ (Goto(c, "awaitTombstone") /\ loc' = loc)
    BY <1>1 DEF Take
  <2>4. Untaken
    BY <2>1, <2>2, <2>3, Returned, MovedAway
  <2> QED BY <2>4, StillLinear
<1>2. CASE loc[c].old \in rt /\ Matches(c, loc[c].sess)
  <2> DEFINE t == loc[c].old
             s == loc[c].sess
  <2>1. t \in RefreshTokens /\ SessionOf(t) = s /\ s \in Sessions /\ t \in rt
    BY <1>2, Here DEF Take, CallOK, HasOld, Unfamiliar
  <2>2. /\ pc'[c] = "entryCheck" /\ loc'[c].op = "rotate"
        /\ loc'[c].sess = s /\ loc'[c].old = t
        /\ \A d \in Callers \ {c} : pc'[d] = pc[d] /\ loc'[d] = loc[d]
        /\ token' = token /\ rt' = rt \ {t}
    <3>1. /\ pc' = [pc EXCEPT ![c] = "entryCheck"]
          /\ loc' = [loc EXCEPT ![c].op = "rotate"]
          /\ token' = token /\ rt' = rt \ {t}
      BY <1>2 DEF Take, Goto, minted
    <3>2. loc[c] \in Locals /\ pc \in [Callers -> Labels] /\ loc \in [Callers -> Locals]
      BY DEF IInv, TypeOK, CallerTypeOK
    <3>3. loc'[c] = [loc[c] EXCEPT !.op = "rotate"]
      BY <3>1, <3>2
    <3>4. loc'[c].op = "rotate" /\ loc'[c].sess = s /\ loc'[c].old = t
      BY <3>2, <3>3 DEF Locals
    <3> QED BY <3>1, <3>2, <3>4
  <2>3. Minted(t) /\ Newest(t)
    BY <2>1 DEF Linear
  <2>4. ASSUME NEW d \in Callers, Taking(d) PROVE loc[d].sess # s
    <3>1. CASE loc[d].op = "create"
      BY <2>1, <2>4, <3>1 DEF Linear, HoldsHead
    <3>2. CASE loc[d].op # "create"
      <4>1. loc[d].old \in RefreshTokens /\ SessionOf(loc[d].old) = loc[d].sess
        BY <2>4, <3>2, Here DEF Taking, CallOK, HasOld
      <4>2. loc[d].old \notin rt /\ Newest(loc[d].old)
        BY <2>4, <3>2 DEF Linear, HoldsHead
      <4>3. loc[d].sess = s => Minted(loc[d].old)
        BY <2>1, <4>1, MintedSession DEF IInv, TypeOK
      <4> QED BY <2>1, <2>3, <4>1, <4>2, <4>3, OneNewest DEF IInv, TypeOK, Linear
    <3> QED BY <3>1, <3>2
  <2>5. RotationIsLinear' /\ \A u \in rt' : Minted(u)' /\ Newest(u)'
    BY <2>2 DEF Linear, RotationIsLinear, Minted, Newest, SessionOf
  <2>6. \A d \in Callers : HoldsHead(d)'
    <3>1. HoldsHead(c)'
      BY <2>2, <2>3 DEF HoldsHead, Newest, SessionOf
    <3>2. ASSUME NEW d \in Callers \ {c} PROVE HoldsHead(d)'
      BY <2>2 DEF Linear, HoldsHead, Taking, Newest, SessionOf
    <3> QED BY <3>1, <3>2
  <2>7. \A d, e \in Callers : (Taking(d) /\ Taking(e) /\ loc[d].sess = loc[e].sess)' => d = e
    BY <2>2, <2>4 DEF Linear, Taking
  <2> QED BY <2>5, <2>6, <2>7 DEF Linear
<1> QED BY <1>1, <1>2

LEMMA EntryCheckLinear ==
  ASSUME IInv, Linear, NEW c \in Callers, EntryCheck(c)
  PROVE  Linear'
<1>1. token' = token /\ rt' = rt /\ CallerTypeOK
  BY DEF EntryCheck, refreshKeys, minted, IInv, TypeOK
<1>2. CASE Return(c) \/ EnterFamily(c, loc[c].sess, "expire")
  BY <1>1, <1>2, Returned, Entered, StillLinear
<1>3. CASE Goto(c, "writeSet") /\ UNCHANGED <<loc, fr>>
  <2>1. pc[c] = "entryCheck" /\ pc'[c] = "writeSet" /\ \A d \in Callers \ {c} : pc'[d] = pc[d]
    BY <1>1, <1>3 DEF EntryCheck, Goto, CallerTypeOK
  <2>2. Untaken
    BY <1>1, <1>3, <2>1 DEF Untaken, Taking
  <2> QED BY <2>2, StillLinear
<1> QED BY <1>2, <1>3 DEF EntryCheck

\* The record a call writes is the new head, and the only live one: the call
\* held the old head, or the session had none.
LEMMA WriteLinear ==
  ASSUME IInv, Linear, NEW c \in Callers, WriteSet(c)
  PROVE  Linear'
<1> DEFINE s == loc[c].sess
           n == IF loc[c].op = "create" THEN 0 ELSE token[loc[c].old].generation + 1
<1> USE DEF IInv, TypeOK
<1>1. PICK t \in RefreshTokens : t = FreshToken /\ ~Minted(t)
  BY FreshTokenOK DEF WriteSet
<1>2. /\ pc[c] = "writeSet" /\ Taking(c) /\ HoldsHead(c) /\ s \in Sessions
      /\ loc[c].op # "create" => /\ loc[c].old \in RefreshTokens /\ SessionOf(loc[c].old) = s
                                 /\ loc[c].old \notin rt /\ Newest(loc[c].old)
      /\ loc[c].op = "create" => \A u \in RefreshTokens : SessionOf(u) # s
  BY Here DEF WriteSet, Taking, CallOK, Unfamiliar, Linear, HoldsHead
<1>3. \A u \in RefreshTokens : token[u].generation \in Nat
  BY DEF StoreTypeOK, Records, NoRecord
<1>4. n \in Nat
  BY <1>2, <1>3
<1>5. ASSUME NEW u \in RefreshTokens, SessionOf(u) = s PROVE token[u].generation < n
  <2>1. loc[c].op # "create" /\ token[u].generation <= token[loc[c].old].generation
    BY <1>2, <1>5 DEF Newest
  <2>2. token[u].generation \in Nat /\ token[loc[c].old].generation \in Nat
    BY <1>2, <1>3, <2>1
  <2> QED BY <2>1, <2>2
<1>6. ASSUME NEW u \in rt PROVE SessionOf(u) # s
  <2>1. u \in RefreshTokens /\ Minted(u) /\ Newest(u)
    BY DEF Linear, StoreTypeOK
  <2> SUFFICES ASSUME SessionOf(u) = s PROVE FALSE
    OBVIOUS
  <2>2. loc[c].op # "create" /\ Minted(loc[c].old)
    BY <1>2, <2>1, MintedSession
  <2>3. u = loc[c].old
    BY <1>2, <2>1, <2>2, OneNewest DEF Linear
  <2> QED BY <1>2, <2>2, <2>3
<1> HIDE DEF n
<1>7. /\ token' = [token EXCEPT ![t] = [session |-> s, generation |-> n]]
      /\ rt' \subseteq rt \cup {t}
      /\ pc' = [pc EXCEPT ![c] = "writeIndex"]
      /\ \A d \in Callers \ {c} : loc'[d] = loc[d]
  BY <1>1 DEF WriteSet, Goto, n, CallerTypeOK
<1>8. /\ token'[t] = [session |-> s, generation |-> n]
      /\ \A u \in RefreshTokens \ {t} : token'[u] = token[u]
  BY <1>7 DEF StoreTypeOK
<1>9. SessionOf(t) # s
  BY <1>1, <1>2, MintedSession
<1>10. RotationIsLinear'
  <2>1. ASSUME NEW u \in RefreshTokens \ {t} PROVE token'[u] # token'[t]
    <3>1. SessionOf(u) = s => token[u].generation # n
      BY <1>3, <1>4, <1>5
    <3> QED BY <1>8, <3>1 DEF SessionOf
  <2>2. ASSUME NEW u \in RefreshTokens \ {t}, NEW v \in RefreshTokens \ {t},
               Minted(u)', token'[u] = token'[v]
        PROVE  u = v
    BY <1>8, <2>2 DEF Linear, RotationIsLinear, Minted
  <2> QED BY <2>1, <2>2 DEF RotationIsLinear
<1>11. ASSUME NEW u \in RefreshTokens, u # t, SessionOf(u) # s, Newest(u) PROVE Newest(u)'
  BY <1>8, <1>11 DEF Newest, SessionOf
<1>12. Newest(t)' /\ Minted(t)'
  <2>1. \A u \in RefreshTokens \ {t} : SessionOf(u) = s => token[u].generation <= n
    BY <1>3, <1>4, <1>5
  <2>2. n <= n
    BY <1>4
  <2>3. Newest(t)'
    BY <1>8, <2>1, <2>2 DEF Newest, SessionOf
  <2>4. Minted(t)'
    BY <1>2, <1>8, ConstantsAssumption DEF Minted, NoRecord
  <2> QED BY <2>3, <2>4
<1>13. ASSUME NEW u \in rt' PROVE Minted(u)' /\ Newest(u)'
  <2>1. CASE u = t
    BY <1>12, <2>1
  <2>2. CASE u # t
    <3>1. u \in rt /\ u \in RefreshTokens /\ Minted(u) /\ Newest(u) /\ SessionOf(u) # s
      BY <1>6, <1>7, <2>2 DEF Linear, StoreTypeOK
    <3> QED BY <1>8, <1>11, <2>2, <3>1 DEF Minted
  <2> QED BY <2>1, <2>2
<1>14. /\ pc'[c] = "writeIndex"
       /\ \A d \in Callers \ {c} : pc'[d] = pc[d] /\ loc'[d] = loc[d]
  BY <1>7 DEF CallerTypeOK
<1>15. ASSUME NEW d \in Callers \ {c}, Taking(d) PROVE HoldsHead(d)'
  <2>1. HoldsHead(d) /\ loc[d].sess # s
    BY <1>2, <1>15 DEF Linear
  <2>2. CASE loc[d].op = "create"
    <3>1. \A u \in RefreshTokens : SessionOf(u) # loc[d].sess
      BY <1>15, <2>1, <2>2 DEF HoldsHead
    <3>2. \A u \in RefreshTokens : SessionOf(u)' # loc[d].sess
      BY <1>8, <2>1, <3>1 DEF SessionOf
    <3> QED BY <1>14, <2>1, <2>2, <3>2 DEF HoldsHead
  <2>3. CASE loc[d].op # "create"
    <3>1. /\ loc[d].old \in RefreshTokens /\ SessionOf(loc[d].old) = loc[d].sess
          /\ loc[d].sess \in Sessions
      BY <1>15, <2>3, Here DEF Taking, CallOK, HasOld, Unfamiliar
    <3>2. loc[d].old # t
      BY <1>1, <3>1, MintedSession
    <3>3. loc[d].old \notin rt /\ Newest(loc[d].old)
      BY <1>15, <2>1, <2>3 DEF HoldsHead
    <3>4. loc[d].old \notin rt' /\ Newest(loc[d].old)'
      BY <1>7, <1>11, <2>1, <3>1, <3>2, <3>3
    <3> QED BY <1>14, <2>1, <2>3, <3>4 DEF HoldsHead, Newest, SessionOf
  <2> QED BY <2>2, <2>3
<1>16. \A d \in Callers : HoldsHead(d)'
  BY <1>14, <1>15 DEF HoldsHead, Taking
<1>17. \A d, e \in Callers : (Taking(d) /\ Taking(e) /\ loc[d].sess = loc[e].sess)' => d = e
  BY <1>14 DEF Linear, Taking
<1> QED BY <1>10, <1>13, <1>16, <1>17 DEF Linear

-----------------------------------------------------------------------------
(***************************************************************************)
(* The theorems.                                                           *)
(***************************************************************************)
LEMMA LinearNext ==
  ASSUME IInv, Linear, [Next]_vars
  PROVE  Linear'
<1>0. CallerTypeOK
  BY DEF IInv, TypeOK
<1>1. ASSUME NEW c \in Callers, CallStep(c) \/ CallerStep(c) \/ Fail(c)
      PROVE  Linear'
  <2>1. CASE CallCreate(c) \/ Take(c) \/ EntryCheck(c) \/ WriteSet(c)
    BY <2>1, CreateLinear, TakeLinear, EntryCheckLinear, WriteLinear
  <2>2. CASE ~(CallCreate(c) \/ Take(c) \/ EntryCheck(c) \/ WriteSet(c))
    <3>1. Untaken
      BY <1>0, <1>1, <2>2, CallUntaken, WriteUntaken, IssueUntaken, UndoUntaken,
         ResolveUntaken, ListUntaken DEF CallStep, CallerStep
    <3> QED BY <3>1, StillLinear
  <2> QED BY <2>1, <2>2
<1>2. ASSUME NEW c \in Callers, NEW s \in Sessions, FamStep(c, s) \/ FamFail(c, s)
      PROVE  Linear'
  BY <1>2, FamilyUntaken, StillLinear
<1>3. CASE \/ \E t \in RefreshTokens : GraceLapses(t)
           \/ \E s \in Sessions : FamilyAges(s)
           \/ Quiet \/ UNCHANGED vars
  BY <1>3, TimeUntaken, StillLinear
<1> QED BY <1>1, <1>2, <1>3 DEF Next

LEMMA InitLinear == Init => Linear
  BY DEF Init, Linear, RotationIsLinear, Minted, HoldsHead, Taking

\* The head of every family's chain is in one place in every reachable state.
THEOREM HeadInOnePlace == Spec => []Linear
<1>1. IInv /\ Linear /\ [Next]_vars => Linear'
  BY LinearNext
<1> QED BY <1>1, InitLinear, Invariance, PTL DEF Spec

\* No generation of a family is minted twice, whatever callers present the
\* same refresh token at once (take() in #rotate).
THEOREM RotationStaysLinear == Spec => []RotationIsLinear
<1>1. Linear => RotationIsLinear
  BY DEF Linear
<1> QED BY <1>1, HeadInOnePlace, PTL

\* A family never has two live refresh records.
THEOREM OneRefreshToken == Spec => []OneLiveRefreshToken
<1>1. IInv /\ Linear => OneLiveRefreshToken
  BY OneNewest DEF IInv, TypeOK, Linear, StoreTypeOK, OneLiveRefreshToken
<1> QED BY <1>1, HeadInOnePlace, Invariance, PTL

-----------------------------------------------------------------------------
(***************************************************************************)
(* A tombstone is only read over a published grace mapping: the mapping is *)
(* there, or it has lapsed, or the session is being revoked.               *)
(***************************************************************************)
Published(t) ==
    grace[t] # NoToken \/ t \in lapsed \/ ~GraceOn \/ SessionOf(t) \in marker

\* Where a rotation or an adoption still knows the token that was presented.
Carrying == {"touchGet", "touchSet", "issue", "issueId", "issueIndex", "postCheck",
             "undoLookup", "undoRead", "undoDelete", "undoUnindex"}

CallFact(l, r) ==
    /\ l \in {"graceGet", "setTombstone"} => Published(r.old)
    /\ l = "discard" => SessionOf(r.old) \in marker
    /\ l \in {"createMeta", "createUser"} => r.op = "create"
    /\ l \in {"midCheck", "adoptCheck", "discard"} \/ (l \in Carrying /\ r.op # "create") =>
          r.old \in RefreshTokens /\ SessionOf(r.old) = r.sess

Entombed == \A t \in consumed : SessionOf(t) \in Sessions /\ Published(t)
CallFacts == \A c \in Callers : CallFact(pc[c], loc[c])
IndexOwn == \A s \in Sessions, t \in RefreshTokens : t \in rtIndex[s] => SessionOf(t) = s
FramesOwn ==
    \A c \in Callers, s \in Sessions, t \in RefreshTokens :
        t \in fr[c][s].hashes => SessionOf(t) = s

Graceful == Entombed /\ CallFacts /\ IndexOwn /\ FramesOwn

\* No step forgets what a token's record says, a marker or a lapse, and a
\* mapping goes only when it lapses or its session is being revoked.
Forward ==
    /\ \A t \in RefreshTokens : SessionOf(t) \in Sessions => token'[t] = token[t]
    /\ marker \subseteq marker'
    /\ lapsed \subseteq lapsed'
    /\ \A t \in RefreshTokens : grace[t] # NoToken /\ grace'[t] = NoToken =>
          t \in lapsed' \/ SessionOf(t) \in marker'

LEMMA StillPublished ==
  ASSUME Forward, NEW t \in RefreshTokens, SessionOf(t) \in Sessions, Published(t)
  PROVE  Published(t)'
  BY DEF Forward, Published, SessionOf

\* What is said of a call is kept by a step.
LEMMA FactKept ==
  ASSUME Forward, NEW l, NEW r,
         l \notin Unfamiliar => r.sess \in Sessions,
         l \in {"graceGet", "setTombstone"} =>
             r.old \in RefreshTokens /\ SessionOf(r.old) = r.sess,
         CallFact(l, r)
  PROVE  CallFact(l, r)'
<1>1. l \in {"graceGet", "setTombstone"} => Published(r.old)'
  BY StillPublished DEF CallFact, Unfamiliar
<1>2. \/ l \in {"midCheck", "adoptCheck", "discard"}
      \/ l \in Carrying /\ r.op # "create"
      => r.old \in RefreshTokens /\ SessionOf(r.old)' = SessionOf(r.old)
  BY DEF CallFact, Forward, SessionOf, Carrying, Unfamiliar
<1> QED BY <1>1, <1>2 DEF CallFact, Forward, SessionOf

\* Every caller but c stays where it is.
LEMMA FactsBut ==
  ASSUME IInv, Forward, CallFacts, NEW c \in Callers,
         \A d \in Callers \ {c} : pc'[d] = pc[d] /\ loc'[d] = loc[d],
         CallFact(pc[c], loc[c])'
  PROVE  CallFacts'
<1>1. ASSUME NEW d \in Callers \ {c} PROVE CallFact(pc[d], loc[d])'
  <2>1. PICK l \in Labels, r \in Locals : l = pc[d] /\ r = loc[d]
    BY DEF IInv, TypeOK, CallerTypeOK
  <2>2. CallOK(l, r) /\ CallFact(l, r)
    BY <2>1 DEF IInv, CallsOK, CallFacts
  <2>3. CallFact(l, r)'
    BY <2>2, FactKept DEF CallOK, HasOld
  <2>4. pc'[d] = l /\ loc'[d] = r
    BY <2>1
  <2> QED BY <2>3, <2>4 DEF CallFact
<1> QED BY <1>1 DEF CallFacts

-----------------------------------------------------------------------------
(***************************************************************************)
(* Every step goes forward.                                                *)
(***************************************************************************)
LEMMA TokensStay ==
  ASSUME IInv, [Next]_vars, NEW t \in RefreshTokens, SessionOf(t) \in Sessions
  PROVE  token'[t] = token[t]
<1>1. ASSUME NEW c \in Callers, WriteSet(c) PROVE token'[t] = token[t]
  <2>1. FreshToken \in RefreshTokens /\ ~Minted(FreshToken)
    BY <1>1, FreshTokenOK DEF WriteSet
  <2>2. FreshToken # t
    BY <2>1, ConstantsAssumption DEF Minted, NoRecord, SessionOf
  <2>3. PICK x : token' = [token EXCEPT ![FreshToken] = x]
    BY <1>1 DEF WriteSet
  <2> QED BY <2>1, <2>2, <2>3 DEF IInv, TypeOK, StoreTypeOK
<1>2. token' = token \/ \E c \in Callers : WriteSet(c)
  <2>1. ASSUME NEW c \in Callers, CallStep(c) \/ CallerStep(c) \/ Fail(c)
        PROVE  token' = token \/ WriteSet(c)
    BY Zenon, <2>1 DEF CallStep, CallCreate, CallRefresh, CallRevoke, CallRevokeAll, CallList, Call,
       CallerStep, WriteIndex, CreateMeta, CreateUser, Peek, Take, EntryCheck, SetGrace,
       SetTombstone, MidCheck, TouchGet, TouchSet, Discard, AwaitTombstone, RevokedCheck,
       Backoff, GraceGet, AdoptCheck, IssueRecord, IssueId, IssueIndex, IssueSigned, PostCheck,
       UndoLookup, UndoRead, UndoDelete, UndoUnindex, UndoDeny, FamilyEnded, AllRead, AllRemove,
       ListRead, ListMeta, ListPrune, Fail, minted
  <2>2. ASSUME NEW c \in Callers, NEW s \in Sessions, FamStep(c, s) \/ FamFail(c, s)
        PROVE  token' = token
    BY Zenon, <2>2 DEF FamStep, FamFail, FamMarker, FamMeta, FamEnumerate, FamMarkEach, FamWipe,
       FamDrop, FamTokens, FamDelete, FamDeny, FamDropTokens, FamUnlist, minted
  <2> QED BY <2>1, <2>2 DEF Next, GraceLapses, FamilyAges, Quiet, vars, minted
<1> QED BY <1>1, <1>2

LEMMA MarkersStay ==
  ASSUME IInv, [Next]_vars
  PROVE  marker \subseteq marker' /\ lapsed \subseteq lapsed'
<1>1. ASSUME NEW c \in Callers, CallStep(c) \/ CallerStep(c) \/ Fail(c)
      PROVE  marker' = marker /\ lapsed' = lapsed
  BY Zenon, <1>1 DEF CallStep, CallCreate, CallRefresh, CallRevoke, CallRevokeAll, CallList, Call,
     CallerStep, WriteSet, WriteIndex, CreateMeta, CreateUser, Peek, Take, EntryCheck, SetGrace,
     SetTombstone, MidCheck, TouchGet, TouchSet, Discard, AwaitTombstone, RevokedCheck,
     Backoff, GraceGet, AdoptCheck, IssueRecord, IssueId, IssueIndex, IssueSigned, PostCheck,
     UndoLookup, UndoRead, UndoDelete, UndoUnindex, UndoDeny, FamilyEnded, AllRead, AllRemove,
     ListRead, ListMeta, ListPrune, Fail, sessionKeys, history
<1>2. ASSUME NEW c \in Callers, NEW s \in Sessions, FamStep(c, s) \/ FamFail(c, s)
      PROVE  marker \subseteq marker' /\ lapsed' = lapsed
  BY Zenon, <1>2 DEF FamStep, FamFail, FamMarker, FamMeta, FamEnumerate, FamMarkEach, FamWipe,
     FamDrop, FamTokens, FamDelete, FamDeny, FamDropTokens, FamUnlist, sessionKeys, history
<1> QED BY <1>1, <1>2 DEF Next, GraceLapses, FamilyAges, Quiet, vars, sessionKeys, history

LEMMA MappingsStay ==
  ASSUME IInv, Graceful, [Next]_vars, NEW t \in RefreshTokens,
         grace[t] # NoToken, grace'[t] = NoToken
  PROVE  t \in lapsed' \/ SessionOf(t) \in marker
<1>1. ASSUME NEW c \in Callers, CallStep(c) \/ CallerStep(c) \/ Fail(c)
      PROVE  SessionOf(t) \in marker
  <2>1. grace' = grace \/ SetGrace(c) \/ Discard(c)
    BY Zenon, <1>1 DEF CallStep, CallCreate, CallRefresh, CallRevoke, CallRevokeAll, CallList, Call,
       CallerStep, WriteSet, WriteIndex, CreateMeta, CreateUser, Peek, Take, EntryCheck,
       SetTombstone, MidCheck, TouchGet, TouchSet, AwaitTombstone, RevokedCheck,
       Backoff, GraceGet, AdoptCheck, IssueRecord, IssueId, IssueIndex, IssueSigned, PostCheck,
       UndoLookup, UndoRead, UndoDelete, UndoUnindex, UndoDeny, FamilyEnded, AllRead, AllRemove,
       ListRead, ListMeta, ListPrune, Fail, refreshKeys
  <2>2. CASE SetGrace(c)
    <3>1. loc[c].new \in RefreshTokens /\ loc[c].new # NoToken
      BY <2>2, Here, ConstantsAssumption DEF SetGrace, CallOK, HasNew
    <3> QED BY <2>2, <3>1 DEF SetGrace, IInv, TypeOK, StoreTypeOK
  <2>3. CASE Discard(c)
    <3>1. grace' = [grace EXCEPT ![loc[c].old] = NoToken]
      BY <2>3 DEF Discard
    <3>2. t = loc[c].old
      BY <3>1 DEF IInv, TypeOK, StoreTypeOK
    <3> QED BY <2>3, <3>2 DEF Discard, Graceful, CallFacts, CallFact
  <2> QED BY <2>1, <2>2, <2>3
<1>2. ASSUME NEW c \in Callers, NEW s \in Sessions, FamStep(c, s) \/ FamFail(c, s)
      PROVE  SessionOf(t) \in marker
  <2>1. grace' = grace \/ FamWipe(c, s)
    BY Zenon, <1>2 DEF FamStep, FamFail, FamMarker, FamMeta, FamEnumerate, FamMarkEach,
       FamDrop, FamTokens, FamDelete, FamDeny, FamDropTokens, FamUnlist, refreshKeys
  <2>2. CASE FamWipe(c, s)
    <3>1. t \in fr[c][s].hashes /\ fr[c][s].pc = "wipe"
      BY <2>2 DEF FamWipe
    <3>2. SessionOf(t) = s /\ s \in marker
      BY <3>1 DEF Graceful, FramesOwn, IInv, FramesOK
    <3> QED BY <3>2
  <2> QED BY <2>1, <2>2
<1>3. ASSUME NEW u \in RefreshTokens, GraceLapses(u)
      PROVE  t \in lapsed'
  <2>1. u = t
    BY <1>3 DEF GraceLapses, IInv, TypeOK, StoreTypeOK
  <2> QED BY <1>3, <2>1 DEF GraceLapses
<1>4. CASE (\E s \in Sessions : FamilyAges(s)) \/ Quiet \/ UNCHANGED vars
  BY <1>4 DEF FamilyAges, Quiet, vars, refreshKeys
<1> QED BY <1>1, <1>2, <1>3, <1>4 DEF Next

LEMMA StepsForward == ASSUME IInv, Graceful, [Next]_vars PROVE Forward
<1>1. \A t \in RefreshTokens : SessionOf(t) \in Sessions => token'[t] = token[t]
  BY TokensStay
<1>2. marker \subseteq marker' /\ lapsed \subseteq lapsed'
  BY MarkersStay
<1>3. \A t \in RefreshTokens : grace[t] # NoToken /\ grace'[t] = NoToken =>
         t \in lapsed' \/ SessionOf(t) \in marker'
  BY <1>2, MappingsStay
<1> QED BY <1>1, <1>2, <1>3 DEF Forward

-----------------------------------------------------------------------------
(***************************************************************************)
(* The store and the frames.                                               *)
(***************************************************************************)
LEMMA EntombedNext == ASSUME IInv, Graceful, Forward, [Next]_vars PROVE Entombed'
<1>1. ASSUME NEW t \in consumed PROVE SessionOf(t)' \in Sessions /\ Published(t)'
  <2>1. t \in RefreshTokens /\ SessionOf(t) \in Sessions /\ Published(t)
    BY DEF Graceful, Entombed, IInv, TypeOK, StoreTypeOK
  <2> QED BY <2>1, StillPublished DEF Forward, SessionOf
<1>2. ASSUME NEW c \in Callers, SetTombstone(c) PROVE Entombed'
  <2>1. PICK o \in RefreshTokens : o = loc[c].old /\ SessionOf(o) \in Sessions
    BY <1>2, Here DEF SetTombstone, CallOK, HasOld, Unfamiliar
  <2>2. Published(o)
    BY <1>2, <2>1 DEF SetTombstone, Graceful, CallFacts, CallFact
  <2>3. SessionOf(o)' \in Sessions /\ Published(o)'
    BY <2>1, <2>2, StillPublished DEF Forward, SessionOf
  <2>4. consumed' \subseteq consumed \cup {o}
    BY <1>2, <2>1 DEF SetTombstone
  <2> QED BY <1>1, <2>3, <2>4 DEF Entombed
<1>3. consumed' \subseteq consumed \/ \E c \in Callers : SetTombstone(c)
  <2>1. ASSUME NEW c \in Callers, CallStep(c) \/ CallerStep(c) \/ Fail(c)
        PROVE  consumed' \subseteq consumed \/ SetTombstone(c)
    BY Zenon, <2>1 DEF CallStep, CallCreate, CallRefresh, CallRevoke, CallRevokeAll, CallList, Call,
       CallerStep, WriteSet, WriteIndex, CreateMeta, CreateUser, Peek, Take, EntryCheck, SetGrace,
       MidCheck, TouchGet, TouchSet, Discard, AwaitTombstone, RevokedCheck,
       Backoff, GraceGet, AdoptCheck, IssueRecord, IssueId, IssueIndex, IssueSigned, PostCheck,
       UndoLookup, UndoRead, UndoDelete, UndoUnindex, UndoDeny, FamilyEnded, AllRead, AllRemove,
       ListRead, ListMeta, ListPrune, Fail, refreshKeys
  <2>2. ASSUME NEW c \in Callers, NEW s \in Sessions, FamStep(c, s) \/ FamFail(c, s)
        PROVE  consumed' \subseteq consumed
    BY Zenon, <2>2 DEF FamStep, FamFail, FamMarker, FamMeta, FamEnumerate, FamMarkEach, FamWipe,
       FamDrop, FamTokens, FamDelete, FamDeny, FamDropTokens, FamUnlist, refreshKeys
  <2>3. ASSUME NEW s \in Sessions, FamilyAges(s) PROVE consumed' \subseteq consumed
    BY <2>3 DEF FamilyAges
  <2>4. ASSUME NEW t \in RefreshTokens, GraceLapses(t) PROVE consumed' = consumed
    BY <2>4 DEF GraceLapses
  <2>5. ASSUME Quiet \/ UNCHANGED vars PROVE consumed' = consumed
    BY <2>5 DEF Quiet, vars, refreshKeys
  <2>6. CASE \E c \in Callers : CallStep(c) \/ CallerStep(c) \/ Fail(c)
    BY <2>1, <2>6
  <2>7. CASE \E c \in Callers, s \in Sessions : FamStep(c, s) \/ FamFail(c, s)
    BY <2>2, <2>7
  <2>8. CASE \E t \in RefreshTokens : GraceLapses(t)
    BY <2>4, <2>8
  <2>9. CASE \E s \in Sessions : FamilyAges(s)
    BY <2>3, <2>9
  <2> QED BY <2>5, <2>6, <2>7, <2>8, <2>9 DEF Next
<1>4. CASE consumed' \subseteq consumed
  BY <1>1, <1>4 DEF Entombed
<1> QED BY <1>2, <1>3, <1>4

LEMMA IndexNext == ASSUME IInv, Graceful, Forward, [Next]_vars PROVE IndexOwn'
<1>1. ASSUME NEW s \in Sessions, NEW t \in RefreshTokens, t \in rtIndex[s]
      PROVE  SessionOf(t)' = s
  BY <1>1 DEF Graceful, IndexOwn, Forward, SessionOf
<1>2. ASSUME NEW c \in Callers, WriteIndex(c) PROVE IndexOwn'
  <2>1. PICK n \in RefreshTokens, x \in Sessions :
          n = loc[c].new /\ x = loc[c].sess /\ SessionOf(n) = x
    BY <1>2, Here DEF WriteIndex, CallOK, HasNew, HasOld, HasAccess, Undoing, Unfamiliar
  <2>2. SessionOf(n)' = x
    BY <2>1 DEF Forward, SessionOf
  <2>3. \A s \in Sessions, t \in RefreshTokens : t \in rtIndex'[s] =>
           t \in rtIndex[s] \/ (s = x /\ t = n)
    BY <1>2, <2>1 DEF WriteIndex, IInv, TypeOK, StoreTypeOK
  <2> QED BY <1>1, <2>2, <2>3 DEF IndexOwn
<1>3. ASSUME NEW c \in Callers, CallStep(c) \/ CallerStep(c) \/ Fail(c)
      PROVE  rtIndex' = rtIndex \/ WriteIndex(c)
  BY Zenon, <1>3 DEF CallStep, CallCreate, CallRefresh, CallRevoke, CallRevokeAll, CallList, Call,
     CallerStep, WriteSet, CreateMeta, CreateUser, Peek, Take, EntryCheck, SetGrace,
     SetTombstone, MidCheck, TouchGet, TouchSet, Discard, AwaitTombstone, RevokedCheck,
     Backoff, GraceGet, AdoptCheck, IssueRecord, IssueId, IssueIndex, IssueSigned, PostCheck,
     UndoLookup, UndoRead, UndoDelete, UndoUnindex, UndoDeny, FamilyEnded, AllRead, AllRemove,
     ListRead, ListMeta, ListPrune, Fail, refreshKeys
<1>4. ASSUME NEW c \in Callers, NEW s \in Sessions, FamStep(c, s) \/ FamFail(c, s)
      PROVE  rtIndex' = rtIndex \/ rtIndex' = [rtIndex EXCEPT ![s] = {}]
  BY Zenon, <1>4 DEF FamStep, FamFail, FamMarker, FamMeta, FamEnumerate, FamMarkEach, FamWipe,
     FamDrop, FamTokens, FamDelete, FamDeny, FamDropTokens, FamUnlist, refreshKeys
<1>5. ASSUME NEW s \in Sessions, rtIndex' = [rtIndex EXCEPT ![s] = {}] PROVE IndexOwn'
  BY <1>1, <1>5 DEF IndexOwn, IInv, TypeOK, StoreTypeOK
<1>6. CASE rtIndex' = rtIndex
  BY <1>1, <1>6 DEF IndexOwn
<1> QED BY <1>2, <1>3, <1>4, <1>5, <1>6
        DEF Next, GraceLapses, FamilyAges, Quiet, vars, refreshKeys

\* What a frame enumerates is in the index of its session.
LEMMA FrameHashes ==
  ASSUME IInv, [Next]_vars, NEW d \in Callers, NEW x \in Sessions
  PROVE  \/ fr'[d][x].hashes = {}
         \/ fr'[d][x].hashes = fr[d][x].hashes
         \/ fr'[d][x].hashes = rtIndex[x]
<1> USE DEF IInv, TypeOK, FrameTypeOK
<1>1. ASSUME NEW c \in Callers, CallStep(c) \/ CallerStep(c) \/ Fail(c)
      PROVE  fr'[d][x].hashes = {} \/ fr'[d][x] = fr[d][x]
  <2>1. \/ fr' = fr
        \/ fr' = [fr EXCEPT ![c] = NoFrames]
        \/ AllRead(c)
        \/ \E s \in Sessions : fr' = [fr EXCEPT ![c][s] = [NoFrame EXCEPT !.pc = "marker"]]
    <3>1. ASSUME NEW s, NEW o, EnterFamily(c, s, o)
          PROVE  fr' = [fr EXCEPT ![c][s] = [NoFrame EXCEPT !.pc = "marker"]]
      BY <3>1 DEF EnterFamily, SetFrame
    <3>2. CASE Return(c)
      BY <3>2 DEF Return
    <3>3. CASE \E s, o : EnterFamily(c, s, o)
      <4>1. PICK s, o : EnterFamily(c, s, o)
        BY <3>3
      <4>2. fr' = [fr EXCEPT ![c][s] = [NoFrame EXCEPT !.pc = "marker"]]
        BY <3>1, <4>1
      <4>3. CASE s \in Sessions
        BY <4>2, <4>3
      <4>4. CASE s \notin Sessions
        <5>1. [fr[c] EXCEPT ![s] = [NoFrame EXCEPT !.pc = "marker"]] = fr[c]
          BY <4>4
        <5>2. fr' = fr
          BY <4>2, <5>1
        <5> QED BY <5>2
      <4> QED BY <4>3, <4>4
    <3>4. CASE CallStep(c)
      BY Zenon, <3>3, <3>4 DEF CallStep, CallCreate, CallRefresh, CallRevoke, CallRevokeAll,
         CallList, Call
    <3>5. CASE ~CallStep(c) /\ ~Return(c) /\ ~\E s, o : EnterFamily(c, s, o)
      BY Zenon, <1>1, <3>5 DEF CallerStep, WriteSet, WriteIndex, CreateMeta, CreateUser, Peek, Take,
         EntryCheck, SetGrace, SetTombstone, MidCheck, TouchGet, TouchSet, Discard,
         AwaitTombstone, FoundTombstone, RevokedCheck, Backoff, GraceGet, AdoptCheck,
         IssueRecord, IssueId, IssueIndex, IssueSigned, PostCheck, AfterUndo, UndoLookup,
         UndoRead, UndoDelete, UndoUnindex, UndoDeny, FamilyEnded, AllRemove,
         ListRead, ListMeta, ListPrune, Fail
    <3> QED BY <3>2, <3>3, <3>4, <3>5
  <2>2. CASE AllRead(c)
    <3>1. PICK S : \/ fr' = [fr EXCEPT ![c] = NoFrames]
                   \/ fr' = [fr EXCEPT ![c] = [s \in Sessions |->
                                IF s \in S THEN [NoFrame EXCEPT !.pc = "marker"] ELSE NoFrame]]
      BY ZenonT(60), <2>2 DEF AllRead, Return
    <3>2. \A s \in Sessions : NoFrames[s].hashes = {} /\ NoFrame.hashes = {}
                              /\ [NoFrame EXCEPT !.pc = "marker"].hashes = {}
      BY DEF NoFrames, NoFrame
    <3> QED BY ZenonT(60), <3>1, <3>2
  <2>3. CASE fr' = [fr EXCEPT ![c] = NoFrames]
    BY <2>3 DEF NoFrames, NoFrame
  <2>4. CASE \E s \in Sessions : fr' = [fr EXCEPT ![c][s] = [NoFrame EXCEPT !.pc = "marker"]]
    BY <2>4 DEF NoFrame
  <2> QED BY <2>1, <2>2, <2>3, <2>4
<1>2. ASSUME NEW c \in Callers, NEW s \in Sessions, FamStep(c, s) \/ FamFail(c, s)
      PROVE  fr'[d][x].hashes = fr[d][x].hashes \/ fr'[d][x].hashes = rtIndex[x]
  <2>1. ASSUME NEW f, SetFrame(c, s, f)
        PROVE  fr'[c][s] = f /\ (<<d, x>> # <<c, s>> => fr'[d][x] = fr[d][x])
    BY <2>1 DEF SetFrame
  <2>2. fr[c][s] \in Frames
    OBVIOUS
  <2>3. ASSUME NEW l, FrameGoto(c, s, l)
        PROVE  /\ fr'[c][s].hashes = fr[c][s].hashes
               /\ <<d, x>> # <<c, s>> => fr'[d][x] = fr[d][x]
    <3>1. [fr[c][s] EXCEPT !.pc = l].hashes = fr[c][s].hashes
      BY <2>2 DEF Frames
    <3> QED BY <2>1, <2>3, <3>1 DEF FrameGoto
  <2>4. CASE FamMarker(c, s) \/ FamWipe(c, s) \/ FamDrop(c, s) \/ FamDropTokens(c, s)
             \/ FamUnlist(c, s) \/ FamFail(c, s)
    BY <2>3, <2>4 DEF FamMarker, FamWipe, FamDrop, FamDropTokens, FamUnlist, FamFail
  <2>5. CASE FamEnumerate(c, s)
    <3> DEFINE f == [fr[c][s] EXCEPT !.hashes = rtIndex[s], !.todo = rtIndex[s],
                         !.pc = IF rtIndex[s] = {} THEN "drop" ELSE "markEach"]
    <3>1. f.hashes = rtIndex[s]
      BY <2>2 DEF Frames
    <3>2. SetFrame(c, s, f)
      BY <2>5 DEF FamEnumerate
    <3> HIDE DEF f
    <3> QED BY <2>1, <3>1, <3>2
  <2>6. ASSUME NEW f, SetFrame(c, s, f), f.hashes = fr[c][s].hashes
        PROVE  fr'[d][x].hashes = fr[d][x].hashes
    BY <2>1, <2>6
  <2>7. CASE FamMeta(c, s)
    <3> DEFINE f == [fr[c][s] EXCEPT !.pc = "enumerate", !.known = s \in meta]
    <3>1. f.hashes = fr[c][s].hashes
      BY <2>2 DEF Frames
    <3>2. SetFrame(c, s, f)
      BY <2>7 DEF FamMeta
    <3> HIDE DEF f
    <3> QED BY <2>6, <3>1, <3>2
  <2>8. CASE FamTokens(c, s)
    <3> DEFINE f == [fr[c][s] EXCEPT !.tokens = atIndex[s],
                         !.pc = IF atIndex[s] = {} THEN "dropTokens" ELSE "kill"]
    <3>1. f.hashes = fr[c][s].hashes
      BY <2>2 DEF Frames
    <3>2. SetFrame(c, s, f)
      BY <2>8 DEF FamTokens
    <3> HIDE DEF f
    <3> QED BY <2>6, <3>1, <3>2
  <2>9. CASE FamDelete(c, s)
    <3> DEFINE f == [fr[c][s] EXCEPT !.tokens = {}, !.pc = "dropTokens"]
    <3>1. f.hashes = fr[c][s].hashes
      BY <2>2 DEF Frames
    <3>2. SetFrame(c, s, f)
      BY <2>9 DEF FamDelete
    <3> HIDE DEF f
    <3> QED BY <2>6, <3>1, <3>2
  <2>10. CASE FamMarkEach(c, s)
    <3>1. PICK t \in fr[c][s].todo :
            SetFrame(c, s, [fr[c][s] EXCEPT !.todo = @ \ {t},
                 !.pc = IF fr[c][s].todo = {t} THEN "wipe" ELSE "markEach"])
      BY <2>10 DEF FamMarkEach
    <3> DEFINE f == [fr[c][s] EXCEPT !.todo = @ \ {t},
                 !.pc = IF fr[c][s].todo = {t} THEN "wipe" ELSE "markEach"]
    <3>2. f.hashes = fr[c][s].hashes
      BY <2>2 DEF Frames
    <3>3. SetFrame(c, s, f)
      BY <3>1
    <3> HIDE DEF f
    <3> QED BY <2>6, <3>2, <3>3
  <2>11. CASE FamDeny(c, s)
    <3>1. PICK a \in fr[c][s].tokens :
            SetFrame(c, s, [fr[c][s] EXCEPT !.tokens = @ \ {a},
                 !.pc = IF fr[c][s].tokens = {a} THEN "dropTokens" ELSE "kill"])
      BY <2>11 DEF FamDeny
    <3> DEFINE f == [fr[c][s] EXCEPT !.tokens = @ \ {a},
                 !.pc = IF fr[c][s].tokens = {a} THEN "dropTokens" ELSE "kill"]
    <3>2. f.hashes = fr[c][s].hashes
      BY <2>2 DEF Frames
    <3>3. SetFrame(c, s, f)
      BY <3>1
    <3> HIDE DEF f
    <3> QED BY <2>6, <3>2, <3>3
  <2> QED BY <1>2, <2>4, <2>5, <2>7, <2>8, <2>9, <2>10, <2>11 DEF FamStep
<1>3. CASE UNCHANGED fr
  BY <1>3
<1> QED BY <1>1, <1>2, <1>3 DEF Next, GraceLapses, FamilyAges, Quiet, vars

LEMMA FramesNext == ASSUME IInv, Graceful, Forward, [Next]_vars PROVE FramesOwn'
<1>1. ASSUME NEW s \in Sessions, NEW t \in RefreshTokens, SessionOf(t) = s
      PROVE  SessionOf(t)' = s
  BY <1>1 DEF Forward, SessionOf
<1> QED BY <1>1, FrameHashes DEF Graceful, IndexOwn, FramesOwn

-----------------------------------------------------------------------------
(***************************************************************************)
(* The calls: what holds where a call goes next.                           *)
(***************************************************************************)
\* Once the caller stays where it is there is nothing to show.
LEMMA FactsStill ==
  ASSUME IInv, Forward, CallFacts, UNCHANGED <<pc, loc>>
  PROVE  CallFacts'
<1> SUFFICES ASSUME NEW c \in Callers PROVE CallFact(pc[c], loc[c])'
  BY DEF CallFacts
<1>1. PICK l \in Labels, r \in Locals : l = pc[c] /\ r = loc[c]
  BY DEF IInv, TypeOK, CallerTypeOK
<1>2. CallOK(l, r) /\ CallFact(l, r)
  BY <1>1 DEF IInv, CallsOK, CallFacts
<1>3. CallFact(l, r)'
  BY <1>2, FactKept DEF CallOK, HasOld
<1> QED BY <1>1, <1>3 DEF CallFact

\* A call moves to l with the locals r.
LEMMA FactsMove ==
  ASSUME IInv, Forward, CallFacts, NEW c \in Callers,
         NEW l \in Labels, NEW r \in Locals,
         Goto(c, l), loc' = [loc EXCEPT ![c] = r],
         l \notin Unfamiliar => r.sess \in Sessions,
         l \in {"graceGet", "setTombstone"} =>
             r.old \in RefreshTokens /\ SessionOf(r.old) = r.sess,
         CallFact(l, r)
  PROVE  CallFacts'
<1>1. pc'[c] = l /\ loc'[c] = r
  BY DEF Goto, IInv, TypeOK, CallerTypeOK
<1>2. \A d \in Callers \ {c} : pc'[d] = pc[d] /\ loc'[d] = loc[d]
  BY DEF Goto, IInv, TypeOK, CallerTypeOK
<1>3. CallFact(l, r)'
  BY FactKept
<1>4. CallFact(pc[c], loc[c])'
  BY <1>1, <1>3 DEF CallFact
<1> QED BY <1>2, <1>4, FactsBut

\* A call that keeps its locals moves to l.
LEMMA FactsGoto ==
  ASSUME IInv, Forward, CallFacts, NEW c \in Callers, NEW l \in Labels,
         Goto(c, l), loc' = loc, pc[c] \notin Unfamiliar,
         l \in {"graceGet", "setTombstone"} => pc[c] \in HasOld,
         CallFact(l, loc[c])
  PROVE  CallFacts'
<1>1. PICK r \in Locals : r = loc[c]
  BY Here
<1>2. loc' = [loc EXCEPT ![c] = r]
  BY <1>1 DEF IInv, TypeOK, CallerTypeOK
<1>3. r.sess \in Sessions
  BY <1>1, Here DEF CallOK
<1>4. l \in {"graceGet", "setTombstone"} => r.old \in RefreshTokens /\ SessionOf(r.old) = r.sess
  BY <1>1, Here DEF CallOK
<1> QED BY <1>1, <1>2, <1>3, <1>4, FactsMove

\* Where nothing is said of a call.
Plain == {"idle", "peek", "take", "entryCheck", "writeSet", "writeIndex", "setGrace",
          "awaitTombstone", "revokedCheck", "backoff", "awaitFamily", "allRead", "awaitAll",
          "listRead", "listMeta", "listPrune"}

LEMMA FactsPlain ==
  ASSUME IInv, Forward, CallFacts, NEW c \in Callers, pc'[c] \in Plain,
         \A d \in Callers \ {c} : pc'[d] = pc[d] /\ loc'[d] = loc[d]
  PROVE  CallFacts'
<1>1. CallFact(pc[c], loc[c])'
  BY DEF CallFact, Plain, Carrying
<1> QED BY <1>1, FactsBut

LEMMA PlainSteps ==
  ASSUME IInv, NEW c \in Callers,
         \/ CallStep(c) \/ WriteSet(c) \/ Peek(c) \/ Take(c) \/ EntryCheck(c) \/ Discard(c)
         \/ RevokedCheck(c) \/ FamilyEnded(c) \/ AllRead(c) \/ AllRemove(c)
         \/ ListRead(c) \/ ListMeta(c) \/ ListPrune(c) \/ Fail(c)
  PROVE  /\ pc'[c] \in Plain
         /\ \A d \in Callers \ {c} : pc'[d] = pc[d] /\ loc'[d] = loc[d]
<1> USE DEF IInv, TypeOK, CallerTypeOK, Goto, Return, EnterFamily, Plain
<1>1. CASE CallCreate(c)
  BY <1>1 DEF CallCreate, Call
<1>2. CASE CallRefresh(c)
  BY <1>2 DEF CallRefresh, Call
<1>3. CASE CallRevokeAll(c)
  BY <1>3 DEF CallRevokeAll, Call
<1>4. CASE CallList(c)
  BY <1>4 DEF CallList, Call
<1>5. CASE CallRevoke(c)
  BY <1>5 DEF CallRevoke
<1>6. CASE WriteSet(c) \/ Peek(c) \/ Take(c) \/ EntryCheck(c) \/ Discard(c)
  BY <1>6 DEF WriteSet, Peek, Take, EntryCheck, Discard
<1>7. CASE RevokedCheck(c) \/ FamilyEnded(c) \/ AllRead(c) \/ AllRemove(c)
  BY <1>7 DEF RevokedCheck, FamilyEnded, AllRead, AllRemove
<1>8. CASE ListRead(c) \/ ListMeta(c) \/ ListPrune(c) \/ Fail(c)
  BY <1>8 DEF ListRead, ListMeta, ListPrune, Fail
<1> QED BY <1>1, <1>2, <1>3, <1>4, <1>5, <1>6, <1>7, <1>8 DEF CallStep

\* An undone issuance: a creation revokes the family, the others discard.
LEMMA AfterUndoFacts ==
  ASSUME IInv, Graceful, Forward, NEW c \in Callers, pc[c] \in Undoing, AfterUndo(c)
  PROVE  CallFacts'
<1>1. CASE loc[c].op = "create"
  <2>1. /\ pc'[c] \in Plain
        /\ \A d \in Callers \ {c} : pc'[d] = pc[d] /\ loc'[d] = loc[d]
    BY <1>1 DEF AfterUndo, EnterFamily, Goto, Plain, IInv, TypeOK, CallerTypeOK
  <2> QED BY <2>1, FactsPlain DEF Graceful
<1>2. CASE loc[c].op # "create"
  <2>1. CallFact(pc[c], loc[c]) /\ loc[c].sess \in marker
    BY Here DEF Graceful, CallFacts, Ready
  <2>2. CallFact("discard", loc[c])
    BY <1>2, <2>1 DEF CallFact, Carrying, Undoing
  <2> QED BY <1>2, <2>2, FactsGoto DEF AfterUndo, Graceful, Labels, Undoing, Unfamiliar
<1> QED BY <1>1, <1>2

\* The tombstone was found.
LEMMA FoundFacts ==
  ASSUME IInv, Graceful, Forward, NEW c \in Callers, pc[c] \in {"awaitTombstone", "backoff"},
         loc[c].old \in consumed, FoundTombstone(c)
  PROVE  CallFacts'
<1>1. CASE Matches(c, loc[c].sess)
  <2>1. CallFact("graceGet", loc[c])
    BY DEF CallFact, Carrying, Graceful, Entombed
  <2> QED BY <1>1, <2>1, FactsGoto DEF FoundTombstone, Graceful, Labels, HasOld, Unfamiliar
<1>2. CASE ~Matches(c, loc[c].sess)
  <2>1. /\ pc'[c] \in Plain
        /\ \A d \in Callers \ {c} : pc'[d] = pc[d] /\ loc'[d] = loc[d]
    BY <1>2 DEF FoundTombstone, Return, Goto, Plain, IInv, TypeOK, CallerTypeOK
  <2> QED BY <2>1, FactsPlain DEF Graceful
<1> QED BY <1>1, <1>2

LEMMA RotateFacts ==
  ASSUME IInv, Graceful, Forward, NEW c \in Callers,
         \/ WriteIndex(c) \/ CreateMeta(c) \/ CreateUser(c) \/ SetGrace(c)
         \/ SetTombstone(c) \/ MidCheck(c) \/ TouchGet(c) \/ TouchSet(c)
  PROVE  CallFacts'
<1> USE DEF Labels, Unfamiliar, HasOld
<1>0. CallFact(pc[c], loc[c]) /\ CallOK(pc[c], loc[c]) /\ CallFacts
  BY Here DEF Graceful, CallFacts
<1>1. CASE WriteIndex(c)
  <2>1. CASE loc[c].op = "create"
    <3>1. CallFact("createMeta", loc[c])
      BY <2>1 DEF CallFact, Carrying
    <3> QED BY <1>0, <1>1, <2>1, <3>1, FactsGoto DEF WriteIndex
  <2>2. CASE loc[c].op # "create" /\ GraceOn
    <3>1. /\ pc'[c] \in Plain
          /\ \A d \in Callers \ {c} : pc'[d] = pc[d] /\ loc'[d] = loc[d]
      BY <1>1, <2>2 DEF WriteIndex, Goto, Plain, IInv, TypeOK, CallerTypeOK
    <3> QED BY <1>0, <3>1, FactsPlain
  <2>3. CASE loc[c].op # "create" /\ ~GraceOn
    <3>1. PICK r \in Locals : r = loc[c] /\ loc' = [loc EXCEPT ![c] = r]
      BY <1>1, Here DEF WriteIndex, IInv, TypeOK, CallerTypeOK
    <3>2. Goto(c, "setTombstone")
      BY <1>1, <2>3 DEF WriteIndex
    <3>3. r.old \in RefreshTokens /\ SessionOf(r.old) = r.sess /\ r.sess \in Sessions
      BY <1>0, <1>1, <2>3, <3>1 DEF WriteIndex, CallOK
    <3>4. CallFact("setTombstone", r)
      BY <2>3 DEF CallFact, Carrying, Published
    <3> QED BY <1>0, <3>1, <3>2, <3>3, <3>4, FactsMove
  <2> QED BY <2>1, <2>2, <2>3
<1>2. CASE CreateMeta(c)
  <2>1. CallFact("createUser", loc[c])
    BY <1>0, <1>2 DEF CallFact, CreateMeta, Carrying
  <2> QED BY <1>0, <1>2, <2>1, FactsGoto DEF CreateMeta
<1>3. CASE CreateUser(c)
  <2>1. CallFact("issue", loc[c])
    BY <1>0, <1>3 DEF CallFact, CreateUser, Carrying
  <2> QED BY <1>0, <1>3, <2>1, FactsGoto DEF CreateUser
<1>4. CASE SetGrace(c)
  <2>1. PICK o \in RefreshTokens, n \in RefreshTokens, r \in Locals :
          /\ o = loc[c].old /\ n = loc[c].new /\ r = loc[c]
          /\ n # NoToken
    BY <1>0, <1>4, Here, ConstantsAssumption DEF SetGrace, CallOK, HasNew
  <2>2. grace'[o] # NoToken
    BY <1>4, <2>1 DEF SetGrace, IInv, TypeOK, StoreTypeOK
  <2>3. Published(o)'
    BY <2>2 DEF Published
  <2>4. CallFact("setTombstone", r)'
    BY <2>1, <2>3 DEF CallFact, Carrying
  <2>5. pc'[c] = "setTombstone" /\ loc'[c] = r
    BY <1>4, <2>1 DEF SetGrace, Goto, IInv, TypeOK, CallerTypeOK
  <2>6. CallFact(pc[c], loc[c])'
    BY <2>4, <2>5 DEF CallFact
  <2>7. \A d \in Callers \ {c} : pc'[d] = pc[d] /\ loc'[d] = loc[d]
    BY <1>4 DEF SetGrace, Goto, IInv, TypeOK, CallerTypeOK
  <2> QED BY <1>0, <2>6, <2>7, FactsBut
<1>5. CASE SetTombstone(c)
  <2>1. CallFact("midCheck", loc[c])
    BY <1>0, <1>5 DEF CallFact, CallOK, SetTombstone, Carrying
  <2> QED BY <1>0, <1>5, <2>1, FactsGoto DEF SetTombstone
<1>6. CASE MidCheck(c)
  <2>1. loc[c].old \in RefreshTokens /\ SessionOf(loc[c].old) = loc[c].sess
    BY <1>0, <1>6 DEF CallFact, MidCheck
  <2>2. CASE loc[c].sess \in marker
    <3>1. CallFact("discard", loc[c])
      BY <2>1, <2>2 DEF CallFact, Carrying
    <3> QED BY <1>0, <1>6, <2>2, <3>1, FactsGoto DEF MidCheck
  <2>3. CASE loc[c].sess \notin marker
    <3>1. CallFact("touchGet", loc[c])
      BY <2>1 DEF CallFact, Carrying
    <3> QED BY <1>0, <1>6, <2>3, <3>1, FactsGoto DEF MidCheck
  <2> QED BY <2>2, <2>3
<1>7. CASE TouchGet(c)
  <2>1. CallFact("touchSet", loc[c]) /\ CallFact("issue", loc[c])
    BY <1>0, <1>7 DEF CallFact, Carrying, TouchGet
  <2> QED BY <1>0, <1>7, <2>1, FactsGoto DEF TouchGet
<1>8. CASE TouchSet(c)
  <2>1. CallFact("issue", loc[c])
    BY <1>0, <1>8 DEF CallFact, Carrying, TouchSet
  <2> QED BY <1>0, <1>8, <2>1, FactsGoto DEF TouchSet
<1> QED BY <1>1, <1>2, <1>3, <1>4, <1>5, <1>6, <1>7, <1>8

LEMMA AdoptFacts ==
  ASSUME IInv, Graceful, Forward, NEW c \in Callers,
         AwaitTombstone(c) \/ Backoff(c) \/ GraceGet(c) \/ AdoptCheck(c)
  PROVE  CallFacts'
<1> USE DEF Labels, Unfamiliar, HasOld
<1>0. CallFact(pc[c], loc[c]) /\ CallOK(pc[c], loc[c]) /\ CallFacts
  BY Here DEF Graceful, CallFacts
<1>1. CASE AwaitTombstone(c)
  <2>1. CASE loc[c].old \in consumed
    BY <1>1, <2>1, FoundFacts DEF AwaitTombstone
  <2>2. CASE loc[c].old \notin consumed
    <3>1. /\ pc'[c] \in Plain
          /\ \A d \in Callers \ {c} : pc'[d] = pc[d] /\ loc'[d] = loc[d]
      BY <1>1, <2>2 DEF AwaitTombstone, Return, Goto, Plain, IInv, TypeOK, CallerTypeOK
    <3> QED BY <1>0, <3>1, FactsPlain
  <2> QED BY <2>1, <2>2
<1>2. CASE Backoff(c)
  <2>1. CASE loc[c].old \in consumed
    BY <1>2, <2>1, FoundFacts DEF Backoff
  <2>2. CASE loc[c].old \notin consumed
    <3>1. /\ pc'[c] \in Plain
          /\ \A d \in Callers \ {c} : pc'[d] = pc[d] /\ loc'[d] = loc[d]
      BY <1>2, <2>2 DEF Backoff, Return, Goto, Plain, IInv, TypeOK, CallerTypeOK
    <3> QED BY <1>0, <3>1, FactsPlain
  <2> QED BY <2>1, <2>2
<1>3. CASE GraceGet(c)
  <2>1. CASE grace[loc[c].old] # NoToken
    <3>1. PICK o \in RefreshTokens, n \in RefreshTokens \cup {NoToken} :
            o = loc[c].old /\ n = grace[o] /\ SessionOf(o) = loc[c].sess
      BY <1>0, <1>3 DEF GraceGet, CallOK, IInv, TypeOK, StoreTypeOK
    <3>2. PICK r \in Locals : r = [loc[c] EXCEPT !.op = "adopt", !.new = n]
      <4>1. PICK q \in Locals : q = [loc[c] EXCEPT !.op = "adopt"]
        BY ZenonT(60), Here DEF Locals, Ops
      <4>2. [q EXCEPT !.new = n] \in Locals
        BY <3>1, <4>1 DEF Locals
      <4> QED BY <4>1, <4>2
    <3>3. r.old = o /\ r.sess = loc[c].sess
      BY <3>1, <3>2, Here DEF Locals
    <3>4. CallFact("adoptCheck", r)
      BY <3>1, <3>3 DEF CallFact, Carrying
    <3>5. loc' = [loc EXCEPT ![c] = r] /\ Goto(c, "adoptCheck")
      BY <1>3, <2>1, <3>1, <3>2 DEF GraceGet, IInv, TypeOK, CallerTypeOK
    <3>6. r.sess \in Sessions
      BY <1>0, <1>3, <3>3 DEF CallOK, GraceGet
    <3> QED BY <1>0, <3>4, <3>5, <3>6, FactsMove
  <2>2. CASE grace[loc[c].old] = NoToken
    <3>1. /\ pc'[c] \in Plain
          /\ \A d \in Callers \ {c} : pc'[d] = pc[d] /\ loc'[d] = loc[d]
      BY <1>3, <2>2 DEF GraceGet, EnterFamily, Goto, Plain, IInv, TypeOK, CallerTypeOK
    <3> QED BY <1>0, <3>1, FactsPlain
  <2> QED BY <2>1, <2>2
<1>4. CASE AdoptCheck(c)
  <2>1. CASE loc[c].sess \in marker
    <3>1. /\ pc'[c] \in Plain
          /\ \A d \in Callers \ {c} : pc'[d] = pc[d] /\ loc'[d] = loc[d]
      BY <1>4, <2>1 DEF AdoptCheck, Return, Goto, Plain, IInv, TypeOK, CallerTypeOK
    <3> QED BY <1>0, <3>1, FactsPlain
  <2>2. CASE loc[c].sess \notin marker
    <3>1. CallFact("issue", loc[c])
      BY <1>0, <1>4 DEF CallFact, Carrying, AdoptCheck
    <3> QED BY <1>0, <1>4, <2>2, <3>1, FactsGoto DEF AdoptCheck
  <2> QED BY <2>1, <2>2
<1> QED BY <1>1, <1>2, <1>3, <1>4

LEMMA IssueFacts ==
  ASSUME IInv, Graceful, Forward, NEW c \in Callers,
         \/ IssueRecord(c) \/ IssueId(c) \/ IssueIndex(c) \/ IssueSigned(c) \/ PostCheck(c)
  PROVE  CallFacts'
<1> USE DEF Labels, Unfamiliar, HasOld
<1>0. CallFact(pc[c], loc[c]) /\ CallOK(pc[c], loc[c]) /\ CallFacts
  BY Here DEF Graceful, CallFacts
<1>1. ASSUME NEW l \in {"issueId", "postCheck"}, pc[c] = "issue", MintAccess(c, FreshAccess), Goto(c, l)
      PROVE  CallFacts'
  <2>1. PICK r \in Locals : r = [loc[c] EXCEPT !.acc = FreshAccess]
    BY <1>1, AccType, FreshAccessOK, Here DEF MintAccess, Locals
  <2>2. r.old = loc[c].old /\ r.sess = loc[c].sess /\ r.op = loc[c].op
    BY <2>1, Here DEF Locals
  <2>3. CallFact(l, r)
    BY <1>0, <1>1, <2>2 DEF CallFact, Carrying
  <2>4. loc' = [loc EXCEPT ![c] = r]
    BY <1>1, <2>1 DEF MintAccess, IInv, TypeOK, CallerTypeOK
  <2>5. r.sess \in Sessions
    BY <1>0, <1>1, <2>2 DEF CallOK
  <2> QED BY <1>0, <1>1, <2>3, <2>4, <2>5, FactsMove
<1>2. CASE IssueRecord(c)
  BY <1>1, <1>2 DEF IssueRecord
<1>3. CASE IssueSigned(c)
  BY <1>1, <1>3 DEF IssueSigned
<1>4. CASE IssueId(c)
  <2>1. CallFact("issueIndex", loc[c])
    BY <1>0, <1>4 DEF CallFact, Carrying, IssueId
  <2> QED BY <1>0, <1>4, <2>1, FactsGoto DEF IssueId
<1>5. CASE IssueIndex(c)
  <2>1. CallFact("postCheck", loc[c])
    BY <1>0, <1>5 DEF CallFact, Carrying, IssueIndex
  <2> QED BY <1>0, <1>5, <2>1, FactsGoto DEF IssueIndex
<1>6. CASE PostCheck(c)
  <2>1. CASE loc[c].sess \in marker
    <3>1. CallFact("undoLookup", loc[c])
      BY <1>0, <1>6 DEF CallFact, Carrying, PostCheck
    <3> QED BY <1>0, <1>6, <2>1, <3>1, FactsGoto DEF PostCheck
  <2>2. CASE loc[c].sess \notin marker
    <3>1. /\ pc'[c] \in Plain
          /\ \A d \in Callers \ {c} : pc'[d] = pc[d] /\ loc'[d] = loc[d]
      BY <1>6, <2>2 DEF PostCheck, Return, Goto, Plain, IInv, TypeOK, CallerTypeOK
    <3> QED BY <1>0, <3>1, FactsPlain
  <2> QED BY <2>1, <2>2
<1> QED BY <1>2, <1>3, <1>4, <1>5, <1>6

LEMMA UndoFacts ==
  ASSUME IInv, Graceful, Forward, NEW c \in Callers,
         \/ UndoLookup(c) \/ UndoRead(c) \/ UndoDelete(c) \/ UndoUnindex(c) \/ UndoDeny(c)
  PROVE  CallFacts'
<1> USE DEF Labels, Unfamiliar, HasOld
<1>0. CallFact(pc[c], loc[c]) /\ CallOK(pc[c], loc[c]) /\ CallFacts
  BY Here DEF Graceful, CallFacts
<1>1. ASSUME AfterUndo(c) PROVE CallFacts'
  BY <1>1, AfterUndoFacts DEF UndoLookup, UndoRead, UndoDelete, UndoUnindex, UndoDeny, Undoing
<1>2. CASE UndoLookup(c)
  <2>1. CallFact("undoRead", loc[c])
    BY <1>0, <1>2 DEF CallFact, Carrying, UndoLookup
  <2> QED BY <1>0, <1>1, <1>2, <2>1, FactsGoto DEF UndoLookup
<1>3. CASE UndoRead(c)
  <2> DEFINE b == loc[c].acc \in at
  <2>0. b \in BOOLEAN
    BY Here
  <2>1. PICK r \in Locals : r = [loc[c] EXCEPT !.found = b]
    BY <2>0, Here, FoundType
  <2>2. r.old = loc[c].old /\ r.sess = loc[c].sess /\ r.op = loc[c].op
    BY <2>1, Here DEF Locals
  <2>3. CallFact("undoDelete", r)
    BY <1>0, <1>3, <2>2 DEF CallFact, Carrying, UndoRead
  <2>4. loc' = [loc EXCEPT ![c] = r]
    BY <1>3, <2>1 DEF UndoRead, IInv, TypeOK, CallerTypeOK
  <2>5. r.sess \in Sessions
    BY <1>0, <1>3, <2>2 DEF CallOK, UndoRead
  <2> QED BY <1>0, <1>3, <2>3, <2>4, <2>5, FactsMove DEF UndoRead
<1>4. CASE UndoDelete(c)
  <2>1. CallFact("undoUnindex", loc[c])
    BY <1>0, <1>4 DEF CallFact, Carrying, UndoDelete
  <2> QED BY <1>0, <1>1, <1>4, <2>1, FactsGoto DEF UndoDelete
<1>5. CASE UndoUnindex(c) \/ UndoDeny(c)
  BY <1>1, <1>5 DEF UndoUnindex, UndoDeny
<1> QED BY <1>2, <1>3, <1>4, <1>5

LEMMA CallFactsNext == ASSUME IInv, Graceful, Forward, [Next]_vars PROVE CallFacts'
<1>1. ASSUME NEW c \in Callers, CallStep(c) \/ CallerStep(c) \/ Fail(c)
      PROVE  CallFacts'
  BY <1>1, PlainSteps, FactsPlain, RotateFacts, AdoptFacts, IssueFacts, UndoFacts
     DEF CallerStep, Graceful
<1>2. ASSUME NEW c \in Callers, NEW s \in Sessions, FamStep(c, s) \/ FamFail(c, s)
      PROVE  UNCHANGED <<pc, loc>>
  BY Zenon, <1>2 DEF FamStep, FamFail, FamMarker, FamMeta, FamEnumerate, FamMarkEach, FamWipe,
     FamDrop, FamTokens, FamDelete, FamDeny, FamDropTokens, FamUnlist
<1>3. CASE (\E t \in RefreshTokens : GraceLapses(t)) \/ (\E s \in Sessions : FamilyAges(s))
           \/ Quiet \/ UNCHANGED vars
  <2>1. UNCHANGED <<pc, loc>>
    BY <1>3 DEF GraceLapses, FamilyAges, Quiet, vars
  <2> QED BY <2>1, FactsStill DEF Graceful
<1> QED BY <1>1, <1>2, <1>3, FactsStill DEF Next, Graceful

LEMMA GracefulNext == ASSUME IInv, Graceful, [Next]_vars PROVE Graceful'
<1>1. Forward
  BY StepsForward
<1> QED BY <1>1, EntombedNext, IndexNext, FramesNext, CallFactsNext DEF Graceful

LEMMA GracefulInit == Init => Graceful
  BY DEF Init, Graceful, Entombed, CallFacts, CallFact, IndexOwn, FramesOwn, Carrying,
     NoFrames, NoFrame

-----------------------------------------------------------------------------
(***************************************************************************)
(* A reuse is declared in one place.                                       *)
(***************************************************************************)
LEMMA Declared ==
  ASSUME IInv, NEW c \in Callers, CallStep(c) \/ CallerStep(c) \/ Fail(c),
         loc[c].op # "reuse", loc'[c].op = "reuse"
  PROVE  GraceGet(c) /\ grace[loc[c].old] = NoToken
<1> USE DEF IInv, TypeOK, CallerTypeOK
<1>1. loc' # loc /\ loc[c] \in Locals
  BY Here
<1>2. ~Return(c)
  BY DEF Return, NoLocals
<1>3. ASSUME NEW s, NEW o, EnterFamily(c, s, o) PROVE o = "reuse"
  BY <1>1, <1>3 DEF EnterFamily, Locals
<1>4. ~CallCreate(c) /\ ~CallRefresh(c) /\ ~CallRevokeAll(c) /\ ~CallList(c)
  <2>1. ASSUME NEW l, NEW r, Call(c, l, r) PROVE r.op = "reuse"
    BY <2>1 DEF Call
  <2>2. ASSUME CallCreate(c) PROVE FALSE
    <3>1. PICK s \in Sessions :
            Call(c, "writeSet", [NoLocals EXCEPT !.op = "create", !.sess = s, !.proof = TRUE])
      BY <2>2 DEF CallCreate
    <3>2. [NoLocals EXCEPT !.op = "create", !.sess = s, !.proof = TRUE].op = "create"
      BY DEF NoLocals
    <3> QED BY <2>1, <3>1, <3>2
  <2>3. ASSUME CallRefresh(c) PROVE FALSE
    <3>1. PICK t \in handedR, p \in BOOLEAN :
            Call(c, "peek", [NoLocals EXCEPT !.op = "refresh", !.sess = SessionOf(t),
                                             !.old = t, !.proof = p])
      BY <2>3 DEF CallRefresh
    <3>2. [NoLocals EXCEPT !.op = "refresh", !.sess = SessionOf(t), !.old = t, !.proof = p].op
             = "refresh"
      BY DEF NoLocals
    <3> QED BY <2>1, <3>1, <3>2
  <2>4. ASSUME CallRevokeAll(c) PROVE FALSE
    <3>1. PICK u, k :
            Call(c, "allRead", [NoLocals EXCEPT !.op = "revokeAll", !.user = u, !.known = k])
      BY <2>4 DEF CallRevokeAll
    <3>2. [NoLocals EXCEPT !.op = "revokeAll", !.user = u, !.known = k].op = "revokeAll"
      BY DEF NoLocals
    <3> QED BY <2>1, <3>1, <3>2
  <2>5. ASSUME CallList(c) PROVE FALSE
    <3>1. PICK u \in Users :
            Call(c, "listRead", [NoLocals EXCEPT !.op = "list", !.user = u])
      BY <2>5 DEF CallList
    <3>2. [NoLocals EXCEPT !.op = "list", !.user = u].op = "list"
      BY DEF NoLocals
    <3> QED BY <2>1, <3>1, <3>2
  <2> QED BY <2>2, <2>3, <2>4, <2>5
<1>5. ~CallRevoke(c)
  BY <1>3 DEF CallRevoke
<1>6. ~WriteSet(c) /\ ~Take(c) /\ ~UndoRead(c) /\ ~Backoff(c)
  BY <1>1, <1>2 DEF WriteSet, Take, UndoRead, Backoff, FoundTombstone, Locals
<1>7. ~EntryCheck(c) /\ ~(\E a : MintAccess(c, a))
  BY <1>1, <1>2, <1>3 DEF EntryCheck, MintAccess, Locals
<1>8. ~AllRead(c) /\ ~ListRead(c) /\ ~ListMeta(c)
  <2>1. ASSUME NEW x, NEW y, loc' = [loc EXCEPT ![c].snap = x, ![c].stale = y] PROVE FALSE
    BY <1>1, <2>1 DEF Locals
  <2>2. ASSUME NEW x, loc' = [loc EXCEPT ![c].snap = x] PROVE FALSE
    BY <1>1, <2>2 DEF Locals
  <2>3. ~AllRead(c) /\ ~ListRead(c)
    BY <1>1, <1>2, <2>2 DEF AllRead, ListRead
  <2>4. ASSUME ListMeta(c) PROVE FALSE
    <3>1. PICK s, x :
            \/ loc' = [loc EXCEPT ![c].snap = @ \ {s}, ![c].stale = x]
            \/ Return(c)
            \/ loc' = [loc EXCEPT ![c].snap = {}, ![c].stale = x]
      BY ZenonT(60), <2>4 DEF ListMeta
    <3>2. CASE loc' = [loc EXCEPT ![c].snap = @ \ {s}, ![c].stale = x]
      BY <1>1, <3>2 DEF Locals
    <3>3. CASE loc' = [loc EXCEPT ![c].snap = {}, ![c].stale = x]
      BY <1>1, <3>3 DEF Locals
    <3> QED BY <1>2, <3>1, <3>2, <3>3
  <2> QED BY <2>3, <2>4
<1>9. ~AfterUndo(c)
  BY <1>1, <1>3 DEF AfterUndo
<1>10. GraceGet(c)
  BY <1>1, <1>2, <1>4, <1>5, <1>6, <1>7, <1>8, <1>9 DEF CallStep, CallerStep, WriteIndex,
     CreateMeta, CreateUser, Peek, SetGrace, SetTombstone, MidCheck, TouchGet, TouchSet,
     Discard, AwaitTombstone, FoundTombstone, RevokedCheck, AdoptCheck, IssueRecord, IssueId,
     IssueIndex, IssueSigned, PostCheck, UndoLookup, UndoDelete, UndoUnindex, UndoDeny,
     FamilyEnded, AllRemove, ListPrune, Fail
<1>11. grace[loc[c].old] = NoToken
  BY <1>1, <1>10 DEF GraceGet, Locals
<1> QED BY <1>10, <1>11

\* What a call writes of the callers' state is its own.
LEMMA OwnState ==
  ASSUME IInv, NEW d \in Callers, CallStep(d) \/ CallerStep(d) \/ Fail(d),
         NEW c \in Callers \ {d}
  PROVE  pc'[c] = pc[c] /\ loc'[c] = loc[c] /\ fr'[c] = fr[c]
<1> DEFINE Loc == \E r : loc' = [loc EXCEPT ![d] = r]
           Fr == \E g : fr' = [fr EXCEPT ![d] = g]
<1>1. pc' = pc \/ \E l : Goto(d, l)
  BY Zenon DEF CallStep, CallCreate, CallRefresh, CallRevoke, CallRevokeAll, CallList, Call,
     EnterFamily, Return, CallerStep, WriteSet, WriteIndex, CreateMeta, CreateUser, Peek, Take,
     EntryCheck, SetGrace, SetTombstone, MidCheck, TouchGet, TouchSet, Discard,
     AwaitTombstone, FoundTombstone, RevokedCheck, Backoff, GraceGet, AdoptCheck, IssueRecord,
     IssueId, IssueIndex, IssueSigned, PostCheck, AfterUndo, UndoLookup, UndoRead, UndoDelete,
     UndoUnindex, UndoDeny, FamilyEnded, AllRead, AllRemove, ListRead, ListMeta, ListPrune, Fail
<1>2. ASSUME NEW s, NEW o, EnterFamily(d, s, o) PROVE Loc /\ Fr
  <2>1. fr' = [fr EXCEPT ![d] = [fr[d] EXCEPT ![s] = [NoFrame EXCEPT !.pc = "marker"]]]
    BY <1>2 DEF EnterFamily, SetFrame
  <2> QED BY <1>2, <2>1 DEF EnterFamily
<1>3. Return(d) => Loc /\ Fr
  BY DEF Return
<1>4. ASSUME NEW a, MintAccess(d, a) PROVE Loc
  BY <1>4 DEF MintAccess
<1>5. ASSUME NEW l, NEW r, Call(d, l, r) PROVE Loc /\ fr' = fr
  BY <1>5 DEF Call
<1>6. CASE CallStep(d)
  <2>1. Loc /\ (fr' = fr \/ Fr)
    BY <1>2, <1>5, <1>6 DEF CallStep, CallCreate, CallRefresh, CallRevoke, CallRevokeAll, CallList
  <2> QED BY <1>1, <2>1 DEF Goto, IInv, TypeOK, CallerTypeOK, FrameTypeOK
<1>7. CASE \/ WriteSet(d) \/ Take(d) \/ UndoRead(d) \/ Backoff(d) \/ GraceGet(d)
           \/ EntryCheck(d) \/ AllRead(d) \/ ListRead(d) \/ ListMeta(d)
  <2>1. loc' = loc \/ Loc
    BY <1>2, <1>3, <1>7 DEF WriteSet, Take, UndoRead, Backoff, GraceGet, EntryCheck,
       AllRead, ListRead, ListMeta, FoundTombstone
  <2>2. fr' = fr \/ Fr
    BY <1>2, <1>3, <1>7 DEF WriteSet, Take, UndoRead, Backoff, GraceGet, EntryCheck,
       AllRead, ListRead, ListMeta, FoundTombstone
  <2> QED BY <1>1, <2>1, <2>2 DEF Goto, IInv, TypeOK, CallerTypeOK, FrameTypeOK
<1>8. CASE ~CallStep(d) /\ ~(\/ WriteSet(d) \/ Take(d) \/ UndoRead(d) \/ Backoff(d)
            \/ GraceGet(d) \/ EntryCheck(d) \/ AllRead(d) \/ ListRead(d) \/ ListMeta(d))
  <2>1. (loc' = loc \/ Loc) /\ (fr' = fr \/ Fr)
    BY <1>2, <1>3, <1>4, <1>8 DEF CallerStep, WriteIndex, CreateMeta, CreateUser,
       Peek, SetGrace, SetTombstone, MidCheck, TouchGet, TouchSet, Discard, AwaitTombstone,
       FoundTombstone, RevokedCheck, AdoptCheck, IssueRecord, IssueId, IssueIndex,
       IssueSigned, PostCheck, AfterUndo, UndoLookup, UndoDelete, UndoUnindex, UndoDeny,
       FamilyEnded, AllRemove, ListPrune, Fail
  <2> QED BY <1>1, <2>1 DEF Goto, IInv, TypeOK, CallerTypeOK, FrameTypeOK
<1> QED BY <1>6, <1>7, <1>8

LEMMA FamiliesWait ==
  ASSUME NEW d \in Callers, NEW s \in Sessions, FamStep(d, s) \/ FamFail(d, s)
  PROVE  UNCHANGED <<pc, loc>> /\ fr[d][s].pc # "none" /\ \E f : SetFrame(d, s, f)
  BY Zenon DEF FamStep, FamFail, FamMarker, FamMeta, FamEnumerate, FamMarkEach, FamWipe,
     FamDrop, FamTokens, FamDelete, FamDeny, FamDropTokens, FamUnlist, FrameGoto

\* A call moves by a step of its own.
LEMMA OwnStep ==
  ASSUME IInv, [Next]_vars, NEW c \in Callers, <<pc'[c], loc'[c]>> # <<pc[c], loc[c]>>
  PROVE  CallStep(c) \/ CallerStep(c) \/ Fail(c)
<1>1. CASE (\E t \in RefreshTokens : GraceLapses(t)) \/ (\E s \in Sessions : FamilyAges(s))
           \/ Quiet \/ UNCHANGED vars
  BY <1>1 DEF GraceLapses, FamilyAges, Quiet, vars
<1> QED BY <1>1, OwnState, FamiliesWait DEF Next

ReuseStep ==
    \A c \in Callers :
        loc[c].op # "reuse" /\ loc'[c].op = "reuse" =>
            loc[c].old \in lapsed \/ ~GraceOn \/ loc[c].sess \in marker

LEMMA ReuseNext == ASSUME IInv, Graceful, [Next]_vars PROVE ReuseStep
<1> SUFFICES ASSUME NEW c \in Callers, loc[c].op # "reuse", loc'[c].op = "reuse"
             PROVE  loc[c].old \in lapsed \/ ~GraceOn \/ loc[c].sess \in marker
  BY DEF ReuseStep
<1>1. GraceGet(c) /\ grace[loc[c].old] = NoToken
  BY OwnStep, Declared
<1>2. Published(loc[c].old) /\ SessionOf(loc[c].old) = loc[c].sess
  BY <1>1, Here DEF GraceGet, Graceful, CallFacts, CallFact, CallOK, HasOld
<1> QED BY <1>1, <1>2 DEF Published

LEMMA GracefulAlways == Spec => []Graceful
<1>1. Init => Graceful
  BY GracefulInit
<1>2. IInv /\ Graceful /\ [Next]_vars => Graceful'
  BY GracefulNext
<1> QED BY <1>1, <1>2, Invariance, PTL DEF Spec

\* A tab that loses a rotation race never raises the alarm: whatever calls run
\* at once, #resolveNonLive takes the reuse response only over a grace mapping
\* that was published and has lapsed, with no grace window at all, or for a
\* session a revocation has already begun on.
THEOREM ReuseMeansLate == Spec => ReuseOnlyPastGrace
<1>1. IInv /\ Graceful /\ [Next]_vars =>
         [\A c \in Callers :
             loc[c].op # "reuse" /\ loc'[c].op = "reuse" =>
                \/ loc[c].old \in lapsed
                \/ ~GraceOn
                \/ loc[c].sess \in marker]_vars
  BY ReuseNext DEF ReuseStep
<1> QED BY <1>1, Invariance, GracefulAlways, PTL DEF Spec, ReuseOnlyPastGrace

-----------------------------------------------------------------------------
(***************************************************************************)
(* A call that presents a bound token without the family's key stays where *)
(* it only reads, and runs no revocation.                                  *)
(***************************************************************************)
Reading == {"peek", "take", "awaitTombstone", "revokedCheck", "backoff"}

Wrong(r) == r.sess \in Bound /\ ~r.proof

KeyFact(l, r) ==
    /\ l = "idle" => r.op = "none"
    /\ Wrong(r) => l \in Reading \cup {"idle"} \/ (l = "awaitFamily" /\ r.op = "revoke")
    /\ Wrong(r) /\ l = "take" => r.old \notin rt

\* A call that waits for no revocation runs none.
Unhurried(c) ==
    pc[c] \notin {"awaitFamily", "awaitAll"} => \A s \in Sessions : fr[c][s].pc = "none"

KeyFacts == \A c \in Callers : KeyFact(pc[c], loc[c])
FramesWaited == \A c \in Callers : Unhurried(c)

Inert == KeyFacts /\ FramesWaited

\* A record that appears is one just minted.
LEMMA RecordsAreNew ==
  ASSUME IInv, [Next]_vars, NEW t \in rt', t \notin rt
  PROVE  ~Minted(t)
<1>1. ASSUME NEW c \in Callers, WriteSet(c) PROVE ~Minted(t)
  <2>1. FreshToken \in RefreshTokens /\ ~Minted(FreshToken)
    BY <1>1, FreshTokenOK DEF WriteSet
  <2>2. rt' \subseteq rt \cup {FreshToken}
    BY <1>1 DEF WriteSet
  <2> QED BY <2>1, <2>2
<1>2. ASSUME NEW c \in Callers, CallStep(c) \/ CallerStep(c) \/ Fail(c)
      PROVE  WriteSet(c)
  BY Zenon, <1>2 DEF CallStep, CallCreate, CallRefresh, CallRevoke, CallRevokeAll, CallList, Call,
     CallerStep, WriteIndex, CreateMeta, CreateUser, Peek, Take, EntryCheck, SetGrace,
     SetTombstone, MidCheck, TouchGet, TouchSet, Discard, AwaitTombstone, RevokedCheck,
     Backoff, GraceGet, AdoptCheck, IssueRecord, IssueId, IssueIndex, IssueSigned, PostCheck,
     UndoLookup, UndoRead, UndoDelete, UndoUnindex, UndoDeny, FamilyEnded, AllRead, AllRemove,
     ListRead, ListMeta, ListPrune, Fail, refreshKeys
<1>3. ASSUME NEW c \in Callers, NEW s \in Sessions, FamStep(c, s) \/ FamFail(c, s)
      PROVE  FALSE
  BY Zenon, <1>3 DEF FamStep, FamFail, FamMarker, FamMeta, FamEnumerate, FamMarkEach, FamWipe,
     FamDrop, FamTokens, FamDelete, FamDeny, FamDropTokens, FamUnlist, refreshKeys
<1>4. ASSUME NEW s \in Sessions, FamilyAges(s) PROVE FALSE
  BY <1>4 DEF FamilyAges
<1>5. ASSUME NEW u \in RefreshTokens, GraceLapses(u) PROVE FALSE
  BY <1>5 DEF GraceLapses
<1>6. ~Quiet /\ ~UNCHANGED vars
  BY DEF Quiet, vars, refreshKeys
<1> QED BY <1>1, <1>2, <1>3, <1>4, <1>5, <1>6 DEF Next

\* A call that does not move keeps its fact.
LEMMA KeyFactKept ==
  ASSUME IInv, [Next]_vars, NEW c \in Callers, KeyFact(pc[c], loc[c]),
         pc'[c] = pc[c], loc'[c] = loc[c]
  PROVE  KeyFact(pc[c], loc[c])'
<1>1. ASSUME pc[c] = "take", loc[c].old \notin rt PROVE loc[c].old \notin rt'
  <2>1. Minted(loc[c].old)
    BY <1>1, Here, ConstantsAssumption DEF CallOK, HasOld, Unfamiliar, Minted, NoRecord, SessionOf
  <2> QED BY <1>1, <2>1, RecordsAreNew
<1> QED BY <1>1 DEF KeyFact, Wrong

\* A call that starts: only a refresh may lack the key.
LEMMA StartsKeyed ==
  ASSUME IInv, NEW c \in Callers, CallStep(c)
  PROVE  KeyFact(pc[c], loc[c])'
<1> USE DEF IInv, TypeOK, CallerTypeOK
<1>1. ASSUME NEW l \in Labels, NEW r, Call(c, l, r), l \notin {"idle", "take"},
             Wrong(r) => l = "peek"
      PROVE  KeyFact(pc[c], loc[c])'
  <2>1. pc'[c] = l /\ loc'[c] = r
    BY <1>1 DEF Call, Goto
  <2> QED BY <1>1, <2>1 DEF KeyFact, Wrong, Reading
<1>2. CASE CallCreate(c)
  <2>1. PICK s \in Sessions :
          Call(c, "writeSet", [NoLocals EXCEPT !.op = "create", !.sess = s, !.proof = TRUE])
    BY <1>2 DEF CallCreate
  <2>2. [NoLocals EXCEPT !.op = "create", !.sess = s, !.proof = TRUE].proof
    BY DEF NoLocals
  <2> QED BY <1>1, <2>1, <2>2 DEF Wrong, Labels
<1>3. CASE CallRefresh(c)
  <2>1. PICK t \in handedR, p \in BOOLEAN :
          Call(c, "peek", [NoLocals EXCEPT !.op = "refresh", !.sess = SessionOf(t),
                                           !.old = t, !.proof = p])
    BY <1>3 DEF CallRefresh
  <2> QED BY <1>1, <2>1 DEF Labels
<1>4. CASE CallRevokeAll(c)
  <2>1. PICK u, k :
          Call(c, "allRead", [NoLocals EXCEPT !.op = "revokeAll", !.user = u, !.known = k])
    BY <1>4 DEF CallRevokeAll
  <2>2. [NoLocals EXCEPT !.op = "revokeAll", !.user = u, !.known = k].sess = NoSession
    BY DEF NoLocals
  <2> QED BY <1>1, <2>1, <2>2, ConstantsAssumption DEF Wrong, Labels
<1>5. CASE CallList(c)
  <2>1. PICK u \in Users : Call(c, "listRead", [NoLocals EXCEPT !.op = "list", !.user = u])
    BY <1>5 DEF CallList
  <2>2. [NoLocals EXCEPT !.op = "list", !.user = u].sess = NoSession
    BY DEF NoLocals
  <2> QED BY <1>1, <2>1, <2>2, ConstantsAssumption DEF Wrong, Labels
<1>6. CASE CallRevoke(c)
  <2>1. PICK s \in Nameable : EnterFamily(c, s, "revoke")
    BY <1>6 DEF CallRevoke
  <2>2. pc'[c] = "awaitFamily" /\ loc'[c].op = "revoke"
    BY <2>1, Here DEF EnterFamily, Goto, Locals
  <2> QED BY <2>2 DEF KeyFact
<1> QED BY <1>2, <1>3, <1>4, <1>5, <1>6 DEF CallStep

LEMMA ReturnsKeyed ==
  ASSUME IInv, NEW c \in Callers, Return(c)
  PROVE  KeyFact(pc[c], loc[c])'
<1>1. pc'[c] = "idle" /\ loc'[c] = NoLocals
  BY SMTT(40) DEF Return, Goto, IInv, TypeOK, CallerTypeOK
<1> QED BY <1>1, ConstantsAssumption DEF KeyFact, Wrong, NoLocals

\* A call that only reads and lacks the key goes on reading, or is refused.
LEMMA ReadsInert ==
  ASSUME IInv, NEW c \in Callers, CallerStep(c), pc[c] \in Reading, Wrong(loc[c]),
         KeyFact(pc[c], loc[c])
  PROVE  /\ Return(c) \/ (pc'[c] \in Reading /\ UNCHANGED fr)
         /\ KeyFact(pc[c], loc[c])'
         /\ UNCHANGED <<refreshKeys, sessionKeys, accessKeys, minted>>
<1> USE DEF Reading, IInv, TypeOK, CallerTypeOK
<1>1. ~Matches(c, loc[c].sess)
  BY DEF Matches, Wrong
<1>2. CASE Peek(c)
  BY <1>1, <1>2, ReturnsKeyed, Here DEF Peek, Goto, KeyFact, Wrong, refreshKeys, CallOK, HasOld
<1>3. CASE Take(c)
  <2>1. loc[c].old \notin rt
    BY <1>3 DEF KeyFact, Take
  <2> QED BY <1>3, <2>1 DEF Take, Goto, KeyFact, Wrong, refreshKeys
<1>4. CASE AwaitTombstone(c)
  BY <1>1, <1>4, ReturnsKeyed DEF AwaitTombstone, FoundTombstone, Goto, KeyFact, Wrong
<1>5. CASE RevokedCheck(c)
  BY <1>5, ReturnsKeyed DEF RevokedCheck, Goto, KeyFact, Wrong
<1>6. CASE Backoff(c)
  <2>1. CASE Return(c)
    BY <1>6, <2>1, ReturnsKeyed DEF Backoff
  <2>2. CASE ~Return(c)
    <3>1. pc' = pc /\ fr' = fr /\ pc[c] = "backoff"
      BY <1>1, <1>6, <2>2 DEF Backoff, FoundTombstone
    <3> QED BY <1>6, <3>1 DEF Backoff, KeyFact
  <2> QED BY <2>1, <2>2
<1> QED BY <1>2, <1>3, <1>4, <1>5, <1>6 DEF CallerStep, WriteSet, WriteIndex, CreateMeta,
     CreateUser, EntryCheck, SetGrace, SetTombstone, MidCheck, TouchGet, TouchSet, Discard,
     GraceGet, AdoptCheck, IssueRecord, IssueId, IssueIndex, IssueSigned, PostCheck,
     UndoLookup, UndoRead, UndoDelete, UndoUnindex, UndoDeny, FamilyEnded, AllRead, AllRemove,
     ListRead, ListMeta, ListPrune

\* A call never changes its session or its key.
LEMMA KeyStays ==
  ASSUME IInv, NEW c \in Callers, CallerStep(c)
  PROVE  \/ Return(c)
         \/ /\ pc'[c] # "idle"
            /\ loc'[c].sess = loc[c].sess /\ loc'[c].proof = loc[c].proof
<1> USE DEF IInv, TypeOK, CallerTypeOK
<1>1. loc[c] \in Locals
  BY Here
<1>2. ASSUME NEW o, EnterFamily(c, loc[c].sess, o)
      PROVE  /\ pc'[c] # "idle"
             /\ loc'[c].sess = loc[c].sess /\ loc'[c].proof = loc[c].proof
  BY <1>1, <1>2 DEF EnterFamily, Goto, Locals
<1>3. CASE WriteSet(c) \/ Take(c) \/ UndoRead(c) \/ Backoff(c)
  BY <1>1, <1>3 DEF WriteSet, Take, UndoRead, Backoff, FoundTombstone, Goto, Locals
<1>4. CASE EntryCheck(c) \/ GraceGet(c)
  BY <1>1, <1>2, <1>4 DEF EntryCheck, GraceGet, Goto, Locals
<1>5. CASE IssueRecord(c) \/ IssueSigned(c)
  BY <1>1, <1>5 DEF IssueRecord, IssueSigned, MintAccess, Goto, Locals
<1>6. CASE AllRead(c) \/ ListRead(c)
  BY <1>1, <1>6 DEF AllRead, ListRead, Goto, Locals
<1>7. CASE ListMeta(c)
  <2>1. PICK s, x :
          \/ loc' = [loc EXCEPT ![c].snap = @ \ {s}, ![c].stale = x] /\ UNCHANGED pc
          \/ Return(c)
          \/ loc' = [loc EXCEPT ![c].snap = {}, ![c].stale = x] /\ Goto(c, "listPrune")
    BY <1>7 DEF ListMeta
  <2>2. CASE loc' = [loc EXCEPT ![c].snap = @ \ {s}, ![c].stale = x] /\ UNCHANGED pc
    BY <1>1, <1>7, <2>2 DEF Locals, ListMeta
  <2>3. CASE loc' = [loc EXCEPT ![c].snap = {}, ![c].stale = x] /\ Goto(c, "listPrune")
    BY <1>1, <2>3 DEF Locals, Goto
  <2> QED BY <2>1, <2>2, <2>3
<1>8. CASE UndoLookup(c) \/ UndoDelete(c) \/ UndoUnindex(c) \/ UndoDeny(c)
  BY <1>2, <1>8 DEF UndoLookup, UndoDelete, UndoUnindex, UndoDeny, AfterUndo, Goto
<1>9. CASE \/ WriteIndex(c) \/ CreateMeta(c) \/ CreateUser(c) \/ Peek(c) \/ SetGrace(c)
           \/ SetTombstone(c) \/ MidCheck(c) \/ TouchGet(c) \/ TouchSet(c) \/ Discard(c)
           \/ AwaitTombstone(c) \/ RevokedCheck(c) \/ AdoptCheck(c) \/ IssueId(c)
           \/ IssueIndex(c) \/ PostCheck(c) \/ FamilyEnded(c) \/ AllRemove(c) \/ ListPrune(c)
  BY <1>9 DEF WriteIndex, CreateMeta, CreateUser, Peek, SetGrace, SetTombstone, MidCheck,
     TouchGet, TouchSet, Discard, AwaitTombstone, FoundTombstone, RevokedCheck, AdoptCheck,
     IssueId, IssueIndex, PostCheck, FamilyEnded, AllRemove, ListPrune, Goto
<1> QED BY <1>3, <1>4, <1>5, <1>6, <1>7, <1>8, <1>9 DEF CallerStep

LEMMA KeyFactsNext ==
  ASSUME IInv, KeyFacts, [Next]_vars
  PROVE  KeyFacts'
<1> SUFFICES ASSUME NEW c \in Callers PROVE KeyFact(pc[c], loc[c])'
  BY DEF KeyFacts
<1>1. KeyFact(pc[c], loc[c])
  BY DEF KeyFacts
<1>2. CASE pc'[c] = pc[c] /\ loc'[c] = loc[c]
  BY <1>1, <1>2, KeyFactKept
<1>3. CASE CallStep(c)
  BY <1>3, StartsKeyed
<1>4. CASE Fail(c)
  BY <1>4, ReturnsKeyed DEF Fail
<1>5. CASE CallerStep(c)
  <2>1. CASE pc[c] \in Reading /\ Wrong(loc[c])
    BY <1>1, <1>5, <2>1, ReadsInert
  <2>2. CASE ~Wrong(loc[c])
    BY <1>5, <2>2, KeyStays, ReturnsKeyed DEF KeyFact, Wrong
  <2>3. CASE pc[c] = "awaitFamily"
    <3>1. FamilyEnded(c)
      BY SMTT(40), <1>5, <2>3 DEF CallerStep, WriteSet, WriteIndex, CreateMeta, CreateUser, Peek, Take,
         EntryCheck, SetGrace, SetTombstone, MidCheck, TouchGet, TouchSet, Discard,
         AwaitTombstone, RevokedCheck, Backoff, GraceGet, AdoptCheck, IssueRecord, IssueId,
         IssueIndex, IssueSigned, PostCheck, UndoLookup, UndoRead, UndoDelete, UndoUnindex,
         UndoDeny, AllRead, AllRemove, ListRead, ListMeta, ListPrune
    <3> QED BY <3>1, ReturnsKeyed DEF FamilyEnded
  <2>4. pc[c] # "idle"
    BY <1>5 DEF CallerStep, WriteSet, WriteIndex, CreateMeta, CreateUser, Peek, Take,
       EntryCheck, SetGrace, SetTombstone, MidCheck, TouchGet, TouchSet, Discard,
       AwaitTombstone, RevokedCheck, Backoff, GraceGet, AdoptCheck, IssueRecord, IssueId,
       IssueIndex, IssueSigned, PostCheck, UndoLookup, UndoRead, UndoDelete, UndoUnindex,
       UndoDeny, FamilyEnded, AllRead, AllRemove, ListRead, ListMeta, ListPrune
  <2> QED BY <1>1, <2>1, <2>2, <2>3, <2>4 DEF KeyFact
<1> QED BY <1>2, <1>3, <1>4, <1>5, OwnStep

\* A call that begins to wait says so, and one that stops waiting returns.
LEMMA WaitsOpenly ==
  ASSUME IInv, NEW c \in Callers, CallStep(c) \/ CallerStep(c) \/ Fail(c)
  PROVE  \/ Return(c)
         \/ pc'[c] \in {"awaitFamily", "awaitAll"}
         \/ fr' = fr /\ pc[c] \notin {"awaitFamily", "awaitAll"}
<1> USE DEF IInv, TypeOK, CallerTypeOK
<1>1. ASSUME NEW s, NEW o, EnterFamily(c, s, o) PROVE pc'[c] = "awaitFamily"
  BY SMTT(40), <1>1 DEF EnterFamily, Goto
<1>2. CASE CallStep(c)
  BY <1>1, <1>2 DEF CallStep, CallCreate, CallRefresh, CallRevoke, CallRevokeAll, CallList, Call
<1>3. CASE AllRead(c)
  BY SMTT(40), <1>3 DEF AllRead, Goto
<1>4. CASE ~CallStep(c) /\ ~AllRead(c)
  BY <1>1, <1>4 DEF CallerStep, WriteSet, WriteIndex, CreateMeta, CreateUser, Peek, Take,
     EntryCheck, SetGrace, SetTombstone, MidCheck, TouchGet, TouchSet, Discard,
     AwaitTombstone, FoundTombstone, RevokedCheck, Backoff, GraceGet, AdoptCheck, IssueRecord,
     IssueId, IssueIndex, IssueSigned, PostCheck, AfterUndo, UndoLookup, UndoRead, UndoDelete,
     UndoUnindex, UndoDeny, FamilyEnded, AllRemove, ListRead, ListMeta, ListPrune, Fail
<1> QED BY <1>2, <1>3, <1>4

LEMMA ReturnIsQuiet ==
  ASSUME IInv, NEW c \in Callers, Return(c)
  PROVE  \A s \in Sessions : fr'[c][s].pc = "none"
  BY DEF Return, NoFrames, NoFrame, IInv, TypeOK, FrameTypeOK

LEMMA FramesWaitedNext ==
  ASSUME IInv, FramesWaited, [Next]_vars
  PROVE  FramesWaited'
<1> SUFFICES ASSUME NEW c \in Callers, pc'[c] \notin {"awaitFamily", "awaitAll"}
             PROVE  \A s \in Sessions : fr'[c][s].pc = "none"
  BY DEF FramesWaited, Unhurried
<1>1. pc[c] \notin {"awaitFamily", "awaitAll"} => \A s \in Sessions : fr[c][s].pc = "none"
  BY DEF FramesWaited, Unhurried
<1>2. CASE CallStep(c) \/ CallerStep(c) \/ Fail(c)
  BY <1>1, <1>2, WaitsOpenly, ReturnIsQuiet
<1>3. ASSUME NEW d \in Callers \ {c}, CallStep(d) \/ CallerStep(d) \/ Fail(d)
      PROVE  \A s \in Sessions : fr'[c][s].pc = "none"
  BY <1>1, <1>3, OwnState
<1>4. ASSUME NEW d \in Callers, NEW x \in Sessions, FamStep(d, x) \/ FamFail(d, x)
      PROVE  \A s \in Sessions : fr'[c][s].pc = "none"
  <2>1. UNCHANGED <<pc, loc>> /\ fr[d][x].pc # "none"
    BY <1>4, FamiliesWait
  <2>2. PICK f : SetFrame(d, x, f)
    BY <1>4, FamiliesWait
  <2>3. c # d
    BY <1>1, <2>1
  <2>4. fr'[c] = fr[c]
    BY <2>2, <2>3 DEF SetFrame, IInv, TypeOK, FrameTypeOK
  <2> QED BY <1>1, <2>1, <2>4
<1>5. CASE (\E t \in RefreshTokens : GraceLapses(t)) \/ (\E s \in Sessions : FamilyAges(s))
           \/ Quiet \/ UNCHANGED vars
  <2>1. UNCHANGED <<pc, fr>>
    BY <1>5 DEF GraceLapses, FamilyAges, Quiet, vars
  <2> QED BY <1>1, <2>1
<1> QED BY <1>2, <1>3, <1>4, <1>5 DEF Next

LEMMA InertInit == Init => Inert
  BY ConstantsAssumption DEF Init, Inert, KeyFacts, KeyFact, FramesWaited, Unhurried, Wrong,
     NoLocals, NoFrames, NoFrame

LEMMA InertAlways == Spec => []Inert
<1>1. Init => Inert
  BY InertInit
<1>2. IInv /\ Inert /\ [Next]_vars => Inert'
  BY KeyFactsNext, FramesWaitedNext DEF Inert
<1> QED BY <1>1, <1>2, Invariance, PTL DEF Spec

LEMMA InertNext ==
  ASSUME IInv, Inert, [Next]_vars, NEW c \in Callers,
         loc[c].sess \in Bound, ~loc[c].proof, loc[c].op \notin {"none", "revoke"},
         <<pc[c], loc[c]>>' # <<pc[c], loc[c]>>
  PROVE  /\ UNCHANGED <<refreshKeys, sessionKeys, accessKeys, minted>>
         /\ \A s \in Sessions : fr'[c][s].pc = "none"
<1>1. KeyFact(pc[c], loc[c]) /\ Wrong(loc[c]) /\ Unhurried(c)
  BY DEF Inert, KeyFacts, FramesWaited, Wrong
<1>2. pc[c] \in Reading
  BY <1>1 DEF KeyFact
<1>3. \A s \in Sessions : fr[c][s].pc = "none"
  BY <1>1, <1>2 DEF Unhurried, Reading
<1>4. CallerStep(c) \/ Fail(c)
  <2>1. ~CallStep(c)
    BY <1>2 DEF CallStep, CallCreate, CallRefresh, CallRevoke, CallRevokeAll, CallList, Call,
       Reading
  <2> QED BY <2>1, OwnStep
<1>5. CASE CallerStep(c)
  BY <1>1, <1>2, <1>3, <1>5, ReadsInert, ReturnIsQuiet
<1>6. CASE Fail(c)
  BY <1>6, ReturnIsQuiet DEF Fail
<1> QED BY <1>4, <1>5, <1>6

\* A stolen refresh token is of no use without the family's key: a call that
\* presents one of a bound session and cannot prove the key consumes no record,
\* writes no key of the store, mints nothing and revokes nothing, at any point
\* of any interleaving with the owner's rotations and with revocations.
THEOREM WrongKeyDoesNothing == Spec => WrongKeyIsInert
<1>1. IInv /\ Inert /\ [Next]_vars =>
         [\A c \in Callers :
             /\ loc[c].sess \in Bound /\ ~loc[c].proof
             /\ loc[c].op \notin {"none", "revoke"}
             /\ <<pc[c], loc[c]>>' # <<pc[c], loc[c]>>
             => /\ UNCHANGED <<refreshKeys, sessionKeys, accessKeys, minted>>
                /\ \A s \in Sessions : fr'[c][s].pc = "none"]_vars
  BY InertNext
<1> QED BY <1>1, Invariance, InertAlways, PTL DEF Spec, WrongKeyIsInert

-----------------------------------------------------------------------------
(***************************************************************************)
(* A session that stands, neither expired nor being revoked, is listed from *)
(* the moment its creation has indexed it: only a revocation, an expiry or  *)
(* a listing that saw it without metadata takes it out, and no listing sees *)
(* that.                                                                   *)
(***************************************************************************)
Standing(s) == phase[s] = "live" /\ s \notin marker
Described(s) == Standing(s) => s \in meta
Listed(s) == Standing(s) => s \in userIndex[UserOf[s]] /\ s \in meta

\* Where a call carries on a session that was handed out, or one that it has
\* created and indexed.
Refreshing == {"peek", "take", "entryCheck", "setGrace", "setTombstone", "midCheck",
               "touchGet", "touchSet", "awaitTombstone", "revokedCheck", "backoff",
               "graceGet", "adoptCheck", "issue", "issueId", "issueIndex", "postCheck"}

ListFact(l, r) ==
    /\ l \in Refreshing \/ (l \in {"writeSet", "writeIndex"} /\ r.op # "create") => Listed(r.sess)
    /\ l = "createUser" => Described(r.sess)
    /\ l = "listMeta" => \A s \in r.snap : Described(s)
    /\ l \in {"listRead", "listMeta", "listPrune"} => \A s \in r.stale : ~Standing(s)

ListFacts == \A c \in Callers : ListFact(pc[c], loc[c])
IndexDescribed == \A u \in Users, s \in Sessions : s \in userIndex[u] => Described(s)

Listing == LiveSessionsListed /\ IndexDescribed /\ ListFacts
-----------------------------------------------------------------------------
(***************************************************************************)
(* What a step may take away: only of a session that no longer stands.     *)
(***************************************************************************)
Steady ==
    \A s \in Sessions : /\ Standing(s)' => Standing(s)
                        /\ s \in meta /\ s \notin meta' => ~Standing(s)'
                        /\ s \in userIndex[UserOf[s]] /\ s \notin userIndex'[UserOf[s]]
                              => ~Standing(s)'

LEMMA PhasesPass ==
  ASSUME IInv, [Next]_vars, NEW s \in Sessions, Standing(s)'
  PROVE  Standing(s)
<1>1. phase' = phase \/ \E u \in Sessions : FamilyAges(u)
  <2>1. ASSUME NEW c \in Callers, CallStep(c) \/ CallerStep(c) \/ Fail(c)
        PROVE  phase' = phase
    BY Zenon, <2>1 DEF CallStep, CallCreate, CallRefresh, CallRevoke, CallRevokeAll, CallList, Call,
       CallerStep, WriteSet, WriteIndex, CreateMeta, CreateUser, Peek, Take, EntryCheck, SetGrace,
       SetTombstone, MidCheck, TouchGet, TouchSet, Discard, AwaitTombstone, RevokedCheck,
       Backoff, GraceGet, AdoptCheck, IssueRecord, IssueId, IssueIndex, IssueSigned, PostCheck,
       UndoLookup, UndoRead, UndoDelete, UndoUnindex, UndoDeny, FamilyEnded, AllRead, AllRemove,
       ListRead, ListMeta, ListPrune, Fail, bounds
  <2>2. ASSUME NEW c \in Callers, NEW u \in Sessions, FamStep(c, u) \/ FamFail(c, u)
        PROVE  phase' = phase
    BY Zenon, <2>2 DEF FamStep, FamFail, FamMarker, FamMeta, FamEnumerate, FamMarkEach, FamWipe,
       FamDrop, FamTokens, FamDelete, FamDeny, FamDropTokens, FamUnlist, bounds
  <2> QED BY <2>1, <2>2 DEF Next, GraceLapses, Quiet, vars, bounds
<1>2. ASSUME NEW u \in Sessions, FamilyAges(u) PROVE phase[s] = "live"
  BY <1>2 DEF FamilyAges, Standing, IInv, TypeOK, HistoryTypeOK
<1>3. s \notin marker
  BY MarkersStay DEF Standing
<1> QED BY <1>1, <1>2, <1>3 DEF Standing

LEMMA MetaStays ==
  ASSUME IInv, [Next]_vars, NEW s \in Sessions, s \in meta, s \notin meta'
  PROVE  ~Standing(s)'
<1>1. ASSUME NEW c \in Callers, CallStep(c) \/ CallerStep(c) \/ Fail(c)
      PROVE  ~Standing(s)'
  <2>1. meta' = meta \/ CreateMeta(c) \/ TouchSet(c)
    BY Zenon, <1>1 DEF CallStep, CallCreate, CallRefresh, CallRevoke, CallRevokeAll, CallList, Call,
       CallerStep, WriteSet, WriteIndex, CreateUser, Peek, Take, EntryCheck, SetGrace,
       SetTombstone, MidCheck, TouchGet, Discard, AwaitTombstone, RevokedCheck,
       Backoff, GraceGet, AdoptCheck, IssueRecord, IssueId, IssueIndex, IssueSigned, PostCheck,
       UndoLookup, UndoRead, UndoDelete, UndoUnindex, UndoDeny, FamilyEnded, AllRead, AllRemove,
       ListRead, ListMeta, ListPrune, Fail, sessionKeys
  <2>2. CASE CreateMeta(c)
    BY <2>2 DEF CreateMeta
  <2>3. CASE TouchSet(c)
    <3>1. s = loc[c].sess /\ phase[s] # "live" /\ phase' = phase
      BY <2>3 DEF TouchSet, bounds
    <3> QED BY <3>1 DEF Standing
  <2> QED BY <2>1, <2>2, <2>3
<1>2. ASSUME NEW c \in Callers, NEW u \in Sessions, FamStep(c, u) \/ FamFail(c, u)
      PROVE  ~Standing(s)'
  <2>1. meta' = meta \/ FamDrop(c, u)
    BY Zenon, <1>2 DEF FamStep, FamFail, FamMarker, FamMeta, FamEnumerate, FamMarkEach, FamWipe,
       FamTokens, FamDelete, FamDeny, FamDropTokens, FamUnlist, sessionKeys
  <2>2. CASE FamDrop(c, u)
    <3>1. s = u /\ fr[c][u].pc = "drop" /\ marker' = marker
      BY <2>2 DEF FamDrop
    <3> QED BY <3>1 DEF Standing, IInv, FramesOK
  <2> QED BY <2>1, <2>2
<1>3. ASSUME NEW u \in Sessions, FamilyAges(u) PROVE ~Standing(s)'
  <2>1. s = u /\ phase'[u] # "live"
    BY <1>3 DEF FamilyAges, IInv, TypeOK, HistoryTypeOK
  <2> QED BY <2>1 DEF Standing
<1>4. CASE (\E t \in RefreshTokens : GraceLapses(t)) \/ Quiet \/ UNCHANGED vars
  BY <1>4 DEF GraceLapses, Quiet, vars, sessionKeys
<1> QED BY <1>1, <1>2, <1>3, <1>4 DEF Next

LEMMA IndexStays ==
  ASSUME IInv, Listing, [Next]_vars, NEW s \in Sessions,
         s \in userIndex[UserOf[s]], s \notin userIndex'[UserOf[s]]
  PROVE  ~Standing(s)
<1>0. UserOf[s] \in Users
  BY ConstantsAssumption
<1>1. ASSUME NEW c \in Callers, CallStep(c) \/ CallerStep(c) \/ Fail(c)
      PROVE  ~Standing(s)
  <2>1. userIndex' = userIndex \/ CreateUser(c) \/ AllRemove(c) \/ ListPrune(c)
    BY Zenon, <1>1 DEF CallStep, CallCreate, CallRefresh, CallRevoke, CallRevokeAll, CallList, Call,
       CallerStep, WriteSet, WriteIndex, CreateMeta, Peek, Take, EntryCheck, SetGrace,
       SetTombstone, MidCheck, TouchGet, TouchSet, Discard, AwaitTombstone, RevokedCheck,
       Backoff, GraceGet, AdoptCheck, IssueRecord, IssueId, IssueIndex, IssueSigned, PostCheck,
       UndoLookup, UndoRead, UndoDelete, UndoUnindex, UndoDeny, FamilyEnded, AllRead,
       ListRead, ListMeta, Fail, sessionKeys
  <2>2. CASE CreateUser(c)
    <3>1. PICK v : userIndex' = [userIndex EXCEPT ![UserOf[v]] = @ \cup {v}]
                   \/ userIndex' = userIndex
      BY <2>2 DEF CreateUser
    <3> QED BY <1>0, <3>1 DEF IInv, TypeOK, StoreTypeOK
  <2>3. CASE AllRemove(c)
    <3>1. s \in Succeeded(c)
      BY <1>0, <2>3 DEF AllRemove, IInv, TypeOK, StoreTypeOK
    <3>2. fr[c][s].pc = "done"
      BY <3>1 DEF Succeeded
    <3> QED BY <3>2 DEF Standing, IInv, FramesOK
  <2>4. CASE ListPrune(c)
    <3>1. s \in loc[c].stale /\ pc[c] = "listPrune"
      BY <1>0, <2>4 DEF ListPrune, IInv, TypeOK, StoreTypeOK
    <3> QED BY <3>1 DEF Listing, ListFacts, ListFact
  <2> QED BY <2>1, <2>2, <2>3, <2>4
<1>2. ASSUME NEW c \in Callers, NEW u \in Sessions, FamStep(c, u) \/ FamFail(c, u)
      PROVE  ~Standing(s)
  <2>1. userIndex' = userIndex \/ FamUnlist(c, u)
    BY Zenon, <1>2 DEF FamStep, FamFail, FamMarker, FamMeta, FamEnumerate, FamMarkEach, FamWipe,
       FamDrop, FamTokens, FamDelete, FamDeny, FamDropTokens, sessionKeys
  <2>2. CASE FamUnlist(c, u)
    <3>1. s = u /\ fr[c][u].pc = "unlist"
      BY <1>0, <2>2 DEF FamUnlist, IInv, TypeOK, StoreTypeOK
    <3> QED BY <3>1 DEF Standing, IInv, FramesOK
  <2> QED BY <2>1, <2>2
<1>3. CASE \/ \E u \in Sessions : FamilyAges(u)
           \/ \E t \in RefreshTokens : GraceLapses(t)
           \/ Quiet \/ UNCHANGED vars
  BY <1>3 DEF FamilyAges, GraceLapses, Quiet, vars, sessionKeys
<1> QED BY <1>1, <1>2, <1>3 DEF Next

LEMMA StepsSteady == ASSUME IInv, Listing, [Next]_vars PROVE Steady
<1> SUFFICES ASSUME NEW s \in Sessions
             PROVE  /\ Standing(s)' => Standing(s)
                    /\ s \in meta /\ s \notin meta' => ~Standing(s)'
                    /\ s \in userIndex[UserOf[s]] /\ s \notin userIndex'[UserOf[s]]
                          => ~Standing(s)'
  BY DEF Steady
<1>1. Standing(s)' => Standing(s)
  BY PhasesPass
<1>2. s \in meta /\ s \notin meta' => ~Standing(s)'
  BY MetaStays
<1>3. s \in userIndex[UserOf[s]] /\ s \notin userIndex'[UserOf[s]] => ~Standing(s)
  BY IndexStays
<1> QED BY <1>1, <1>2, <1>3

LEMMA StillListed ==
  ASSUME Steady, NEW s \in Sessions
  PROVE  /\ Described(s) => Described(s)'
         /\ Listed(s) => Listed(s)'
  BY DEF Steady, Described, Listed

\* What is said of a call is kept by a step.
LEMMA ListFactKept ==
  ASSUME Steady, NEW l, NEW r, r.snap \subseteq Sessions, r.stale \subseteq Sessions,
         l \notin Unfamiliar => r.sess \in Sessions,
         ListFact(l, r)
  PROVE  ListFact(l, r)'
<1>1. l \in Refreshing \/ (l \in {"writeSet", "writeIndex"} /\ r.op # "create") => Listed(r.sess)'
  BY StillListed DEF ListFact, Refreshing, Unfamiliar
<1>2. l = "createUser" => Described(r.sess)'
  BY StillListed DEF ListFact, Unfamiliar
<1>3. l = "listMeta" => \A s \in r.snap : Described(s)'
  BY StillListed DEF ListFact
<1>4. l \in {"listRead", "listMeta", "listPrune"} => \A s \in r.stale : ~Standing(s)'
  BY DEF ListFact, Steady
<1> QED BY <1>1, <1>2, <1>3, <1>4 DEF ListFact

LEMMA LocalsType ==
  ASSUME NEW r \in Locals
  PROVE  r.snap \subseteq Sessions /\ r.stale \subseteq Sessions
  BY DEF Locals

\* Every caller but c stays where it is.
LEMMA ListFactsBut ==
  ASSUME IInv, Steady, ListFacts, NEW c \in Callers,
         \A d \in Callers \ {c} : pc'[d] = pc[d] /\ loc'[d] = loc[d],
         ListFact(pc[c], loc[c])'
  PROVE  ListFacts'
<1>1. ASSUME NEW d \in Callers \ {c} PROVE ListFact(pc[d], loc[d])'
  <2>1. PICK l \in Labels, r \in Locals : l = pc[d] /\ r = loc[d]
    BY DEF IInv, TypeOK, CallerTypeOK
  <2>2. CallOK(l, r) /\ ListFact(l, r)
    BY <2>1 DEF IInv, CallsOK, ListFacts
  <2>3. ListFact(l, r)'
    BY <2>2, LocalsType, ListFactKept DEF CallOK
  <2>4. pc'[d] = l /\ loc'[d] = r
    BY <2>1
  <2> QED BY <2>3, <2>4 DEF ListFact
<1> QED BY <1>1 DEF ListFacts

LEMMA ListFactsStill ==
  ASSUME IInv, Steady, ListFacts, UNCHANGED <<pc, loc>>
  PROVE  ListFacts'
<1> SUFFICES ASSUME NEW c \in Callers PROVE ListFact(pc[c], loc[c])'
  BY DEF ListFacts
<1>1. PICK l \in Labels, r \in Locals : l = pc[c] /\ r = loc[c]
  BY DEF IInv, TypeOK, CallerTypeOK
<1>2. CallOK(l, r) /\ ListFact(l, r)
  BY <1>1 DEF IInv, CallsOK, ListFacts
<1>3. ListFact(l, r)'
  BY <1>2, LocalsType, ListFactKept DEF CallOK
<1> QED BY <1>1, <1>3 DEF ListFact

\* A call moves to l with the locals r.
LEMMA ListFactsMove ==
  ASSUME IInv, Steady, ListFacts, NEW c \in Callers, NEW l \in Labels, NEW r \in Locals,
         Goto(c, l), loc' = [loc EXCEPT ![c] = r],
         l \notin Unfamiliar => r.sess \in Sessions,
         ListFact(l, r)
  PROVE  ListFacts'
<1>1. pc'[c] = l /\ loc'[c] = r
  BY DEF Goto, IInv, TypeOK, CallerTypeOK
<1>2. \A d \in Callers \ {c} : pc'[d] = pc[d] /\ loc'[d] = loc[d]
  BY DEF Goto, IInv, TypeOK, CallerTypeOK
<1>3. ListFact(l, r)'
  BY LocalsType, ListFactKept
<1>4. ListFact(pc[c], loc[c])'
  BY <1>1, <1>3 DEF ListFact
<1> QED BY <1>2, <1>4, ListFactsBut

\* A call that keeps its locals moves on.
LEMMA ListFactsGoto ==
  ASSUME IInv, Steady, ListFacts, NEW c \in Callers, NEW l \in Labels,
         Goto(c, l), loc' = loc, pc[c] \notin Unfamiliar,
         ListFact(l, loc[c])
  PROVE  ListFacts'
<1>1. PICK r \in Locals : r = loc[c]
  BY Here
<1>2. loc' = [loc EXCEPT ![c] = r]
  BY <1>1 DEF IInv, TypeOK, CallerTypeOK
<1>3. r.sess \in Sessions
  BY <1>1, Here DEF CallOK
<1> QED BY <1>1, <1>2, <1>3, ListFactsMove

\* Where nothing is said of a call.
Unsaid == {"idle", "createMeta", "undoLookup", "undoRead", "undoDelete", "undoUnindex",
           "discard", "awaitFamily", "allRead", "awaitAll"}

LEMMA ListFactsUnsaid ==
  ASSUME IInv, Steady, ListFacts, NEW c \in Callers, pc'[c] \in Unsaid,
         \A d \in Callers \ {c} : pc'[d] = pc[d] /\ loc'[d] = loc[d]
  PROVE  ListFacts'
<1>1. ListFact(pc[c], loc[c])'
  BY DEF ListFact, Unsaid, Refreshing
<1> QED BY <1>1, ListFactsBut

LEMMA ReturnUnsaid ==
  ASSUME IInv, Steady, ListFacts, NEW c \in Callers,
         Return(c) \/ (\E s, o : EnterFamily(c, s, o))
  PROVE  ListFacts'
<1>1. /\ pc'[c] \in Unsaid
      /\ \A d \in Callers \ {c} : pc'[d] = pc[d] /\ loc'[d] = loc[d]
  BY DEF Return, EnterFamily, Goto, Unsaid, IInv, TypeOK, CallerTypeOK
<1> QED BY <1>1, ListFactsUnsaid

\* A call goes on about a session that is listed.
LEMMA GoesOn ==
  ASSUME IInv, Steady, ListFacts, NEW c \in Callers, NEW l,
         pc[c] \in Refreshing, Goto(c, l), loc' = loc,
         l \in Refreshing \cup {"writeSet", "undoLookup", "discard"}
  PROVE  ListFacts'
<1>1. Listed(loc[c].sess)
  BY DEF ListFacts, ListFact
<1>2. ListFact(l, loc[c])
  BY <1>1 DEF ListFact, Refreshing
<1>3. l \in Labels /\ pc[c] \notin Unfamiliar
  BY DEF Refreshing, Unfamiliar, Labels
<1> QED BY <1>2, <1>3, ListFactsGoto

-----------------------------------------------------------------------------
(***************************************************************************)
(* The calls, one step at a time.                                          *)
(***************************************************************************)
LEMMA StartsListed ==
  ASSUME IInv, Listing, Steady, NEW c \in Callers, CallStep(c)
  PROVE  ListFacts'
<1>0. ListFacts
  BY DEF Listing
<1>1. CASE CallCreate(c)
  <2> PICK s \in Sessions :
        Call(c, "writeSet", [NoLocals EXCEPT !.op = "create", !.sess = s, !.proof = TRUE])
    BY <1>1 DEF CallCreate
  <2> DEFINE r == [NoLocals EXCEPT !.op = "create", !.sess = s, !.proof = TRUE]
  <2>1. Goto(c, "writeSet") /\ loc' = [loc EXCEPT ![c] = r]
    BY DEF Call
  <2>2. r \in Locals /\ r.sess = s /\ r.op = "create"
    BY NoLocalsType DEF Locals, Ops, NoLocals
  <2> HIDE DEF r
  <2>3. ListFact("writeSet", r)
    BY <2>2 DEF ListFact, Refreshing
  <2> QED BY <1>0, <2>1, <2>2, <2>3, ListFactsMove DEF Labels
<1>2. CASE CallRefresh(c)
  <2> PICK t \in handedR, p \in BOOLEAN :
        Call(c, "peek", [NoLocals EXCEPT !.op = "refresh", !.sess = SessionOf(t),
                                         !.old = t, !.proof = p])
    BY <1>2 DEF CallRefresh
  <2> DEFINE s == SessionOf(t)
             r == [NoLocals EXCEPT !.op = "refresh", !.sess = s, !.old = t, !.proof = p]
  <2>1. Goto(c, "peek") /\ loc' = [loc EXCEPT ![c] = r]
    BY DEF Call
  <2>2. s \in Sessions /\ t \in RefreshTokens /\ Listed(s)
    BY DEF IInv, MintedOK, TypeOK, HistoryTypeOK, Listing, LiveSessionsListed, Listed, Standing
  <2> HIDE DEF s
  <2>3. r \in Locals /\ r.sess = s
    BY <2>2, NoLocalsType DEF Locals, Ops, NoLocals
  <2> HIDE DEF r
  <2>4. ListFact("peek", r)
    BY <2>2, <2>3 DEF ListFact
  <2> QED BY <1>0, <2>1, <2>2, <2>3, <2>4, ListFactsMove DEF Labels
<1>3. CASE CallRevoke(c)
  BY <1>0, <1>3, ReturnUnsaid DEF CallRevoke
<1>4. CASE CallRevokeAll(c)
  <2>1. /\ pc'[c] \in Unsaid
        /\ \A d \in Callers \ {c} : pc'[d] = pc[d] /\ loc'[d] = loc[d]
    BY <1>4 DEF CallRevokeAll, Call, Goto, Unsaid, IInv, TypeOK, CallerTypeOK
  <2> QED BY <1>0, <2>1, ListFactsUnsaid
<1>5. CASE CallList(c)
  <2> PICK u \in Users : Call(c, "listRead", [NoLocals EXCEPT !.op = "list", !.user = u])
    BY <1>5 DEF CallList
  <2> DEFINE r == [NoLocals EXCEPT !.op = "list", !.user = u]
  <2>1. Goto(c, "listRead") /\ loc' = [loc EXCEPT ![c] = r]
    BY DEF Call
  <2>2. r \in Locals /\ r.stale = {}
    BY NoLocalsType DEF Locals, Ops, NoLocals
  <2> HIDE DEF r
  <2>3. ListFact("listRead", r)
    BY <2>2 DEF ListFact, Refreshing
  <2> QED BY <1>0, <2>1, <2>2, <2>3, ListFactsMove DEF Labels, Unfamiliar
<1> QED BY <1>1, <1>2, <1>3, <1>4, <1>5 DEF CallStep

\* create() and the records a rotation writes.
LEMMA WritesListed ==
  ASSUME IInv, Listing, Steady, NEW c \in Callers,
         WriteSet(c) \/ WriteIndex(c) \/ CreateMeta(c) \/ CreateUser(c)
  PROVE  ListFacts'
<1>0. ListFacts /\ ListFact(pc[c], loc[c])
  BY DEF Listing, ListFacts
<1>1. CASE WriteSet(c)
  <2>1. PICK r \in Locals : r = loc[c] /\ r.sess \in Sessions
    BY <1>1, Here DEF WriteSet, CallOK, Unfamiliar
  <2>2. FreshToken \in RefreshTokens
    BY <1>1, FreshTokenOK DEF WriteSet
  <2>3. PICK t \in RefreshTokens : loc' = [loc EXCEPT ![c] = [r EXCEPT !.new = t]]
    BY <1>1, <2>1, <2>2 DEF WriteSet, IInv, TypeOK, CallerTypeOK
  <2> DEFINE q == [r EXCEPT !.new = t]
  <2>4. q \in Locals /\ q.sess = r.sess /\ q.op = r.op
    BY DEF Locals
  <2>5. pc[c] = "writeSet" /\ Goto(c, "writeIndex") /\ loc' = [loc EXCEPT ![c] = q]
    BY <1>1, <2>3 DEF WriteSet
  <2> HIDE DEF q
  <2>6. ListFact("writeIndex", q)
    BY <1>0, <2>1, <2>4, <2>5 DEF ListFact, Refreshing
  <2> QED BY <1>0, <2>1, <2>4, <2>5, <2>6, ListFactsMove DEF Labels
<1>2. CASE WriteIndex(c)
  <2>1. CASE loc[c].op = "create"
    <3>1. /\ pc'[c] \in Unsaid
          /\ \A d \in Callers \ {c} : pc'[d] = pc[d] /\ loc'[d] = loc[d]
      BY <1>2, <2>1 DEF WriteIndex, Goto, Unsaid, IInv, TypeOK, CallerTypeOK
    <3> QED BY <1>0, <3>1, ListFactsUnsaid
  <2>2. CASE loc[c].op # "create"
    <3>1. PICK l \in {"setGrace", "setTombstone"} : Goto(c, l)
      BY <1>2, <2>2 DEF WriteIndex
    <3>2. pc[c] = "writeIndex" /\ loc' = loc
      BY <1>2 DEF WriteIndex
    <3>3. ListFact(l, loc[c])
      BY <1>0, <2>2, <3>2 DEF ListFact
    <3> QED BY <1>0, <3>1, <3>2, <3>3, ListFactsGoto DEF Labels, Unfamiliar
  <2> QED BY <2>1, <2>2
<1>3. CASE CreateMeta(c)
  <2>1. pc[c] = "createMeta" /\ Goto(c, "createUser") /\ UNCHANGED <<loc, phase, marker>>
    BY <1>3 DEF CreateMeta, bounds
  <2>2. PICK r \in Locals : r = loc[c] /\ r.sess \in Sessions
    BY <2>1, Here DEF CallOK, Unfamiliar
  <2>3. Standing(r.sess)' => r.sess \in meta'
    BY <1>3, <2>1, <2>2 DEF CreateMeta, Standing
  <2>4. pc'[c] = "createUser" /\ loc'[c] = r
    BY <2>1, <2>2 DEF Goto, IInv, TypeOK, CallerTypeOK
  <2>5. ListFact(pc[c], loc[c])'
    BY <2>3, <2>4 DEF ListFact, Refreshing, Described, Standing
  <2>6. \A d \in Callers \ {c} : pc'[d] = pc[d] /\ loc'[d] = loc[d]
    BY <2>1 DEF Goto, IInv, TypeOK, CallerTypeOK
  <2> QED BY <1>0, <2>5, <2>6, ListFactsBut
<1>4. CASE CreateUser(c)
  <2>1. /\ pc[c] = "createUser" /\ Goto(c, "issue")
        /\ UNCHANGED <<loc, phase, marker, meta>>
    BY <1>4 DEF CreateUser, bounds
  <2>2. PICK r \in Locals : r = loc[c] /\ r.sess \in Sessions /\ UserOf[r.sess] \in Users
    BY <2>1, Here, ConstantsAssumption DEF CallOK, Unfamiliar
  <2>3. Described(r.sess)
    BY <1>0, <2>1, <2>2 DEF ListFact
  <2>4. phase[r.sess] = "live" => r.sess \in userIndex'[UserOf[r.sess]]
    BY <1>4, <2>2 DEF CreateUser, IInv, TypeOK, StoreTypeOK
  <2>5. Standing(r.sess)' => r.sess \in userIndex'[UserOf[r.sess]] /\ r.sess \in meta'
    BY <2>1, <2>3, <2>4 DEF Described, Standing
  <2>6. pc'[c] = "issue" /\ loc'[c] = r
    BY <2>1, <2>2 DEF Goto, IInv, TypeOK, CallerTypeOK
  <2>7. ListFact(pc[c], loc[c])'
    BY <2>5, <2>6 DEF ListFact, Listed, Standing
  <2>8. \A d \in Callers \ {c} : pc'[d] = pc[d] /\ loc'[d] = loc[d]
    BY <2>1 DEF Goto, IInv, TypeOK, CallerTypeOK
  <2> QED BY <1>0, <2>7, <2>8, ListFactsBut
<1> QED BY <1>1, <1>2, <1>3, <1>4

\* refresh(): every label between the peek and the pair is about the session
\* of the token presented.
LEMMA RefreshesListed ==
  ASSUME IInv, Listing, Steady, NEW c \in Callers,
         \/ Peek(c) \/ EntryCheck(c) \/ SetGrace(c) \/ SetTombstone(c) \/ MidCheck(c)
         \/ TouchGet(c) \/ TouchSet(c) \/ AwaitTombstone(c) \/ RevokedCheck(c)
         \/ AdoptCheck(c) \/ IssueId(c) \/ IssueIndex(c) \/ PostCheck(c)
  PROVE  ListFacts'
<1>0. ListFacts
  BY DEF Listing
<1>1. CASE Return(c) \/ \E s, o : EnterFamily(c, s, o)
  BY <1>0, <1>1, ReturnUnsaid
<1>2. pc[c] \in Refreshing
  BY DEF Peek, EntryCheck, SetGrace, SetTombstone, MidCheck, TouchGet, TouchSet,
         AwaitTombstone, RevokedCheck, AdoptCheck, IssueId, IssueIndex, PostCheck, Refreshing
<1>3. CASE \E l \in {"take", "writeSet", "setTombstone", "midCheck", "discard", "touchGet",
                     "touchSet", "issue", "revokedCheck", "graceGet", "backoff",
                     "issueIndex", "postCheck", "undoLookup"} : Goto(c, l) /\ loc' = loc
  BY <1>0, <1>2, <1>3, GoesOn DEF Refreshing
<1>4. CASE Peek(c) \/ EntryCheck(c) \/ SetGrace(c) \/ SetTombstone(c) \/ MidCheck(c)
  BY <1>1, <1>3, <1>4 DEF Peek, EntryCheck, SetGrace, SetTombstone, MidCheck
<1>5. CASE TouchGet(c) \/ TouchSet(c) \/ AwaitTombstone(c) \/ RevokedCheck(c)
  BY <1>1, <1>3, <1>5 DEF TouchGet, TouchSet, AwaitTombstone, RevokedCheck, FoundTombstone
<1>6. CASE AdoptCheck(c) \/ IssueId(c) \/ IssueIndex(c) \/ PostCheck(c)
  BY <1>1, <1>3, <1>6 DEF AdoptCheck, IssueId, IssueIndex, PostCheck
<1> QED BY <1>4, <1>5, <1>6

\* The steps of a refresh that change its local variables.
LEMMA ChangesListed ==
  ASSUME IInv, Listing, Steady, NEW c \in Callers,
         Take(c) \/ Backoff(c) \/ GraceGet(c) \/ IssueRecord(c) \/ IssueSigned(c)
  PROVE  ListFacts'
<1>0. ListFacts /\ ListFact(pc[c], loc[c])
  BY DEF Listing, ListFacts
<1>1. pc[c] \in Refreshing
  BY DEF Take, Backoff, GraceGet, IssueRecord, IssueSigned, Refreshing
<1>2. PICK r \in Locals : r = loc[c] /\ r.sess \in Sessions /\ Listed(r.sess)
  BY <1>0, <1>1, Here DEF CallOK, Refreshing, Unfamiliar, ListFact
<1>3. CASE Return(c) \/ \E s, o : EnterFamily(c, s, o)
  BY <1>0, <1>3, ReturnUnsaid
<1>4. CASE \E l \in {"awaitTombstone", "graceGet"} : Goto(c, l) /\ loc' = loc
  BY <1>0, <1>1, <1>4, GoesOn DEF Refreshing
<1>5. ASSUME NEW l \in Refreshing, NEW q \in Locals, q.sess = r.sess,
             Goto(c, l), loc' = [loc EXCEPT ![c] = q]
      PROVE  ListFacts'
  <2>1. ListFact(l, q)
    BY <1>2, <1>5 DEF ListFact, Refreshing
  <2> QED BY ZenonT(60), <1>0, <1>2, <1>5, <2>1, ListFactsMove DEF Refreshing, Labels
<1>6. CASE Take(c)
  <2>1. CASE Goto(c, "entryCheck") /\ loc' = [loc EXCEPT ![c].op = "rotate"]
    <3> DEFINE q == [r EXCEPT !.op = "rotate"]
    <3>1. q \in Locals /\ q.sess = r.sess
      BY DEF Locals, Ops
    <3>2. loc' = [loc EXCEPT ![c] = q]
      BY <1>2, <2>1
    <3> HIDE DEF q
    <3> QED BY <1>5, <2>1, <3>1, <3>2 DEF Refreshing
  <2> QED BY <1>3, <1>4, <1>6, <2>1 DEF Take
<1>7. CASE Backoff(c)
  <2>1. CASE loc' = [loc EXCEPT ![c].tries = @ + 1] /\ UNCHANGED <<pc, fr>>
    <3> DEFINE q == [r EXCEPT !.tries = @ + 1]
    <3>1. q \in Locals /\ q.sess = r.sess
      BY DEF Locals
    <3>2. loc' = [loc EXCEPT ![c] = q]
      BY <1>2, <2>1
    <3>3. Goto(c, "backoff")
      BY <1>7, <2>1 DEF Backoff, Goto, IInv, TypeOK, CallerTypeOK
    <3> HIDE DEF q
    <3> QED BY <1>5, <3>1, <3>2, <3>3 DEF Refreshing
  <2> QED BY <1>3, <1>4, <1>7, <2>1 DEF Backoff, FoundTombstone
<1>8. CASE GraceGet(c)
  <2>1. CASE /\ Goto(c, "adoptCheck")
             /\ loc' = [loc EXCEPT ![c].op = "adopt", ![c].new = grace[loc[c].old]]
    <3>1. PICK n \in RefreshTokens \cup {NoToken} : n = grace[loc[c].old]
      BY <1>8, Here DEF GraceGet, CallOK, HasOld, IInv, TypeOK, StoreTypeOK
    <3> DEFINE q == [[r EXCEPT !.op = "adopt"] EXCEPT !.new = n]
    <3>2. q \in Locals /\ q.sess = r.sess
      BY DEF Locals, Ops
    <3>3. loc' = [loc EXCEPT ![c] = q]
      BY <1>2, <2>1, <3>1, Zenon
    <3> HIDE DEF q
    <3> QED BY <1>5, <2>1, <3>2, <3>3 DEF Refreshing
  <2> QED BY <1>3, <1>8, <2>1 DEF GraceGet
<1>9. CASE IssueRecord(c) \/ IssueSigned(c)
  <2>1. PICK l \in {"issueId", "postCheck"}, a \in AccessTokens :
             Goto(c, l) /\ loc' = [loc EXCEPT ![c].acc = a]
    BY <1>9, FreshAccessOK DEF IssueRecord, IssueSigned, MintAccess
  <2> DEFINE q == [r EXCEPT !.acc = a]
  <2>2. q \in Locals /\ q.sess = r.sess
    BY DEF Locals
  <2>3. loc' = [loc EXCEPT ![c] = q]
    BY <1>2, <2>1
  <2>4. l \in Refreshing /\ Goto(c, l)
    BY <2>1 DEF Refreshing
  <2> HIDE DEF q
  <2> QED BY <1>5, <2>2, <2>3, <2>4
<1> QED BY <1>6, <1>7, <1>8, <1>9

\* The ends of calls, and the undoing of an issuance.
LEMMA EndsListed ==
  ASSUME IInv, Listing, Steady, NEW c \in Callers,
         \/ Discard(c) \/ FamilyEnded(c) \/ AllRead(c) \/ AllRemove(c) \/ ListPrune(c)
         \/ Fail(c) \/ UndoLookup(c) \/ UndoRead(c) \/ UndoDelete(c) \/ UndoUnindex(c)
         \/ UndoDeny(c)
  PROVE  ListFacts'
<1>1. /\ pc'[c] \in Unsaid
      /\ \A d \in Callers \ {c} : pc'[d] = pc[d] /\ loc'[d] = loc[d]
  <2> USE DEF IInv, TypeOK, CallerTypeOK, Goto, Return, EnterFamily, Unsaid
  <2>1. CASE Discard(c) \/ FamilyEnded(c) \/ AllRead(c) \/ AllRemove(c)
    BY <2>1 DEF Discard, FamilyEnded, AllRead, AllRemove
  <2>2. CASE ListPrune(c) \/ Fail(c) \/ UndoRead(c)
    BY <2>2 DEF ListPrune, Fail, UndoRead
  <2>3. CASE UndoLookup(c) \/ UndoDelete(c)
    BY <2>3 DEF UndoLookup, UndoDelete, AfterUndo
  <2>4. CASE UndoUnindex(c) \/ UndoDeny(c)
    BY <2>4 DEF UndoUnindex, UndoDeny, AfterUndo
  <2> QED BY <2>1, <2>2, <2>3, <2>4
<1> QED BY <1>1, ListFactsUnsaid DEF Listing

\* listSessions(): what it snapshots has metadata if it stands, so what it
\* finds without does not.
LEMMA ListsListed ==
  ASSUME IInv, Listing, Steady, NEW c \in Callers, ListRead(c) \/ ListMeta(c)
  PROVE  ListFacts'
<1>0. ListFacts /\ ListFact(pc[c], loc[c])
  BY DEF Listing, ListFacts
<1>1. PICK r \in Locals : r = loc[c]
  BY Here
<1>2. CASE Return(c)
  BY <1>0, <1>2, ReturnUnsaid
<1>3. CASE ListRead(c) /\ ~Return(c)
  <2>1. pc[c] = "listRead" /\ r.user \in Users
    BY <1>1, <1>3, Here DEF ListRead, CallOK, Unfamiliar
  <2>2. PICK v : v = userIndex[r.user] /\ v \subseteq Sessions
    BY <2>1 DEF IInv, TypeOK, StoreTypeOK
  <2> DEFINE q == [r EXCEPT !.snap = v]
  <2>3. q \in Locals /\ q.snap = v /\ q.stale = r.stale
    BY <2>2 DEF Locals
  <2>4. Goto(c, "listMeta") /\ loc' = [loc EXCEPT ![c] = q]
    BY <1>1, <1>3, <2>2 DEF ListRead
  <2> HIDE DEF q
  <2>5. \A s \in v : Described(s)
    BY <2>1, <2>2 DEF Listing, IndexDescribed
  <2>6. ListFact("listMeta", q)
    BY <1>0, <1>1, <2>1, <2>3, <2>5 DEF ListFact, Refreshing
  <2> QED BY <1>0, <2>3, <2>4, <2>6, ListFactsMove DEF Labels, Unfamiliar
<1>4. CASE ListMeta(c) /\ ~Return(c)
  <2>1. pc[c] = "listMeta"
    BY <1>4 DEF ListMeta
  <2>2. PICK s \in r.snap, l \in {"listMeta", "listPrune"} :
           /\ Goto(c, l)
           /\ \E n \in SUBSET r.snap :
                 loc' = [loc EXCEPT ![c].snap = n, ![c].stale = r.stale \cup ({s} \ meta)]
    <3>1. PICK s \in r.snap :
             \/ /\ loc' = [loc EXCEPT ![c].snap = @ \ {s},
                                      ![c].stale = r.stale \cup ({s} \ meta)]
                /\ UNCHANGED <<pc, fr>>
             \/ /\ loc' = [loc EXCEPT ![c].snap = {}, ![c].stale = r.stale \cup ({s} \ meta)]
                /\ Goto(c, "listPrune")
      BY <1>1, <1>4, Zenon DEF ListMeta
    <3>2. CASE loc' = [loc EXCEPT ![c].snap = @ \ {s},
                                  ![c].stale = r.stale \cup ({s} \ meta)]
               /\ UNCHANGED <<pc, fr>>
      <4>1. loc' = [loc EXCEPT ![c].snap = r.snap \ {s},
                               ![c].stale = r.stale \cup ({s} \ meta)]
        BY <1>1, <3>2, Zenon
      <4>2. Goto(c, "listMeta")
        BY <2>1, <3>2 DEF Goto, IInv, TypeOK, CallerTypeOK
      <4>3. r.snap \ {s} \in SUBSET r.snap
        OBVIOUS
      <4> QED BY <4>1, <4>2, <4>3, Zenon
    <3>3. CASE loc' = [loc EXCEPT ![c].snap = {}, ![c].stale = r.stale \cup ({s} \ meta)]
               /\ Goto(c, "listPrune")
      BY <3>3, Zenon
    <3> QED BY <3>1, <3>2, <3>3, Zenon
  <2>3. PICK n \in SUBSET r.snap :
           loc' = [loc EXCEPT ![c].snap = n, ![c].stale = r.stale \cup ({s} \ meta)]
    BY <2>2, Zenon
  <2>4. r.snap \subseteq Sessions /\ r.stale \subseteq Sessions /\ s \in Sessions
    BY LocalsType
  <2>5. PICK z : z = r.stale \cup ({s} \ meta) /\ z \subseteq Sessions
    BY <2>4
  <2> DEFINE q == [[r EXCEPT !.snap = n] EXCEPT !.stale = z]
  <2>6. q \in Locals /\ q.snap = n /\ q.stale = z
    BY <2>3, <2>4, <2>5 DEF Locals
  <2>7. loc' = [loc EXCEPT ![c] = q]
    BY <1>1, <2>3, <2>5, Zenon
  <2> HIDE DEF q
  <2>8. \A v \in n : Described(v)
    BY <1>0, <1>1, <2>1, <2>3 DEF ListFact
  <2>9. \A v \in z : ~Standing(v)
    BY <1>0, <1>1, <2>1, <2>2, <2>5 DEF ListFact, Described
  <2>10. ListFact(l, q)
    BY <2>2, <2>6, <2>8, <2>9 DEF ListFact, Refreshing
  <2>11. l \in Labels /\ l \in Unfamiliar /\ Goto(c, l)
    BY <2>2 DEF Labels, Unfamiliar
  <2> HIDE DEF Unfamiliar
  <2> QED BY <1>0, <2>6, <2>7, <2>10, <2>11, ListFactsMove
<1> QED BY <1>2, <1>3, <1>4

LEMMA ListFactsNext ==
  ASSUME IInv, Listing, Steady, [Next]_vars
  PROVE  ListFacts'
<1>1. ASSUME NEW c \in Callers, CallStep(c) \/ CallerStep(c) \/ Fail(c)
      PROVE  ListFacts'
  BY <1>1, StartsListed, WritesListed, RefreshesListed, ChangesListed, EndsListed, ListsListed
     DEF CallerStep
<1>2. CASE UNCHANGED <<pc, loc>>
  BY <1>2, ListFactsStill DEF Listing
<1>3. ASSUME NEW c \in Callers, NEW s \in Sessions, FamStep(c, s) \/ FamFail(c, s)
      PROVE  UNCHANGED <<pc, loc>>
  BY <1>3 DEF FamStep, FamFail, FamMarker, FamMeta, FamEnumerate, FamMarkEach, FamWipe,
     FamDrop, FamTokens, FamDelete, FamDeny, FamDropTokens, FamUnlist
<1> QED BY <1>1, <1>2, <1>3 DEF Next, GraceLapses, FamilyAges, Quiet, vars

\* create() writes the metadata before the index.
LEMMA DescribedNext ==
  ASSUME IInv, Listing, Steady, [Next]_vars
  PROVE  IndexDescribed'
<1>1. ASSUME NEW u \in Users, NEW s \in Sessions, s \in userIndex[u]
      PROVE  Described(s)'
  BY <1>1, StillListed DEF Listing, IndexDescribed
<1>2. ASSUME NEW c \in Callers, CreateUser(c)
      PROVE  IndexDescribed'
  <2>1. PICK v \in Sessions : v = loc[c].sess /\ pc[c] = "createUser"
    BY <1>2, Here DEF CreateUser, CallOK, Unfamiliar
  <2>2. Described(v)'
    BY <2>1, StillListed DEF Listing, ListFacts, ListFact
  <2>3. ASSUME NEW u \in Users, NEW s \in Sessions, s \in userIndex'[u]
        PROVE  s \in userIndex[u] \/ s = v
    BY <1>2, <2>1, <2>3 DEF CreateUser, IInv, TypeOK, StoreTypeOK
  <2> QED BY <1>1, <2>2, <2>3 DEF IndexDescribed
<1>3. ASSUME NEW c \in Callers, NEW s \in Sessions, FamStep(c, s) \/ FamFail(c, s)
      PROVE  userIndex' = userIndex \/ FamUnlist(c, s)
  BY Zenon, <1>3 DEF FamStep, FamFail, FamMarker, FamMeta, FamEnumerate, FamMarkEach, FamWipe,
     FamDrop, FamTokens, FamDelete, FamDeny, FamDropTokens, sessionKeys
<1>4. ASSUME NEW c \in Callers, CallStep(c) \/ CallerStep(c) \/ Fail(c)
      PROVE  userIndex' = userIndex \/ CreateUser(c) \/ AllRemove(c) \/ ListPrune(c)
  BY Zenon, <1>4 DEF CallStep, CallCreate, CallRefresh, CallRevoke, CallRevokeAll, CallList, Call,
     CallerStep, WriteSet, WriteIndex, CreateMeta, Peek, Take, EntryCheck, SetGrace,
     SetTombstone, MidCheck, TouchGet, TouchSet, Discard, AwaitTombstone, RevokedCheck,
     Backoff, GraceGet, AdoptCheck, IssueRecord, IssueId, IssueIndex, IssueSigned, PostCheck,
     UndoLookup, UndoRead, UndoDelete, UndoUnindex, UndoDeny, FamilyEnded, AllRead,
     ListRead, ListMeta, Fail, sessionKeys
<1>5. CASE \A u \in Users : userIndex'[u] \subseteq userIndex[u]
  BY <1>1, <1>5 DEF IndexDescribed
<1>6. ASSUME NEW c \in Callers, AllRemove(c) \/ ListPrune(c)
      PROVE  \A u \in Users : userIndex'[u] \subseteq userIndex[u]
  BY <1>6 DEF AllRemove, ListPrune, IInv, TypeOK, StoreTypeOK
<1>7. ASSUME NEW c \in Callers, NEW s \in Sessions, FamUnlist(c, s)
      PROVE  \A u \in Users : userIndex'[u] \subseteq userIndex[u]
  BY <1>7 DEF FamUnlist, IInv, TypeOK, StoreTypeOK
<1>8. CASE \E c \in Callers : CallStep(c) \/ CallerStep(c) \/ Fail(c)
  BY <1>2, <1>4, <1>5, <1>6, <1>8
<1>9. CASE \E c \in Callers, s \in Sessions : FamStep(c, s) \/ FamFail(c, s)
  BY <1>3, <1>5, <1>7, <1>9
<1>10. CASE \/ \E s \in Sessions : FamilyAges(s)
            \/ \E t \in RefreshTokens : GraceLapses(t)
            \/ Quiet \/ UNCHANGED vars
  BY <1>5, <1>10 DEF FamilyAges, GraceLapses, Quiet, vars, sessionKeys
<1> QED BY <1>8, <1>9, <1>10 DEF Next

\* A pair is handed out for a listed session.
LEMMA HandedListed ==
  ASSUME IInv, Listing, Steady, [Next]_vars
  PROVE  LiveSessionsListed'
<1>1. ASSUME NEW t \in handedR PROVE Listed(SessionOf(t))'
  <2>1. PICK s \in Sessions : s = SessionOf(t) /\ t \in RefreshTokens
    BY DEF IInv, MintedOK, TypeOK, HistoryTypeOK
  <2>2. SessionOf(t)' = s
    BY <2>1, TokensStay DEF SessionOf
  <2>3. Listed(s)
    BY <2>1 DEF Listing, LiveSessionsListed, Listed, Standing
  <2>4. Listed(s)'
    BY <2>3, StillListed
  <2> QED BY <2>2, <2>4 DEF Listed, Standing
<1>2. ASSUME NEW c \in Callers, PostCheck(c)
      PROVE  \A t \in handedR' : Listed(SessionOf(t))'
  <2>1. PICK n \in RefreshTokens, s \in Sessions :
           n = loc[c].new /\ s = loc[c].sess /\ SessionOf(n) = s /\ pc[c] = "postCheck"
    BY <1>2, Here DEF PostCheck, CallOK, HasNew, Unfamiliar
  <2>2. Listed(s)
    BY <2>1 DEF Listing, ListFacts, ListFact, Refreshing
  <2>3. Listed(s)' /\ SessionOf(n)' = s
    BY <2>1, <2>2, StillListed, TokensStay DEF SessionOf
  <2>4. Listed(SessionOf(n))'
    BY <2>3 DEF Listed, Standing
  <2>5. handedR' \subseteq handedR \cup {n}
    BY <1>2, <2>1 DEF PostCheck
  <2> QED BY <1>1, <2>4, <2>5
<1>3. handedR' = handedR \/ \E c \in Callers : PostCheck(c)
  <2>1. ASSUME NEW c \in Callers, CallStep(c) \/ CallerStep(c) \/ Fail(c)
        PROVE  handedR' = handedR \/ PostCheck(c)
    BY Zenon, <2>1 DEF CallStep, CallCreate, CallRefresh, CallRevoke, CallRevokeAll, CallList, Call,
       CallerStep, WriteSet, WriteIndex, CreateMeta, CreateUser, Peek, Take, EntryCheck, SetGrace,
       SetTombstone, MidCheck, TouchGet, TouchSet, Discard, AwaitTombstone, RevokedCheck,
       Backoff, GraceGet, AdoptCheck, IssueRecord, IssueId, IssueIndex, IssueSigned,
       UndoLookup, UndoRead, UndoDelete, UndoUnindex, UndoDeny, FamilyEnded, AllRead, AllRemove,
       ListRead, ListMeta, ListPrune, Fail, history
  <2>2. ASSUME NEW c \in Callers, NEW s \in Sessions, FamStep(c, s) \/ FamFail(c, s)
        PROVE  handedR' = handedR
    BY Zenon, <2>2 DEF FamStep, FamFail, FamMarker, FamMeta, FamEnumerate, FamMarkEach, FamWipe,
       FamDrop, FamTokens, FamDelete, FamDeny, FamDropTokens, FamUnlist, history
  <2> QED BY <2>1, <2>2 DEF Next, GraceLapses, FamilyAges, Quiet, vars, history
<1>4. \A t \in handedR' : Listed(SessionOf(t))'
  BY <1>1, <1>2, <1>3
<1> QED BY <1>4 DEF LiveSessionsListed, Listed, Standing

LEMMA ListingInit == Init => Listing
  BY DEF Init, Listing, LiveSessionsListed, IndexDescribed, ListFacts, ListFact, Refreshing,
         NoLocals

\* A session that a caller holds tokens of, that has not expired and that no
\* revocation has begun on, is in its user's index with its metadata: for any
\* callers, users and sessions, whatever creations, refreshes, listings,
\* revocations and store failures overlap, listSessions() shows it and
\* revokeAllForUser() reaches it.
THEOREM LiveMeansListed == Spec => []LiveSessionsListed
<1>1. Init => Listing
  BY ListingInit
<1>2. IInv /\ Listing /\ [Next]_vars => Listing'
  BY StepsSteady, ListFactsNext, DescribedNext, HandedListed DEF Listing
<1>3. Listing => LiveSessionsListed
  BY DEF Listing
<1> QED BY <1>1, <1>2, <1>3, Invariance, PTL DEF Spec

-----------------------------------------------------------------------------
(***************************************************************************)
(* Signing out everywhere.  A caller's revocations are the ones it waits   *)
(* for; a revocation that has begun is done, or running, or a store        *)
(* command has failed; and what revokeAllForUser() was to reach is in its  *)
(* snapshot unless it no longer stood when the index was read.             *)
(***************************************************************************)
Running(c, s) == fr[c][s].pc \notin {"none", "done", "failed"}

AwaitedBy(l, r) ==
    IF l = "awaitFamily" THEN {r.sess} ELSE IF l = "awaitAll" THEN r.snap ELSE {}

FramesAwaited ==
    \A c \in Callers, s \in Sessions :
        s \notin AwaitedBy(pc[c], loc[c]) => fr[c][s].pc = "none"

FramesTold ==
    \A c \in Callers, s \in Sessions : /\ fr[c][s].pc = "done" => s \in ended
                                       /\ fr[c][s].pc = "failed" => fails > 0

Attended ==
    fails = 0 => \A s \in marker : s \in ended \/ \E c \in Callers : Running(c, s)

SignFact(l, r) ==
    /\ l = "allRead" => /\ r.snap = {}
                        /\ \A s \in r.known : UserOf[s] = r.user /\ Listed(s)
    /\ l = "awaitAll" => \A s \in r.known : s \in r.snap \/ ~Standing(s)

SignFacts == \A c \in Callers : SignFact(pc[c], loc[c])

Signing == FramesAwaited /\ FramesTold /\ Attended /\ SignFacts

\* What a step of a call does to its revocations: it returns, or begins one, or
\* those of sign out everywhere, or runs none.
LEMMA CallFrames ==
  ASSUME IInv, NEW c \in Callers, CallStep(c) \/ CallerStep(c) \/ Fail(c)
  PROVE  \/ Return(c)
         \/ /\ pc[c] \notin {"awaitFamily", "awaitAll"}
            /\ \E s \in Sessions : \E o : EnterFamily(c, s, o)
         \/ AllRead(c)
         \/ /\ pc[c] \notin {"awaitFamily", "awaitAll"}
            /\ pc'[c] \notin {"awaitFamily", "awaitAll"}
            /\ fr' = fr
<1> DEFINE Enters == /\ pc[c] \notin {"awaitFamily", "awaitAll"}
                     /\ \E s \in Sessions : \E o : EnterFamily(c, s, o)
           Stays == /\ pc[c] \notin {"awaitFamily", "awaitAll"}
                    /\ pc'[c] \notin {"awaitFamily", "awaitAll"}
                    /\ fr' = fr
<1> USE DEF IInv, TypeOK, CallerTypeOK, Goto
<1>1. CASE CallStep(c)
  <2>1. CASE CallRevoke(c)
    <3>1. PICK s \in Nameable : EnterFamily(c, s, "revoke")
      BY <2>1 DEF CallRevoke
    <3>2. s \in Sessions
      BY DEF Nameable, MintedOK, StoreTypeOK
    <3> QED BY <2>1, <3>1, <3>2 DEF CallRevoke
  <2>2. CASE CallCreate(c) \/ CallRefresh(c) \/ CallRevokeAll(c) \/ CallList(c)
    BY <2>2 DEF CallCreate, CallRefresh, CallRevokeAll, CallList, Call
  <2> QED BY <1>1, <2>1, <2>2 DEF CallStep
<1>2. CASE AfterUndo(c) /\ pc[c] \in Undoing
  <2>1. loc[c].sess \in Sessions
    BY <1>2, Here DEF CallOK, Unfamiliar, Undoing
  <2> QED BY <1>2, <2>1 DEF AfterUndo, Undoing
<1>3. CASE EntryCheck(c) \/ GraceGet(c)
  <2>1. loc[c].sess \in Sessions
    BY <1>3, Here DEF CallOK, Unfamiliar, EntryCheck, GraceGet
  <2> QED BY <1>3, <2>1 DEF EntryCheck, GraceGet
<1>4. CASE \/ WriteSet(c) \/ WriteIndex(c) \/ CreateMeta(c) \/ CreateUser(c) \/ Peek(c)
           \/ Take(c) \/ SetGrace(c) \/ SetTombstone(c) \/ MidCheck(c) \/ TouchGet(c)
           \/ TouchSet(c) \/ Discard(c)
  BY <1>4 DEF WriteSet, WriteIndex, CreateMeta, CreateUser, Peek, Take, SetGrace,
     SetTombstone, MidCheck, TouchGet, TouchSet, Discard
<1>5. CASE \/ AwaitTombstone(c) \/ RevokedCheck(c) \/ Backoff(c) \/ AdoptCheck(c)
           \/ IssueRecord(c) \/ IssueId(c) \/ IssueIndex(c) \/ IssueSigned(c)
           \/ PostCheck(c) \/ UndoRead(c)
  BY <1>5 DEF AwaitTombstone, FoundTombstone, RevokedCheck, Backoff, AdoptCheck, IssueRecord,
     IssueId, IssueIndex, IssueSigned, PostCheck, UndoRead
<1>6. CASE UndoLookup(c) \/ UndoDelete(c) \/ UndoUnindex(c) \/ UndoDeny(c)
  BY <1>2, <1>6 DEF UndoLookup, UndoDelete, UndoUnindex, UndoDeny, Undoing
<1>7. CASE \/ FamilyEnded(c) \/ AllRead(c) \/ AllRemove(c) \/ ListRead(c) \/ ListMeta(c)
           \/ ListPrune(c) \/ Fail(c)
  BY <1>7 DEF FamilyEnded, AllRemove, ListRead, ListMeta, ListPrune, Fail
<1> QED BY <1>1, <1>3, <1>4, <1>5, <1>6, <1>7 DEF CallerStep

LEMMA EntersOne ==
  ASSUME IInv, NEW c \in Callers, NEW s \in Sessions, NEW o, EnterFamily(c, s, o)
  PROVE  /\ pc'[c] = "awaitFamily" /\ loc'[c].sess = s
         /\ fr'[c][s].pc = "marker"
         /\ \A x \in Sessions \ {s} : fr'[c][x] = fr[c][x]
<1>1. pc'[c] = "awaitFamily"
  BY DEF EnterFamily, Goto, IInv, TypeOK, CallerTypeOK
<1>2. loc'[c].sess = s
  BY DEF EnterFamily, IInv, TypeOK, CallerTypeOK, Locals
<1> DEFINE f == [NoFrame EXCEPT !.pc = "marker"]
<1>3. f \in Frames /\ f.pc = "marker"
  BY NoFramesType DEF Frames, FrameLabels, NoFrame
<1>4. SetFrame(c, s, f)
  BY DEF EnterFamily
<1> HIDE DEF f
<1>5. fr'[c][s] = f /\ \A x \in Sessions \ {s} : fr'[c][x] = fr[c][x]
  BY <1>3, <1>4, FrameSet DEF IInv, TypeOK
<1> QED BY <1>1, <1>2, <1>3, <1>5

\* AllRead returns, or begins one revocation for each session it read.
LEMMA ReadsAll ==
  ASSUME IInv, NEW c \in Callers, AllRead(c), ~Return(c)
  PROVE  /\ pc[c] = "allRead" /\ pc'[c] = "awaitAll"
         /\ loc'[c].snap = userIndex[loc[c].user] /\ loc'[c].known = loc[c].known
         /\ \A s \in Sessions : fr'[c][s].pc = IF s \in loc'[c].snap THEN "marker" ELSE "none"
<1>1. PICK v : v = userIndex[loc[c].user]
  OBVIOUS
<1>2. /\ pc[c] = "allRead" /\ Goto(c, "awaitAll")
      /\ loc' = [loc EXCEPT ![c].snap = v]
      /\ fr' = [fr EXCEPT ![c] = [s \in Sessions |-> IF s \in v
                                                    THEN [NoFrame EXCEPT !.pc = "marker"]
                                                    ELSE NoFrame]]
  BY <1>1 DEF AllRead
<1>3. loc'[c].snap = v /\ loc'[c].known = loc[c].known
  BY <1>2 DEF IInv, TypeOK, CallerTypeOK, Locals
<1>4. \A s \in Sessions : fr'[c][s] = IF s \in v THEN [NoFrame EXCEPT !.pc = "marker"]
                                                 ELSE NoFrame
  BY <1>2 DEF IInv, TypeOK, FrameTypeOK
<1>5. [NoFrame EXCEPT !.pc = "marker"].pc = "marker" /\ NoFrame.pc = "none"
  BY DEF NoFrame
<1>6. pc'[c] = "awaitAll"
  BY <1>2 DEF Goto, IInv, TypeOK, CallerTypeOK
<1> QED BY <1>1, <1>2, <1>3, <1>4, <1>5, <1>6

\* What a step of revokeFamily does to its frame.
LEMMA FamilyFrame ==
  ASSUME IInv, NEW d \in Callers, NEW x \in Sessions, FamStep(d, x) \/ FamFail(d, x)
  PROVE  /\ \A c \in Callers, s \in Sessions : <<c, s>> # <<d, x>> => fr'[c][s] = fr[c][s]
         /\ fr[d][x].pc # "none" /\ fr'[d][x].pc # "none"
         /\ fr'[d][x].pc = "done" => x \in ended'
         /\ fr'[d][x].pc = "failed" => FamFail(d, x)
         /\ ended \subseteq ended'
<1>1. fr[d][x] \in Frames
  BY FrameHere
<1>2. ASSUME NEW f \in Frames, SetFrame(d, x, f)
      PROVE  /\ fr'[d][x] = f
             /\ \A c \in Callers, s \in Sessions : <<c, s>> # <<d, x>> => fr'[c][s] = fr[c][s]
  BY <1>2, FrameSet DEF IInv, TypeOK
<1>3. ASSUME NEW l \in FrameLabels, FrameGoto(d, x, l)
      PROVE  /\ fr'[d][x].pc = l
             /\ \A c \in Callers, s \in Sessions : <<c, s>> # <<d, x>> => fr'[c][s] = fr[c][s]
  <2> DEFINE f == [fr[d][x] EXCEPT !.pc = l]
  <2>1. f \in Frames /\ f.pc = l
    BY <1>1, <1>3, FrameGotoType
  <2>2. SetFrame(d, x, f)
    BY <1>3 DEF FrameGoto
  <2> HIDE DEF f
  <2> QED BY <1>2, <2>1, <2>2
<1> USE DEF FrameLabels
<1>4. CASE FamMarker(d, x) \/ FamWipe(d, x) \/ FamDrop(d, x)
  BY <1>3, <1>4 DEF FamMarker, FamWipe, FamDrop, history
<1>5. CASE FamFail(d, x)
  BY <1>3, <1>5 DEF FamFail, history
<1>6. CASE FamDropTokens(d, x) \/ FamUnlist(d, x)
  BY <1>3, <1>6 DEF FamDropTokens, FamUnlist
<1>7. ASSUME NEW f \in Frames, SetFrame(d, x, f), fr[d][x].pc # "none",
             f.pc \notin {"none", "done", "failed"}, ended' = ended
      PROVE  /\ \A c \in Callers, s \in Sessions : <<c, s>> # <<d, x>> => fr'[c][s] = fr[c][s]
             /\ fr[d][x].pc # "none" /\ fr'[d][x].pc # "none"
             /\ fr'[d][x].pc = "done" => x \in ended'
             /\ fr'[d][x].pc = "failed" => FamFail(d, x)
             /\ ended \subseteq ended'
  BY <1>2, <1>7
<1>8. PICK g \in Frames : g = fr[d][x]
  BY <1>1
<1>9. CASE FamMeta(d, x)
  <2> DEFINE k == x \in meta
             f == [g EXCEPT !.pc = "enumerate", !.known = k]
  <2>1. SetFrame(d, x, f) /\ fr[d][x].pc # "none" /\ ended' = ended
    BY <1>8, <1>9, Zenon DEF FamMeta, history
  <2>2. k \in BOOLEAN
    OBVIOUS
  <2> HIDE DEF k
  <2>3. f \in Frames /\ f.pc = "enumerate"
    BY <2>2 DEF Frames
  <2> HIDE DEF f
  <2> QED BY <1>7, <2>1, <2>3
<1>10. CASE FamEnumerate(d, x)
  <2>1. PICK l \in {"drop", "markEach"}, h \in SUBSET RefreshTokens :
           SetFrame(d, x, [g EXCEPT !.hashes = h, !.todo = h, !.pc = l])
    BY <1>8, <1>10 DEF FamEnumerate, IInv, TypeOK, StoreTypeOK
  <2> DEFINE f == [g EXCEPT !.hashes = h, !.todo = h, !.pc = l]
  <2>2. f \in Frames /\ f.pc = l
    BY DEF Frames
  <2>3. SetFrame(d, x, f) /\ fr[d][x].pc # "none" /\ ended' = ended
    BY <1>10, <2>1 DEF FamEnumerate, history
  <2> HIDE DEF f
  <2> QED BY <1>7, <2>2, <2>3
<1>11. CASE FamMarkEach(d, x)
  <2>1. PICK t :
           SetFrame(d, x, [g EXCEPT !.todo = @ \ {t},
                                    !.pc = IF g.todo = {t} THEN "wipe" ELSE "markEach"])
    BY <1>8, <1>11, Zenon DEF FamMarkEach
  <2> DEFINE l == IF g.todo = {t} THEN "wipe" ELSE "markEach"
             f == [g EXCEPT !.todo = @ \ {t}, !.pc = l]
  <2>2. SetFrame(d, x, f) /\ fr[d][x].pc # "none" /\ ended' = ended
    BY <1>11, <2>1 DEF FamMarkEach, history
  <2>3. l \in {"wipe", "markEach"}
    OBVIOUS
  <2> HIDE DEF l
  <2>4. f \in Frames /\ f.pc = l
    BY <2>3 DEF Frames
  <2> HIDE DEF f
  <2> QED BY <1>7, <2>2, <2>3, <2>4
<1>12. CASE FamTokens(d, x)
  <2>1. PICK l \in {"dropTokens", "kill"}, h \in SUBSET AccessTokens :
           SetFrame(d, x, [g EXCEPT !.tokens = h, !.pc = l])
    BY <1>8, <1>12 DEF FamTokens, IInv, TypeOK, StoreTypeOK
  <2> DEFINE f == [g EXCEPT !.tokens = h, !.pc = l]
  <2>2. f \in Frames /\ f.pc = l
    BY DEF Frames
  <2>3. SetFrame(d, x, f) /\ fr[d][x].pc # "none" /\ ended' = ended
    BY <1>12, <2>1 DEF FamTokens, history
  <2> HIDE DEF f
  <2> QED BY <1>7, <2>2, <2>3
<1>13. CASE FamDelete(d, x) \/ FamDeny(d, x)
  <2>1. PICK l \in {"dropTokens", "kill"}, h \in SUBSET AccessTokens :
           SetFrame(d, x, [g EXCEPT !.tokens = h, !.pc = l])
    <3>1. CASE FamDelete(d, x)
      <4>1. SetFrame(d, x, [g EXCEPT !.tokens = {}, !.pc = "dropTokens"])
        BY <1>8, <3>1 DEF FamDelete
      <4> QED BY <4>1
    <3>2. CASE FamDeny(d, x)
      <4>1. PICK a :
               SetFrame(d, x, [g EXCEPT !.tokens = @ \ {a},
                                        !.pc = IF g.tokens = {a} THEN "dropTokens" ELSE "kill"])
        BY <1>8, <3>2, Zenon DEF FamDeny
      <4> DEFINE k == IF g.tokens = {a} THEN "dropTokens" ELSE "kill"
      <4>2. SetFrame(d, x, [g EXCEPT !.tokens = g.tokens \ {a}, !.pc = k])
        BY <4>1
      <4>3. g.tokens \ {a} \in SUBSET AccessTokens /\ k \in {"dropTokens", "kill"}
        BY DEF Frames
      <4> HIDE DEF k
      <4> QED BY <4>2, <4>3
    <3> QED BY <1>13, <3>1, <3>2
  <2> DEFINE f == [g EXCEPT !.tokens = h, !.pc = l]
  <2>2. f \in Frames /\ f.pc = l
    BY DEF Frames
  <2>3. SetFrame(d, x, f) /\ fr[d][x].pc # "none" /\ ended' = ended
    BY <1>13, <2>1 DEF FamDelete, FamDeny, history
  <2> HIDE DEF f
  <2> QED BY <1>7, <2>2, <2>3
<1> QED BY <1>4, <1>5, <1>6, <1>9, <1>10, <1>11, <1>12, <1>13 DEF FamStep

-----------------------------------------------------------------------------
(***************************************************************************)
(* The frames, one kind of step at a time.                                 *)
(***************************************************************************)
LEMMA CallAwaited ==
  ASSUME IInv, Signing, NEW c \in Callers, CallStep(c) \/ CallerStep(c) \/ Fail(c),
         NEW s \in Sessions, s \notin AwaitedBy(pc'[c], loc'[c])
  PROVE  fr'[c][s].pc = "none"
<1>1. s \notin AwaitedBy(pc[c], loc[c]) => fr[c][s].pc = "none"
  BY DEF Signing, FramesAwaited
<1>2. CASE Return(c)
  BY <1>2, ReturnIsQuiet
<1>3. ASSUME pc[c] \notin {"awaitFamily", "awaitAll"}, NEW x \in Sessions, NEW o,
             EnterFamily(c, x, o)
      PROVE  fr'[c][s].pc = "none"
  <2>1. pc'[c] = "awaitFamily" /\ loc'[c].sess = x
    BY <1>3, EntersOne
  <2>2. s # x
    BY <2>1 DEF AwaitedBy
  <2>3. fr'[c][s] = fr[c][s]
    BY <1>3, <2>2, EntersOne
  <2> QED BY <1>1, <1>3, <2>3 DEF AwaitedBy
<1>4. CASE AllRead(c) /\ ~Return(c)
  BY <1>4, ReadsAll DEF AwaitedBy
<1>5. CASE pc[c] \notin {"awaitFamily", "awaitAll"} /\ fr' = fr
  BY <1>1, <1>5 DEF AwaitedBy
<1> QED BY <1>2, <1>3, <1>4, <1>5, CallFrames

LEMMA AwaitedNext ==
  ASSUME IInv, Signing, [Next]_vars
  PROVE  FramesAwaited'
<1> SUFFICES ASSUME NEW c \in Callers, NEW s \in Sessions,
                    s \notin AwaitedBy(pc'[c], loc'[c])
             PROVE  fr'[c][s].pc = "none"
  BY DEF FramesAwaited, AwaitedBy
<1>1. s \notin AwaitedBy(pc[c], loc[c]) => fr[c][s].pc = "none"
  BY DEF Signing, FramesAwaited
<1>2. CASE CallStep(c) \/ CallerStep(c) \/ Fail(c)
  BY <1>2, CallAwaited
<1>3. ASSUME NEW d \in Callers \ {c}, CallStep(d) \/ CallerStep(d) \/ Fail(d)
      PROVE  fr'[c][s].pc = "none"
  <2>1. pc'[c] = pc[c] /\ loc'[c] = loc[c] /\ fr'[c] = fr[c]
    BY <1>3, OwnState
  <2> QED BY <1>1, <2>1
<1>4. ASSUME NEW d \in Callers, NEW x \in Sessions, FamStep(d, x) \/ FamFail(d, x)
      PROVE  fr'[c][s].pc = "none"
  <2>1. UNCHANGED <<pc, loc>>
    BY <1>4, FamiliesWait
  <2>2. fr[c][s].pc = "none"
    BY <1>1, <2>1
  <2>3. <<c, s>> # <<d, x>>
    BY <1>4, <2>2, FamilyFrame
  <2> QED BY <1>4, <2>2, <2>3, FamilyFrame
<1>5. CASE (\E t \in RefreshTokens : GraceLapses(t)) \/ (\E x \in Sessions : FamilyAges(x))
           \/ Quiet \/ UNCHANGED vars
  <2>1. UNCHANGED <<pc, loc, fr>>
    BY <1>5 DEF GraceLapses, FamilyAges, Quiet, vars
  <2> QED BY <1>1, <2>1
<1> QED BY <1>2, <1>3, <1>4, <1>5 DEF Next

LEMMA FailuresCount ==
  ASSUME IInv, [Next]_vars
  PROVE  /\ fails \in Nat /\ fails' \in Nat /\ fails <= fails'
         /\ \A c \in Callers : Fail(c) => fails' > 0
         /\ \A c \in Callers, s \in Sessions : FamFail(c, s) => fails' > 0
<1>1. fails \in Nat
  BY DEF IInv, TypeOK, HistoryTypeOK
<1>2. ASSUME NEW c \in Callers, CallStep(c) \/ CallerStep(c) \/ Fail(c)
      PROVE  fails' = fails \/ fails' = fails + 1
  BY Zenon, <1>2 DEF CallStep, CallCreate, CallRefresh, CallRevoke, CallRevokeAll, CallList, Call,
     CallerStep, WriteSet, WriteIndex, CreateMeta, CreateUser, Peek, Take, EntryCheck, SetGrace,
     SetTombstone, MidCheck, TouchGet, TouchSet, Discard, AwaitTombstone, RevokedCheck,
     Backoff, GraceGet, AdoptCheck, IssueRecord, IssueId, IssueIndex, IssueSigned, PostCheck,
     UndoLookup, UndoRead, UndoDelete, UndoUnindex, UndoDeny, FamilyEnded, AllRead, AllRemove,
     ListRead, ListMeta, ListPrune, Fail, bounds
<1>3. ASSUME NEW c \in Callers, NEW s \in Sessions, FamStep(c, s) \/ FamFail(c, s)
      PROVE  fails' = fails \/ fails' = fails + 1
  BY Zenon, <1>3 DEF FamStep, FamFail, FamMarker, FamMeta, FamEnumerate, FamMarkEach, FamWipe,
     FamDrop, FamTokens, FamDelete, FamDeny, FamDropTokens, FamUnlist, bounds
<1>4. ASSUME \/ \E t \in RefreshTokens : GraceLapses(t)
             \/ \E x \in Sessions : FamilyAges(x)
             \/ Quiet \/ UNCHANGED vars
      PROVE  fails' = fails
  BY <1>4 DEF GraceLapses, FamilyAges, Quiet, vars, bounds
<1>5. fails' = fails \/ fails' = fails + 1
  BY <1>2, <1>3, <1>4 DEF Next
<1>6. ASSUME NEW c \in Callers, Fail(c) PROVE fails' > 0
  <2>1. fails' = fails + 1
    BY <1>6, Zenon DEF Fail
  <2> QED BY <1>1, <2>1
<1>7. ASSUME NEW c \in Callers, NEW s \in Sessions, FamFail(c, s) PROVE fails' > 0
  <2>1. fails' = fails + 1
    BY <1>7, Zenon DEF FamFail
  <2> QED BY <1>1, <2>1
<1> QED BY <1>1, <1>5, <1>6, <1>7

\* A call's own step ends no frame and ends no session.
LEMMA CallTold ==
  ASSUME IInv, Signing, NEW c \in Callers, CallStep(c) \/ CallerStep(c) \/ Fail(c)
  PROVE  /\ ended' = ended
         /\ \A s \in Sessions : fr'[c][s].pc \in {"none", "marker", fr[c][s].pc}
<1>1. ended' = ended
  BY Zenon DEF CallStep, CallCreate, CallRefresh, CallRevoke, CallRevokeAll, CallList, Call,
     CallerStep, WriteSet, WriteIndex, CreateMeta, CreateUser, Peek, Take, EntryCheck, SetGrace,
     SetTombstone, MidCheck, TouchGet, TouchSet, Discard, AwaitTombstone, RevokedCheck,
     Backoff, GraceGet, AdoptCheck, IssueRecord, IssueId, IssueIndex, IssueSigned, PostCheck,
     UndoLookup, UndoRead, UndoDelete, UndoUnindex, UndoDeny, FamilyEnded, AllRead, AllRemove,
     ListRead, ListMeta, ListPrune, Fail, history
<1>2. ASSUME NEW s \in Sessions
      PROVE  fr'[c][s].pc \in {"none", "marker", fr[c][s].pc}
  <2>1. CASE Return(c)
    BY <2>1, ReturnIsQuiet
  <2>2. ASSUME NEW x \in Sessions, NEW o, EnterFamily(c, x, o)
        PROVE  fr'[c][s].pc \in {"none", "marker", fr[c][s].pc}
    BY <2>2, EntersOne
  <2>3. CASE AllRead(c) /\ ~Return(c)
    BY <2>3, ReadsAll
  <2> QED BY <2>1, <2>2, <2>3, CallFrames
<1> QED BY <1>1, <1>2

LEMMA ToldNext ==
  ASSUME IInv, Signing, [Next]_vars
  PROVE  FramesTold'
<1> SUFFICES ASSUME NEW c \in Callers, NEW s \in Sessions
             PROVE  /\ fr'[c][s].pc = "done" => s \in ended'
                    /\ fr'[c][s].pc = "failed" => fails' > 0
  BY DEF FramesTold
<1>1. /\ fr[c][s].pc = "done" => s \in ended
      /\ fr[c][s].pc = "failed" => fails > 0
  BY DEF Signing, FramesTold
<1>2. fails > 0 => fails' > 0
  BY FailuresCount
<1>3. CASE CallStep(c) \/ CallerStep(c) \/ Fail(c)
  BY <1>1, <1>2, <1>3, CallTold
<1>4. ASSUME NEW d \in Callers \ {c}, CallStep(d) \/ CallerStep(d) \/ Fail(d)
      PROVE  fr'[c] = fr[c] /\ ended' = ended
  BY <1>4, OwnState, CallTold
<1>5. ASSUME NEW d \in Callers, NEW x \in Sessions, FamStep(d, x) \/ FamFail(d, x)
      PROVE  /\ fr'[c][s].pc = "done" => s \in ended'
             /\ fr'[c][s].pc = "failed" => fails' > 0
  <2>1. CASE <<c, s>> = <<d, x>>
    BY <1>5, <2>1, FamilyFrame, FailuresCount
  <2>2. CASE <<c, s>> # <<d, x>>
    <3>1. fr'[c][s] = fr[c][s] /\ ended \subseteq ended'
      BY <1>5, <2>2, FamilyFrame
    <3> QED BY <1>1, <1>2, <3>1
  <2> QED BY <2>1, <2>2
<1>6. CASE (\E t \in RefreshTokens : GraceLapses(t)) \/ (\E x \in Sessions : FamilyAges(x))
           \/ Quiet \/ UNCHANGED vars
  <2>1. UNCHANGED <<fr, ended>>
    BY <1>6 DEF GraceLapses, FamilyAges, Quiet, vars, history
  <2> QED BY <1>1, <1>2, <2>1
<1> QED BY <1>1, <1>2, <1>3, <1>4, <1>5, <1>6 DEF Next

\* A call waits for every revocation it runs: without a failure none stops half
\* way.
LEMMA CallKeepsRunning ==
  ASSUME IInv, Signing, NEW c \in Callers, CallStep(c) \/ CallerStep(c),
         NEW s \in Sessions, Running(c, s)
  PROVE  Running(c, s)'
<1>1. s \in AwaitedBy(pc[c], loc[c])
  BY DEF Running, Signing, FramesAwaited
<1>2. pc[c] \in {"awaitFamily", "awaitAll"}
  BY <1>1 DEF AwaitedBy
<1>3. ~FamilyEnded(c)
  BY <1>1 DEF FamilyEnded, AwaitedBy, Running
<1>4. ~AllRemove(c)
  BY <1>1 DEF AllRemove, AwaitedBy, Running, Settled
<1>5. FALSE
  BY Zenon, <1>2, <1>3, <1>4 DEF CallStep, CallCreate, CallRefresh, CallRevoke, CallRevokeAll, CallList,
     Call, CallerStep, WriteSet, WriteIndex, CreateMeta, CreateUser, Peek, Take, EntryCheck,
     SetGrace, SetTombstone, MidCheck, TouchGet, TouchSet, Discard, AwaitTombstone,
     RevokedCheck, Backoff, GraceGet, AdoptCheck, IssueRecord, IssueId, IssueIndex,
     IssueSigned, PostCheck, UndoLookup, UndoRead, UndoDelete, UndoUnindex, UndoDeny,
     AllRead, ListRead, ListMeta, ListPrune
<1> QED BY <1>5

LEMMA AttendedNext ==
  ASSUME IInv, Signing, [Next]_vars
  PROVE  Attended'
<1> SUFFICES ASSUME fails' = 0, NEW s \in marker'
             PROVE  s \in ended' \/ \E c \in Callers : Running(c, s)'
  BY DEF Attended
<1>1. /\ fails = 0
      /\ \A c \in Callers : ~Fail(c)
      /\ \A c \in Callers, x \in Sessions : ~FamFail(c, x)
  BY FailuresCount
<1>2. s \in marker => s \in ended \/ \E c \in Callers : Running(c, s)
  BY <1>1 DEF Signing, Attended
<1>3. ASSUME NEW c \in Callers, CallStep(c) \/ CallerStep(c)
      PROVE  s \in ended' \/ \E d \in Callers : Running(d, s)'
  <2>1. marker' = marker
    BY Zenon, <1>3 DEF CallStep, CallCreate, CallRefresh, CallRevoke, CallRevokeAll, CallList, Call,
       CallerStep, WriteSet, WriteIndex, CreateMeta, CreateUser, Peek, Take, EntryCheck,
       SetGrace, SetTombstone, MidCheck, TouchGet, TouchSet, Discard, AwaitTombstone,
       RevokedCheck, Backoff, GraceGet, AdoptCheck, IssueRecord, IssueId, IssueIndex,
       IssueSigned, PostCheck, UndoLookup, UndoRead, UndoDelete, UndoUnindex, UndoDeny,
       FamilyEnded, AllRead, AllRemove, ListRead, ListMeta, ListPrune, sessionKeys
  <2>2. ended' = ended
    BY <1>3, CallTold
  <2>3. CASE s \in ended
    BY <2>2, <2>3
  <2>4. ASSUME NEW d \in Callers, Running(d, s) PROVE Running(d, s)'
    <3>1. s \in Sessions
      BY <2>1 DEF IInv, TypeOK, StoreTypeOK
    <3>2. CASE d = c
      BY <1>3, <2>4, <3>1, <3>2, CallKeepsRunning
    <3>3. CASE d # c
      <4>1. fr'[d] = fr[d]
        BY <1>3, <3>3, OwnState
      <4> QED BY <2>4, <4>1 DEF Running
    <3> QED BY <3>2, <3>3
  <2> QED BY <1>2, <2>1, <2>3, <2>4
<1>4. ASSUME NEW c \in Callers, NEW x \in Sessions, FamStep(c, x)
      PROVE  s \in ended' \/ \E d \in Callers : Running(d, s)'
  <2>1. fr'[c][x].pc \notin {"none", "failed"} /\ (fr'[c][x].pc = "done" => x \in ended')
    BY <1>1, <1>4, FamilyFrame
  <2>2. CASE s = x
    BY <2>1, <2>2 DEF Running
  <2>3. CASE s # x
    <3>1. s \in marker
      BY Zenon, <1>4, <2>3 DEF FamStep, FamMarker, FamMeta, FamEnumerate, FamMarkEach, FamWipe,
         FamDrop, FamTokens, FamDelete, FamDeny, FamDropTokens, FamUnlist, sessionKeys
    <3>2. s \in Sessions
      BY <3>1 DEF IInv, TypeOK, StoreTypeOK
    <3>3. ended \subseteq ended' /\ \A d \in Callers : fr'[d][s] = fr[d][s]
      BY <1>4, <2>3, <3>2, FamilyFrame
    <3> QED BY <1>2, <3>1, <3>3 DEF Running
  <2> QED BY <2>2, <2>3
<1>5. CASE (\E t \in RefreshTokens : GraceLapses(t)) \/ (\E x \in Sessions : FamilyAges(x))
           \/ Quiet \/ UNCHANGED vars
  <2>1. UNCHANGED <<fr, ended, marker>>
    BY <1>5 DEF GraceLapses, FamilyAges, Quiet, vars, history, sessionKeys
  <2> QED BY <1>2, <2>1 DEF Running
<1> QED BY <1>1, <1>3, <1>4, <1>5 DEF Next

-----------------------------------------------------------------------------
(***************************************************************************)
(* What revokeAllForUser() was to reach.                                   *)
(***************************************************************************)
LEMMA SignFactKept ==
  ASSUME Steady, NEW l, NEW r, r.known \subseteq Sessions, SignFact(l, r)
  PROVE  SignFact(l, r)'
<1>1. l = "allRead" => \A s \in r.known : Listed(s)'
  BY StillListed DEF SignFact
<1>2. l = "awaitAll" => \A s \in r.known : s \in r.snap \/ ~Standing(s)'
  BY DEF SignFact, Steady
<1> QED BY <1>1, <1>2 DEF SignFact

LEMMA SignElsewhere ==
  ASSUME IInv, Steady, Signing, NEW c \in Callers, pc'[c] = pc[c], loc'[c] = loc[c]
  PROVE  SignFact(pc[c], loc[c])'
<1>1. PICK l \in Labels, r \in Locals : l = pc[c] /\ r = loc[c]
  BY DEF IInv, TypeOK, CallerTypeOK
<1>2. SignFact(l, r) /\ r.known \subseteq Sessions
  BY <1>1 DEF Signing, SignFacts, Locals
<1>3. SignFact(l, r)'
  BY <1>2, SignFactKept
<1>4. pc'[c] = l /\ loc'[c] = r
  BY <1>1
<1> QED BY <1>3, <1>4 DEF SignFact

LEMMA CallSigns ==
  ASSUME IInv, Listing, Steady, Signing, NEW c \in Callers,
         CallStep(c) \/ CallerStep(c) \/ Fail(c)
  PROVE  SignFact(pc[c], loc[c])'
<1>1. CASE CallRevokeAll(c)
  <2> PICK u \in Users :
        Call(c, "allRead",
             [NoLocals EXCEPT !.op = "revokeAll", !.user = u,
                 !.known = {s \in {SessionOf(t) : t \in handedR} : UserOf[s] = u}])
    BY <1>1 DEF CallRevokeAll
  <2> DEFINE k == {s \in {SessionOf(t) : t \in handedR} : UserOf[s] = u}
             r == [NoLocals EXCEPT !.op = "revokeAll", !.user = u, !.known = k]
  <2>1. \A s \in k : s \in Sessions /\ UserOf[s] = u /\ Listed(s)
    BY DEF IInv, MintedOK, Listing, LiveSessionsListed, Listed, Standing
  <2>2. pc' = [pc EXCEPT ![c] = "allRead"] /\ loc' = [loc EXCEPT ![c] = r]
    BY DEF Call, Goto
  <2> HIDE DEF k
  <2>3. r \in Locals /\ r.user = u /\ r.known = k /\ r.snap = {}
    BY <2>1, NoLocalsType DEF Locals, Ops, NoLocals
  <2> HIDE DEF r
  <2>4. PICK g \in Locals : g = r
    BY <2>3
  <2>5. SignFact("allRead", g) /\ g.known \subseteq Sessions
    BY <2>1, <2>3, <2>4 DEF SignFact
  <2>6. SignFact("allRead", g)'
    BY <2>5, SignFactKept
  <2>7. pc'[c] = "allRead" /\ loc'[c] = g
    BY <2>2, <2>4 DEF IInv, TypeOK, CallerTypeOK
  <2> QED BY <2>6, <2>7 DEF SignFact
<1>2. CASE AllRead(c) /\ ~Return(c)
  <2>1. /\ pc[c] = "allRead" /\ pc'[c] = "awaitAll"
        /\ loc'[c].snap = userIndex[loc[c].user] /\ loc'[c].known = loc[c].known
    BY <1>2, ReadsAll
  <2>2. \A s \in loc[c].known : UserOf[s] = loc[c].user /\ Listed(s)
    BY <2>1 DEF Signing, SignFacts, SignFact
  <2>3. UNCHANGED <<phase, marker>>
    BY <1>2 DEF AllRead, sessionKeys, bounds
  <2>4. \A s \in loc'[c].known : s \in loc'[c].snap \/ ~Standing(s)'
    BY <2>1, <2>2, <2>3 DEF Listed, Standing
  <2> QED BY <2>1, <2>4 DEF SignFact
<1>3. CASE ~CallRevokeAll(c) /\ ~(AllRead(c) /\ ~Return(c))
  <2>1. pc'[c] \notin {"allRead", "awaitAll"}
    <3> USE DEF IInv, TypeOK, CallerTypeOK, Goto
    <3>1. ASSUME Return(c) \/ \E x, o : EnterFamily(c, x, o)
          PROVE  pc'[c] \notin {"allRead", "awaitAll"}
      BY <3>1 DEF Return, EnterFamily
    <3>2. CASE CallStep(c)
      BY ZenonT(60), <1>3, <3>1, <3>2 DEF CallStep, CallCreate, CallRefresh, CallRevoke, CallList, Call
    <3>3. CASE ~CallStep(c)
      BY ZenonT(60), <1>3, <3>1, <3>3 DEF CallerStep, WriteSet, WriteIndex, CreateMeta, CreateUser, Peek,
         Take, EntryCheck, SetGrace, SetTombstone, MidCheck, TouchGet, TouchSet, Discard,
         AwaitTombstone, FoundTombstone, RevokedCheck, Backoff, GraceGet, AdoptCheck,
         IssueRecord, IssueId, IssueIndex, IssueSigned, PostCheck, AfterUndo, UndoLookup,
         UndoRead, UndoDelete, UndoUnindex, UndoDeny, FamilyEnded, AllRemove, ListRead,
         ListMeta, ListPrune, Fail
    <3> QED BY <3>2, <3>3
  <2> QED BY <2>1 DEF SignFact
<1> QED BY <1>1, <1>2, <1>3

LEMMA SignsNext ==
  ASSUME IInv, Listing, Steady, Signing, [Next]_vars
  PROVE  SignFacts'
<1> SUFFICES ASSUME NEW c \in Callers PROVE SignFact(pc[c], loc[c])'
  BY DEF SignFacts
<1>1. CASE CallStep(c) \/ CallerStep(c) \/ Fail(c)
  BY <1>1, CallSigns
<1>2. CASE ~(CallStep(c) \/ CallerStep(c) \/ Fail(c))
  <2>1. pc'[c] = pc[c] /\ loc'[c] = loc[c]
    BY <1>2, OwnStep
  <2> QED BY <2>1, SignElsewhere
<1> QED BY <1>1, <1>2

LEMMA SigningInit == Init => Signing
  BY DEF Init, Signing, FramesAwaited, FramesTold, Attended, SignFacts, SignFact, NoFrames,
         NoFrame

LEMMA SigningAlways == Spec => [](Listing /\ Signing)
<1>1. Init => Listing /\ Signing
  BY ListingInit, SigningInit
<1>2. IInv /\ Listing /\ Signing /\ [Next]_vars => (Listing /\ Signing)'
  <2> SUFFICES ASSUME IInv, Listing, Signing, [Next]_vars PROVE Listing' /\ Signing'
    OBVIOUS
  <2>1. Steady
    BY StepsSteady
  <2>2. Listing'
    BY <2>1, ListFactsNext, DescribedNext, HandedListed DEF Listing
  <2>3. Signing'
    BY <2>1, AwaitedNext, ToldNext, AttendedNext, SignsNext DEF Signing
  <2> QED BY <2>2, <2>3
<1> QED BY <1>1, <1>2, Invariance, PTL DEF Spec

LEMMA SignOutNext ==
  ASSUME IInv, Listing, Signing, [Next]_vars, NEW c \in Callers,
         pc[c] \in {"allRead", "awaitAll"}, pc'[c] = "idle", fails' = fails, Failed(c) = {},
         NEW s \in loc[c].known
  PROVE  \/ s \in ended \/ phase[s] # "live" \/ RevokedByOther(c, s)
         \/ s \in marker \ loc[c].snap /\ fails > 0
<1>1. SignFact(pc[c], loc[c]) /\ s \in Sessions /\ fails \in Nat
  BY Here DEF Signing, SignFacts, Locals, IInv, TypeOK, HistoryTypeOK
<1>2. CallerStep(c)
  <2>1. ~CallStep(c)
    BY DEF CallStep, CallCreate, CallRefresh, CallRevoke, CallRevokeAll, CallList, Call
  <2>2. ~Fail(c)
    BY SMTT(40), <1>1 DEF Fail
  <2> QED BY <2>1, <2>2, OwnStep
<1>3. AllRead(c) \/ AllRemove(c)
  BY <1>2 DEF CallerStep, WriteSet, WriteIndex, CreateMeta, CreateUser, Peek, Take, EntryCheck,
     SetGrace, SetTombstone, MidCheck, TouchGet, TouchSet, Discard, AwaitTombstone,
     RevokedCheck, Backoff, GraceGet, AdoptCheck, IssueRecord, IssueId, IssueIndex,
     IssueSigned, PostCheck, UndoLookup, UndoRead, UndoDelete, UndoUnindex, UndoDeny,
     FamilyEnded, ListRead, ListMeta, ListPrune
<1>4. CASE s \in loc[c].snap
  <2>1. AllRemove(c)
    BY <1>1, <1>3, <1>4 DEF SignFact, AllRead
  <2>2. fr[c][s].pc = "done"
    BY <1>4, <2>1 DEF AllRemove, Settled, Failed
  <2> QED BY <1>1, <2>2 DEF Signing, FramesTold
<1>5. CASE s \notin loc[c].snap
  <2>1. ~Standing(s)
    <3>1. CASE AllRead(c)
      <4>1. userIndex[loc[c].user] = {}
        <5>1. ~Goto(c, "awaitAll")
          BY DEF Goto, IInv, TypeOK, CallerTypeOK
        <5> QED BY <3>1, <5>1 DEF AllRead
      <4>2. UserOf[s] = loc[c].user /\ Listed(s)
        BY <1>1, <3>1 DEF SignFact, AllRead
      <4> QED BY <4>1, <4>2 DEF Listed
    <3>2. CASE AllRemove(c)
      BY <1>1, <1>5, <3>2 DEF SignFact, AllRemove
    <3> QED BY <1>3, <3>1, <3>2
  <2>2. s \notin AwaitedBy(pc[c], loc[c])
    BY <1>3, <1>5 DEF AwaitedBy, AllRead, AllRemove
  <2>3. ~Running(c, s)
    BY <1>1, <2>2 DEF Signing, FramesAwaited, Running
  <2>4. CASE s \in marker /\ fails = 0
    <3>1. s \in ended \/ \E d \in Callers : Running(d, s)
      BY <2>4 DEF Signing, Attended
    <3> QED BY <2>3, <3>1 DEF Running, RevokedByOther
  <2>5. CASE s \in marker /\ fails # 0
    BY <1>1, <1>5, <2>5
  <2> QED BY <2>1, <2>4, <2>5 DEF Standing
<1> QED BY <1>4, <1>5

\* Signing out everywhere leaves no session behind: for any users, sessions and
\* calls under way, when revokeAllForUser() returns without an error, every
\* session of the user that anyone held a token of when it was called has been
\* revoked, has expired or is being revoked by another call, unless a store
\* command has failed and the session was one whose revocation had begun
\* earlier and that the index no longer held.
THEOREM SignOutReachesAll == Spec => SignOutEverywhere
<1>1. IInv /\ Listing /\ Signing /\ [Next]_vars =>
         [\A c \in Callers :
             /\ loc[c].op = "revokeAll"
             /\ pc[c] \in {"allRead", "awaitAll"} /\ pc'[c] = "idle"
             /\ fails' = fails /\ Failed(c) = {}
             => \A s \in loc[c].known :
                   \/ s \in ended \/ phase[s] # "live" \/ RevokedByOther(c, s)
                   \/ s \in marker \ loc[c].snap /\ fails > 0]_vars
  BY SignOutNext
<1> QED BY <1>1, Invariance, SigningAlways, PTL DEF Spec, SignOutEverywhere

-----------------------------------------------------------------------------
(***************************************************************************)
(* The absolute lifetime of a family.                                      *)
(***************************************************************************)
LEMMA InTime ==
  ASSUME NothingOutlivesFamily, token' = token, phase' = phase,
         rt' \subseteq rt, consumed' \subseteq consumed, meta' \subseteq meta
  PROVE  NothingOutlivesFamily'
BY DEF NothingOutlivesFamily, SessionOf

\* The commands that write a record of a family.
LEMMA WritesInTime ==
  ASSUME IInv, NothingOutlivesFamily, NEW c \in Callers,
         WriteSet(c) \/ CreateMeta(c) \/ SetTombstone(c) \/ TouchSet(c)
  PROVE  NothingOutlivesFamily'
<1>1. \A t \in rt \cup consumed : SessionOf(t) \in Sessions /\ phase[SessionOf(t)] = "live"
  BY DEF NothingOutlivesFamily
<1>2. \A s \in meta : s \in Sessions /\ phase[s] = "live"
  BY DEF NothingOutlivesFamily
<1>3. SUFFICES /\ \A t \in rt' \cup consumed' : SessionOf(t)' \in Sessions /\ phase'[SessionOf(t)'] = "live"
               /\ \A s \in meta' : s \in Sessions /\ phase'[s] = "live"
  BY DEF NothingOutlivesFamily
<1>4. PICK s : s = loc[c].sess
  OBVIOUS
<1>5. s \in Sessions
  BY <1>4, Here DEF WriteSet, CreateMeta, SetTombstone, TouchSet, CallOK, Unfamiliar
<1>6. CASE WriteSet(c)
  <2>1. PICK t \in RefreshTokens : t = FreshToken /\ ~Minted(t)
    BY <1>6, FreshTokenOK DEF WriteSet
  <2>2. PICK r : token' = [token EXCEPT ![t] = r] /\ r.session = s
    <3>1. PICK g : g = IF loc[c].op = "create" THEN 0 ELSE token[loc[c].old].generation + 1
      OBVIOUS
    <3>2. PICK r : r = [session |-> s, generation |-> g]
      OBVIOUS
    <3>3. token' = [token EXCEPT ![t] = r]
      BY <1>4, <1>6, <2>1, <3>1, <3>2 DEF WriteSet
    <3>4. r.session = s
      BY <3>2
    <3> QED BY <3>3, <3>4, Zenon
  <2>3. /\ rt' = IF phase[s] = "live" THEN rt \cup {t} ELSE rt
        /\ consumed' = consumed /\ meta' = meta /\ phase' = phase
    BY <1>4, <1>6, <2>1 DEF WriteSet, sessionKeys, bounds
  <2>4. SessionOf(t) \notin Sessions
    BY <2>1, ConstantsAssumption DEF Minted, NoRecord, SessionOf
  <2>5. \A u \in RefreshTokens : SessionOf(u)' = IF u = t THEN s ELSE SessionOf(u)
    BY <2>1, <2>2 DEF SessionOf, IInv, TypeOK, StoreTypeOK
  <2>6. rt \subseteq RefreshTokens /\ consumed \subseteq RefreshTokens
    BY DEF IInv, TypeOK, StoreTypeOK
  <2> QED BY <1>1, <1>2, <1>5, <2>1, <2>3, <2>4, <2>5, <2>6
<1>7. CASE CreateMeta(c)
  BY <1>1, <1>2, <1>4, <1>5, <1>7 DEF CreateMeta, SessionOf, refreshKeys, minted, bounds
<1>8. CASE SetTombstone(c)
  <2>1. SessionOf(loc[c].old) = s
    BY <1>4, <1>8, Here DEF SetTombstone, CallOK, HasOld
  <2> QED BY <1>1, <1>2, <1>4, <1>5, <1>8, <2>1
          DEF SetTombstone, SessionOf, sessionKeys, minted, bounds
<1>9. CASE TouchSet(c)
  BY <1>1, <1>2, <1>4, <1>5, <1>9 DEF TouchSet, SessionOf, refreshKeys, minted, bounds
<1> QED BY <1>6, <1>7, <1>8, <1>9

LEMMA StepInTime ==
  ASSUME IInv, NothingOutlivesFamily, [Next]_vars
  PROVE  NothingOutlivesFamily'
<1> DEFINE Less == /\ token' = token /\ phase' = phase
                   /\ rt' \subseteq rt /\ consumed' \subseteq consumed /\ meta' \subseteq meta
<1>1. ASSUME NEW c \in Callers, CallStep(c) \/ CallerStep(c) \/ Fail(c)
      PROVE  Less \/ WriteSet(c) \/ CreateMeta(c) \/ SetTombstone(c) \/ TouchSet(c)
  BY Zenon, <1>1 DEF CallStep, CallCreate, CallRefresh, CallRevoke, CallRevokeAll, CallList, Call,
     CallerStep, WriteIndex, Peek, Take, EntryCheck, SetGrace, CreateUser,
     MidCheck, TouchGet, Discard, AwaitTombstone, RevokedCheck,
     Backoff, GraceGet, AdoptCheck, IssueRecord, IssueId, IssueIndex, IssueSigned, PostCheck,
     UndoLookup, UndoRead, UndoDelete, UndoUnindex, UndoDeny, FamilyEnded, AllRead, AllRemove,
     ListRead, ListMeta, ListPrune, Fail, refreshKeys, sessionKeys, minted, bounds
<1>2. ASSUME NEW c \in Callers, NEW s \in Sessions, FamStep(c, s) \/ FamFail(c, s)
      PROVE  Less
  BY Zenon, <1>2 DEF FamStep, FamFail, FamMarker, FamMeta, FamEnumerate, FamMarkEach, FamWipe,
     FamDrop, FamTokens, FamDelete, FamDeny, FamDropTokens, FamUnlist,
     refreshKeys, sessionKeys, minted, bounds
<1>3. ASSUME NEW t \in RefreshTokens, GraceLapses(t) PROVE Less
  BY <1>3 DEF GraceLapses, sessionKeys, minted, bounds
<1>4. ASSUME Quiet \/ UNCHANGED vars PROVE Less
  BY <1>4 DEF Quiet, vars, refreshKeys, sessionKeys, minted, bounds
<1>5. ASSUME NEW s \in Sessions, FamilyAges(s) PROVE NothingOutlivesFamily'
  <2>1. /\ \A t \in rt' \cup consumed' : t \in rt \cup consumed /\ SessionOf(t)' # s
        /\ \A u \in meta' : u \in meta /\ u # s
    BY <1>5 DEF FamilyAges, SessionOf, minted, IInv, TypeOK, StoreTypeOK
  <2>2. token' = token /\ \A u \in Sessions \ {s} : phase'[u] = phase[u]
    BY <1>5 DEF FamilyAges, minted, IInv, TypeOK, HistoryTypeOK
  <2> QED BY <2>1, <2>2 DEF NothingOutlivesFamily, SessionOf
<1>6. ASSUME Less PROVE NothingOutlivesFamily'
  BY <1>6, InTime
<1> QED BY <1>1, <1>2, <1>3, <1>4, <1>5, <1>6, WritesInTime, Zenon DEF Next

\* No family outlives its absolute lifetime in the store: for any callers and
\* failures, once familyExpiresAt has passed no refresh token, tombstone or
\* metadata of it is there, also of a rotation that it passed in the middle of.
THEOREM FamiliesEndInTime == Spec => []NothingOutlivesFamily
<1>1. Init => NothingOutlivesFamily
  BY DEF Init, NothingOutlivesFamily
<1> QED BY <1>1, StepInTime, Invariance, PTL DEF Spec
=============================================================================
