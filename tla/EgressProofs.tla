---------------------------- MODULE EgressProofs ----------------------------
(***************************************************************************)
(* Proofs about two things the gateway needs to reach an upstream: the     *)
(* session of a Grok account and the pool of outbound proxies.  They share *)
(* no state, only this module.                                             *)
(***************************************************************************)
EXTENDS GrokAccount, OutboundPool, TLAPS

-----------------------------------------------------------------------------
(* The session of one Grok account, for every number of handlers, objects  *)
(* and tokens: as long as nothing outside the gateway lost the session,    *)
(* the token in memory is one the server accepts, only a dead token        *)
(* disables the account, and Redis has what memory has once nobody saves.  *)

Stages == {"idle", "attempt", "retry", "refresh", "wait", "call", "apply", "refreshed", "toDTO", "save"}
MaybeAccount == AccountObjs \cup {NoAccount}
ProcRecord == [pc : Stages, obj : MaybeAccount, tok : Nat,
               res : {"none", "ok", "error", "invalid_grant"},
               dto : AccountDTO \cup {NoHash}, fresh : BOOLEAN, then : {"idle", "release"}]

GrokTypes ==
  /\ acct \in [AccountObjs -> AccountDTO] /\ listed \in MaybeAccount
  /\ hash \in AccountDTO \cup {NoHash} /\ gp \in [GrokProcs -> ProcRecord]
  /\ flight \in GrokProcs \cup {NoAccount} /\ issued \in Nat /\ live \subseteq Nat
  /\ AccountObjs # {}
  /\ \A p \in GrokProcs : gp[p].pc # "idle" => gp[p].obj \in AccountObjs

(* No token anybody has is newer than the last one the server issued. *)
TokensIssued ==
  /\ 1 <= issued /\ hash.rt <= issued
  /\ \A o \in AccountObjs : acct[o].rt <= issued
  /\ \A p \in GrokProcs : gp[p].tok <= issued /\ gp[p].dto.rt <= issued

(* The goroutine in a refresh is the leader of the flight, and a flight has *)
(* one; who waits, waits for a flight.                                      *)
Leading(p) ==
  \/ gp[p].pc \in {"call", "apply"}
  \/ gp[p].pc \in {"toDTO", "save"} /\ gp[p].then = "release"
OneLeader ==
  \A p \in GrokProcs :
    /\ Leading(p) <=> flight = p
    /\ gp[p].pc = "wait" => flight # NoAccount

(* Objects in use never share a refresh token, and the token in hand of the *)
(* leader is not that of another object: a refresh spends its own.          *)
InUse(o) == o = listed \/ \E p \in GrokProcs : gp[p].obj = o
OwnTokens ==
  /\ \A o, x \in AccountObjs : InUse(o) /\ InUse(x) /\ o # x => acct[o].rt # acct[x].rt
  /\ \A p \in GrokProcs, o \in AccountObjs :
       gp[p].pc \in {"call", "apply"} /\ InUse(o) /\ o # gp[p].obj => acct[o].rt # gp[p].tok

SnapshotFresh ==
  \A p \in GrokProcs : gp[p].pc = "save" /\ gp[p].fresh => gp[p].dto = acct[gp[p].obj]

(* As long as the session was not lost: who waits shares the object of the  *)
(* leader, the token of the listed account is alive, in memory or in hand   *)
(* of the leader, and no verdict against it is on its way.                  *)
JoinedSame ==
  ~lost => \A p, q \in GrokProcs :
             gp[q].pc = "wait" /\ flight = p => gp[q].obj = gp[p].obj
TokenAlive ==
  ~lost /\ listed # NoAccount =>
    /\ (\A p \in GrokProcs : ~(gp[p].pc = "apply" /\ gp[p].obj = listed)) => acct[listed].rt \in live
    /\ \A p \in GrokProcs : gp[p].obj = listed =>
         /\ gp[p].pc = "call" => gp[p].tok = acct[listed].rt
         /\ gp[p].pc = "apply" => gp[p].tok \in live
NoVerdict ==
  ~lost /\ listed # NoAccount =>
    /\ acct[listed].status # "revoked"
    /\ \A p \in GrokProcs :
         gp[p].pc = "refreshed" /\ gp[p].res = "invalid_grant" => gp[p].obj # listed

GrokInv ==
  /\ GrokTypes /\ TokensIssued /\ OneLeader /\ OwnTokens
  /\ SnapshotFresh /\ GrokPersisted
  /\ JoinedSame /\ TokenAlive /\ NoVerdict

-----------------------------------------------------------------------------
(* Facts that several steps use. *)

(* The stages of a goroutine that takes no part in a refresh or a save. *)
Outside == {"idle", "attempt", "retry", "refresh"}

LEMMA AccountRecords ==
  /\ \A r \in AccountDTO : r.rt \in Nat /\ r.status \in AccountStatus /\ r # NoHash
  /\ \A r \in AccountDTO \cup {NoHash} : r.rt \in Nat
  /\ \A t \in Nat : /\ NewAccount(t) \in AccountDTO
                    /\ NewAccount(t).rt = t /\ NewAccount(t).status = "enabled"
  /\ NoHash.rt = 0
  BY DEF AccountDTO, AccountStatus, NoHash, NewAccount

LEMMA IdleFields ==
  /\ IdleProc \in ProcRecord
  /\ IdleProc.pc = "idle" /\ IdleProc.obj = NoAccount /\ IdleProc.tok = 0
  /\ IdleProc.res = "none" /\ IdleProc.dto = NoHash /\ IdleProc.then = "idle"
  BY DEF IdleProc, ProcRecord, Stages, MaybeAccount, NoHash

LEMMA ProcFields ==
  \A r \in ProcRecord :
    /\ r.pc \in Stages /\ r.obj \in MaybeAccount /\ r.tok \in Nat
    /\ r.res \in {"none", "ok", "error", "invalid_grant"}
    /\ r.dto \in AccountDTO \cup {NoHash} /\ r.fresh \in BOOLEAN /\ r.then \in {"idle", "release"}
  BY DEF ProcRecord

LEMMA NoAccountApart == NoAccount \notin AccountObjs /\ NoAccount \notin GrokProcs
  BY GrokAssumption

(* Garbage collection does not touch an object in use. *)
LEMMA CollectedKeeps ==
  ASSUME GrokTypes, TokensIssued, acct' = Collected(listed', gp')
  PROVE  /\ acct' \in [AccountObjs -> AccountDTO]
         /\ \A o \in AccountObjs : acct'[o].rt <= issued
         /\ \A o \in AccountObjs : InUse(o)' => acct'[o] = acct[o]
<1>1. PICK z \in AccountDTO : z = NewAccount(1) /\ z.rt = 1
  BY AccountRecords
<1>2. ASSUME NEW o \in AccountObjs
      PROVE  /\ InUse(o)' => acct'[o] = acct[o]
             /\ acct'[o] \in {acct[o], z}
  BY <1>1 DEF Collected, InUse
<1>3. acct' = [o \in AccountObjs |-> acct'[o]]
  BY DEF Collected
<1>4. \A o \in AccountObjs : acct'[o] \in AccountDTO
  BY <1>2 DEF GrokTypes
<1>5. acct' \in [AccountObjs -> AccountDTO]
  BY <1>3, <1>4
<1>6. \A o \in AccountObjs : acct'[o].rt <= issued
  BY <1>1, <1>2 DEF TokensIssued
<1> QED BY <1>2, <1>5, <1>6

(* What a step that leaves the session alone may do to a goroutine. *)
Follows(q) ==
  \/ gp'[q] = gp[q]
  \/ /\ gp[q].pc \in Outside \cup {"refreshed"} /\ gp'[q].pc \in Outside
     /\ gp'[q].pc # "idle" => gp'[q].obj \in AccountObjs
     /\ gp'[q].tok <= issued /\ gp'[q].dto.rt <= issued

(* And what the last step of a save, after which nothing is released. *)
Leaves(q) ==
  \/ Follows(q)
  \/ gp[q].pc = "save" /\ gp[q].then = "idle" /\ gp'[q] = IdleProc

LEMMA AsideKeep ==
  ASSUME GrokInv, UNCHANGED <<listed, flight, issued, live, lost>>,
         hash' \in AccountDTO \cup {NoHash}, hash'.rt <= issued, GrokPersisted',
         acct' \in [AccountObjs -> AccountDTO],
         \A o \in AccountObjs : acct'[o].rt <= issued,
         \A o \in AccountObjs : InUse(o)' => InUse(o) /\ acct'[o] = acct[o],
         gp' \in [GrokProcs -> ProcRecord],
         \A q \in GrokProcs : Leaves(q)
  PROVE  GrokInv'
<1>1. \A q \in GrokProcs :
        /\ gp'[q].pc \notin Outside => gp'[q] = gp[q]
        /\ gp[q].pc \notin Outside \cup {"refreshed", "save"} => gp'[q] = gp[q]
        /\ gp[q].pc = "save" /\ gp[q].then = "release" => gp'[q] = gp[q]
  BY IdleFields DEF Follows, Leaves, Outside
<1>2. GrokTypes'
  <2>1. ASSUME NEW q \in GrokProcs, gp'[q].pc # "idle" PROVE gp'[q].obj \in AccountObjs
    BY <2>1, IdleFields DEF GrokInv, GrokTypes, Follows, Leaves
  <2> QED BY <2>1 DEF GrokInv, GrokTypes
<1>3. TokensIssued'
  <2>1. issued \in Nat /\ 1 <= issued
    BY DEF GrokInv, GrokTypes, TokensIssued
  <2>2. ASSUME NEW q \in GrokProcs PROVE gp'[q].tok <= issued /\ gp'[q].dto.rt <= issued
    <3>1. CASE Follows(q)
      BY <3>1 DEF GrokInv, TokensIssued, Follows
    <3>2. CASE ~Follows(q)
      BY <2>1, <3>2, IdleFields, AccountRecords DEF Leaves
    <3> QED BY <3>1, <3>2
  <2> QED BY <2>1, <2>2 DEF TokensIssued
<1>4. \A q \in GrokProcs : Leading(q)' <=> Leading(q)
  <2>1. ASSUME NEW q \in GrokProcs PROVE Leading(q)' <=> Leading(q)
    <3>1. CASE Follows(q)
      BY <3>1 DEF Leading, Outside, Follows
    <3>2. CASE ~Follows(q)
      BY <3>2, IdleFields DEF Leaves, Leading
    <3> QED BY <3>1, <3>2
  <2> QED BY <2>1
<1>5. OneLeader'
  <2>1. ASSUME NEW q \in GrokProcs, gp'[q].pc = "wait" PROVE flight # NoAccount
    BY <1>1, <2>1 DEF GrokInv, OneLeader, Outside
  <2> QED BY <1>4, <2>1 DEF GrokInv, OneLeader
<1>6. OwnTokens'
  <2>1. ASSUME NEW o \in AccountObjs, NEW x \in AccountObjs, InUse(o)', InUse(x)', o # x
        PROVE  acct'[o].rt # acct'[x].rt
    BY <2>1 DEF GrokInv, OwnTokens
  <2>2. ASSUME NEW q \in GrokProcs, NEW o \in AccountObjs, gp'[q].pc \in {"call", "apply"},
               InUse(o)', o # gp'[q].obj
        PROVE  acct'[o].rt # gp'[q].tok
    <3>1. gp'[q] = gp[q]
      BY <1>1, <2>2 DEF Outside
    <3> QED BY <2>2, <3>1 DEF GrokInv, OwnTokens
  <2> QED BY <2>1, <2>2 DEF OwnTokens
<1>7. SnapshotFresh'
  <2>1. ASSUME NEW q \in GrokProcs, gp'[q].pc = "save", gp'[q].fresh
        PROVE  gp'[q].dto = acct'[gp'[q].obj]
    <3>1. gp'[q] = gp[q]
      BY <1>1, <2>1 DEF Outside
    <3>2. PICK o \in AccountObjs : o = gp'[q].obj
      BY <1>2, <2>1 DEF GrokTypes
    <3>3. InUse(o)' /\ acct'[o] = acct[o]
      BY <3>2 DEF InUse
    <3> QED BY <2>1, <3>1, <3>2, <3>3 DEF GrokInv, SnapshotFresh
  <2> QED BY <2>1 DEF SnapshotFresh
<1>8. listed # NoAccount => listed \in AccountObjs /\ acct'[listed] = acct[listed]
  BY DEF GrokInv, GrokTypes, MaybeAccount, InUse
<1>10. JoinedSame'
  <2>1. ASSUME ~lost, NEW r \in GrokProcs, NEW q \in GrokProcs, gp'[q].pc = "wait", flight = r
        PROVE  gp'[q].obj = gp'[r].obj
    <3>1. gp'[q] = gp[q]
      BY <1>1, <2>1 DEF Outside
    <3>2. gp'[r] = gp[r]
      BY <1>1, <2>1 DEF GrokInv, OneLeader, Leading, Outside
    <3> QED BY <2>1, <3>1, <3>2 DEF GrokInv, JoinedSame
  <2> QED BY <2>1 DEF JoinedSame
<1>11. TokenAlive'
  <2> SUFFICES ASSUME ~lost, listed # NoAccount
               PROVE  /\ (\A q \in GrokProcs : ~(gp'[q].pc = "apply" /\ gp'[q].obj = listed))
                            => acct'[listed].rt \in live
                      /\ \A q \in GrokProcs : gp'[q].obj = listed =>
                           /\ gp'[q].pc = "call" => gp'[q].tok = acct'[listed].rt
                           /\ gp'[q].pc = "apply" => gp'[q].tok \in live
    BY DEF TokenAlive
  <2>1. ASSUME NEW q \in GrokProcs, gp[q].pc = "apply" \/ gp'[q].pc \in {"call", "apply"}
        PROVE  gp'[q] = gp[q]
    BY <1>1, <2>1 DEF Outside
  <2>2. /\ (\A q \in GrokProcs : ~(gp[q].pc = "apply" /\ gp[q].obj = listed))
             => acct[listed].rt \in live
        /\ \A q \in GrokProcs : gp[q].obj = listed =>
             /\ gp[q].pc = "call" => gp[q].tok = acct[listed].rt
             /\ gp[q].pc = "apply" => gp[q].tok \in live
    BY DEF GrokInv, TokenAlive
  <2> QED BY <1>8, <2>1, <2>2
<1>12. NoVerdict'
  <2>1. ASSUME NEW q \in GrokProcs, gp'[q].pc = "refreshed" PROVE gp'[q] = gp[q]
    BY <1>1, <2>1 DEF Outside
  <2> QED BY <1>8, <2>1 DEF GrokInv, NoVerdict
<1> QED BY <1>2, <1>3, <1>5, <1>6, <1>7, <1>10, <1>11, <1>12 DEF GrokInv

LEMMA QuietKeep ==
  ASSUME GrokInv, UNCHANGED <<listed, hash, flight, issued, live, lost, stale>>,
         acct' \in [AccountObjs -> AccountDTO],
         \A o \in AccountObjs : acct'[o].rt <= issued,
         \A o \in AccountObjs : InUse(o)' => InUse(o) /\ acct'[o] = acct[o],
         gp' \in [GrokProcs -> ProcRecord],
         \A q \in GrokProcs : Follows(q)
  PROVE  GrokInv'
<1>1. listed # NoAccount => listed \in AccountObjs /\ acct'[listed] = acct[listed]
  BY DEF GrokInv, GrokTypes, MaybeAccount, InUse
<1>2. GrokPersisted'
  <2>1. ASSUME \A q \in GrokProcs : gp'[q].pc \notin {"toDTO", "save"}
        PROVE  \A q \in GrokProcs : gp[q].pc \notin {"toDTO", "save"}
    BY <2>1 DEF Follows, Outside
  <2> QED BY <1>1, <2>1 DEF GrokInv, GrokPersisted
<1>3. /\ hash' \in AccountDTO \cup {NoHash} /\ hash'.rt <= issued
      /\ \A q \in GrokProcs : Leaves(q)
  BY DEF GrokInv, GrokTypes, TokensIssued, Leaves
<1> QED BY <1>2, <1>3, AsideKeep

-----------------------------------------------------------------------------
(* Steps that leave the session alone *)

LEMMA GoIdleFields ==
  ASSUME GrokTypes, TokensIssued, NEW p \in GrokProcs, GoIdle(p), UNCHANGED listed
  PROVE  /\ gp' \in [GrokProcs -> ProcRecord]
         /\ gp'[p] = IdleProc /\ \A q \in GrokProcs \ {p} : gp'[q] = gp[q]
         /\ acct' \in [AccountObjs -> AccountDTO]
         /\ \A o \in AccountObjs : acct'[o].rt <= issued
         /\ \A o \in AccountObjs : InUse(o)' => InUse(o) /\ acct'[o] = acct[o]
<1>1. /\ gp' \in [GrokProcs -> ProcRecord] /\ gp'[p] = IdleProc
      /\ \A q \in GrokProcs \ {p} : gp'[q] = gp[q]
  BY IdleFields DEF GoIdle, GrokTypes
<1>2. acct' = Collected(listed', gp')
  BY DEF GoIdle
<1>3. /\ acct' \in [AccountObjs -> AccountDTO]
      /\ \A o \in AccountObjs : acct'[o].rt <= issued
      /\ \A o \in AccountObjs : InUse(o)' => acct'[o] = acct[o]
  BY <1>2, CollectedKeeps
<1>4. ASSUME NEW o \in AccountObjs, InUse(o)' PROVE InUse(o)
  <2>1. CASE o = listed
    BY <2>1 DEF InUse
  <2>2. CASE o # listed
    <3>1. PICK q \in GrokProcs : gp'[q].obj = o
      BY <1>4, <2>2 DEF InUse
    <3>2. q # p
      BY <1>1, <3>1, IdleFields, NoAccountApart
    <3> QED BY <1>1, <3>1, <3>2 DEF InUse
  <2> QED BY <2>1, <2>2
<1> QED BY <1>1, <1>3, <1>4

LEMMA GoIdleKeeps ==
  ASSUME GrokInv, NEW p \in GrokProcs, GoIdle(p), gp[p].pc \in Outside \cup {"refreshed"},
         UNCHANGED <<listed, hash, flight, issued, live, lost, stale>>
  PROVE  GrokInv'
<1>1. /\ gp' \in [GrokProcs -> ProcRecord]
      /\ gp'[p] = IdleProc /\ \A q \in GrokProcs \ {p} : gp'[q] = gp[q]
      /\ acct' \in [AccountObjs -> AccountDTO]
      /\ \A o \in AccountObjs : acct'[o].rt <= issued
      /\ \A o \in AccountObjs : InUse(o)' => InUse(o) /\ acct'[o] = acct[o]
  BY GoIdleFields DEF GrokInv
<1>2. Follows(p)
  BY <1>1, IdleFields, AccountRecords DEF Follows, Outside, GrokInv, TokensIssued, GrokTypes
<1>3. \A q \in GrokProcs : Follows(q)
  BY <1>1, <1>2 DEF Follows
<1> QED BY <1>1, <1>3, QuietKeep

(* Goroutines whose record alone changes, and whose object was in use. *)
LEMMA MovesKeep ==
  ASSUME GrokInv, UNCHANGED <<acct, listed, hash, flight, issued, live, lost, stale>>,
         gp' \in [GrokProcs -> ProcRecord],
         \A q \in GrokProcs : Follows(q),
         \A q \in GrokProcs : gp'[q].obj \in {gp[q].obj, listed}
  PROVE  GrokInv'
<1>1. ASSUME NEW o \in AccountObjs, InUse(o)' PROVE InUse(o)
  BY <1>1 DEF InUse
<1>2. /\ acct' \in [AccountObjs -> AccountDTO] /\ \A o \in AccountObjs : acct'[o].rt <= issued
  BY DEF GrokInv, GrokTypes, TokensIssued
<1> QED BY <1>1, <1>2, QuietKeep

(* A goroutine that begins with the account listed. *)
LEMMA BeginFields ==
  ASSUME GrokInv, listed # NoAccount, NEW l \in {"attempt", "refresh"}
  PROVE  \E r \in ProcRecord :
           /\ r = [IdleProc EXCEPT !.pc = l, !.obj = listed]
           /\ r.pc = l /\ r.obj = listed /\ r.tok <= issued /\ r.dto.rt <= issued
           /\ listed \in AccountObjs
<1>1. listed \in AccountObjs /\ issued \in Nat
  BY DEF GrokInv, GrokTypes, MaybeAccount
<1>2. /\ [IdleProc EXCEPT !.pc = l, !.obj = listed] \in ProcRecord
      /\ [IdleProc EXCEPT !.pc = l, !.obj = listed].pc = l
      /\ [IdleProc EXCEPT !.pc = l, !.obj = listed].obj = listed
      /\ [IdleProc EXCEPT !.pc = l, !.obj = listed].tok = 0
      /\ [IdleProc EXCEPT !.pc = l, !.obj = listed].dto = NoHash
  BY <1>1 DEF IdleProc, ProcRecord, Stages, MaybeAccount, NoHash
<1>3. PICK r \in ProcRecord :
           /\ r = [IdleProc EXCEPT !.pc = l, !.obj = listed]
           /\ r.pc = l /\ r.obj = listed /\ r.tok = 0 /\ r.dto = NoHash
  BY <1>2
<1>4. r.tok <= issued /\ r.dto.rt <= issued
  BY <1>1, <1>3, AccountRecords
<1> QED BY <1>1, <1>3, <1>4

LEMMA BeginKeeps ==
  ASSUME GrokInv, listed # NoAccount, NEW p \in GrokProcs, gp[p].pc = "idle",
         gp' = [gp EXCEPT ![p] = [IdleProc EXCEPT !.pc = "refresh", !.obj = listed]],
         UNCHANGED <<acct, listed, hash, flight, issued, live, lost, stale>>
  PROVE  GrokInv'
<1>1. PICK r \in ProcRecord :
           /\ r = [IdleProc EXCEPT !.pc = "refresh", !.obj = listed]
           /\ r.pc = "refresh" /\ r.obj = listed /\ r.tok <= issued /\ r.dto.rt <= issued
           /\ listed \in AccountObjs
  BY BeginFields
<1>2. gp' = [gp EXCEPT ![p] = r]
  BY <1>1
<1>3. /\ gp' \in [GrokProcs -> ProcRecord] /\ gp'[p] = r
      /\ \A q \in GrokProcs \ {p} : gp'[q] = gp[q]
  BY <1>2 DEF GrokInv, GrokTypes
<1>4. ASSUME NEW q \in GrokProcs PROVE Follows(q) /\ gp'[q].obj \in {gp[q].obj, listed}
  BY <1>1, <1>3 DEF Follows, Outside
<1> QED BY <1>3, <1>4, MovesKeep

LEMMA NextAccountKeeps ==
  ASSUME GrokInv, NEW p \in GrokProcs, NextAccount(p)
  PROVE  GrokInv'
<1>1. PICK a \in ProcRecord :
           /\ a = [IdleProc EXCEPT !.pc = "attempt", !.obj = listed]
           /\ a.pc = "attempt" /\ a.obj = listed /\ a.tok <= issued /\ a.dto.rt <= issued
           /\ listed \in AccountObjs
  BY BeginFields DEF NextAccount
<1>2. PICK r \in ProcRecord :
           /\ r = [IdleProc EXCEPT !.pc = "refresh", !.obj = listed]
           /\ r.pc = "refresh" /\ r.obj = listed /\ r.tok <= issued /\ r.dto.rt <= issued
           /\ listed \in AccountObjs
  BY BeginFields DEF NextAccount
<1>3. PICK expiring \in BOOLEAN :
        /\ expiring => gp[AsyncRefresh].pc = "idle"
        /\ gp' = [q \in GrokProcs |-> IF q = p THEN a
                                      ELSE IF q = AsyncRefresh /\ expiring THEN r ELSE gp[q]]
  BY <1>1, <1>2 DEF NextAccount, At
<1>4. gp[p].pc = "idle" /\ UNCHANGED <<acct, listed, hash, flight, issued, live, lost, stale>>
  BY DEF NextAccount, MayStart
<1>5. ASSUME NEW q \in GrokProcs
      PROVE  \/ gp'[q] = gp[q]
             \/ gp[q].pc = "idle" /\ gp'[q] \in {a, r}
  BY <1>3, <1>4
<1>6. gp' \in [GrokProcs -> ProcRecord]
  BY <1>3 DEF GrokInv, GrokTypes
<1>7. ASSUME NEW q \in GrokProcs PROVE Follows(q) /\ gp'[q].obj \in {gp[q].obj, listed}
  BY <1>1, <1>2, <1>5 DEF Follows, Outside
<1> QED BY <1>4, <1>6, <1>7, MovesKeep

(* A goroutine that goes on outside of a refresh with the same object. *)
LEMMA StageFields ==
  ASSUME GrokTypes, NEW p \in GrokProcs, NEW l \in Stages
  PROVE  \E r \in ProcRecord :
           /\ r = [gp[p] EXCEPT !.pc = l]
           /\ r.pc = l /\ r.obj = gp[p].obj /\ r.tok = gp[p].tok /\ r.res = gp[p].res
           /\ r.dto = gp[p].dto /\ r.then = gp[p].then /\ r.fresh = gp[p].fresh
<1>1. PICK g \in ProcRecord : g = gp[p]
  BY DEF GrokTypes
<1>2. /\ [g EXCEPT !.pc = l] \in ProcRecord /\ [g EXCEPT !.pc = l].pc = l
      /\ [g EXCEPT !.pc = l].obj = g.obj /\ [g EXCEPT !.pc = l].tok = g.tok
      /\ [g EXCEPT !.pc = l].res = g.res /\ [g EXCEPT !.pc = l].dto = g.dto
      /\ [g EXCEPT !.pc = l].then = g.then /\ [g EXCEPT !.pc = l].fresh = g.fresh
  BY DEF ProcRecord
<1>3. PICK r \in ProcRecord :
           /\ r = [g EXCEPT !.pc = l]
           /\ r.pc = l /\ r.obj = g.obj /\ r.tok = g.tok /\ r.res = g.res
           /\ r.dto = g.dto /\ r.then = g.then /\ r.fresh = g.fresh
  BY <1>2
<1> QED BY <1>1, <1>3

LEMMA UnauthorizedKeeps ==
  ASSUME GrokInv, NEW p \in GrokProcs, Unauthorized(p)
  PROVE  GrokInv'
<1>1. PICK r \in ProcRecord :
           /\ r = [gp[p] EXCEPT !.pc = "refresh"]
           /\ r.pc = "refresh" /\ r.obj = gp[p].obj /\ r.tok = gp[p].tok /\ r.dto = gp[p].dto
  BY StageFields DEF GrokInv, Stages
<1>2. /\ gp[p].pc = "attempt" /\ gp' = [gp EXCEPT ![p] = r]
      /\ UNCHANGED <<acct, listed, hash, flight, issued, live, lost, stale>>
  BY <1>1 DEF Unauthorized, At, Go
<1>3. /\ gp' \in [GrokProcs -> ProcRecord] /\ gp'[p] = r
      /\ \A q \in GrokProcs \ {p} : gp'[q] = gp[q]
  BY <1>2 DEF GrokInv, GrokTypes
<1>4. ASSUME NEW q \in GrokProcs PROVE Follows(q) /\ gp'[q].obj \in {gp[q].obj, listed}
  BY <1>1, <1>2, <1>3 DEF Follows, Outside, GrokInv, GrokTypes, TokensIssued
<1> QED BY <1>2, <1>3, <1>4, MovesKeep

LEMMA RetryKeeps ==
  ASSUME GrokInv, NEW p \in GrokProcs, gp[p].pc = "refreshed",
         gp' = [gp EXCEPT ![p].pc = "retry", ![p].res = "none"],
         UNCHANGED <<acct, listed, hash, flight, issued, live, lost, stale>>
  PROVE  GrokInv'
<1>1. PICK g \in ProcRecord : g = gp[p]
  BY DEF GrokInv, GrokTypes
<1>2. /\ [g EXCEPT !.pc = "retry", !.res = "none"] \in ProcRecord
      /\ [g EXCEPT !.pc = "retry", !.res = "none"].pc = "retry"
      /\ [g EXCEPT !.pc = "retry", !.res = "none"].obj = g.obj
      /\ [g EXCEPT !.pc = "retry", !.res = "none"].tok = g.tok
      /\ [g EXCEPT !.pc = "retry", !.res = "none"].dto = g.dto
  BY DEF ProcRecord, Stages
<1>3. PICK r \in ProcRecord :
           /\ r = [g EXCEPT !.pc = "retry", !.res = "none"]
           /\ r.pc = "retry" /\ r.obj = g.obj /\ r.tok = g.tok /\ r.dto = g.dto
  BY <1>2
<1>4. gp' = [gp EXCEPT ![p] = r]
  BY <1>1, <1>3
<1>5. /\ gp' \in [GrokProcs -> ProcRecord] /\ gp'[p] = r
      /\ \A q \in GrokProcs \ {p} : gp'[q] = gp[q]
  BY <1>4 DEF GrokInv, GrokTypes
<1>6. ASSUME NEW q \in GrokProcs PROVE Follows(q) /\ gp'[q].obj \in {gp[q].obj, listed}
  BY <1>1, <1>3, <1>5 DEF Follows, Outside, GrokInv, GrokTypes, TokensIssued
<1> QED BY <1>5, <1>6, MovesKeep

-----------------------------------------------------------------------------
(* Changes of an account *)

SameButFresh(q) ==
  /\ gp'[q].pc = gp[q].pc /\ gp'[q].obj = gp[q].obj /\ gp'[q].tok = gp[q].tok
  /\ gp'[q].res = gp[q].res /\ gp'[q].dto = gp[q].dto /\ gp'[q].then = gp[q].then

LEMMA ChangeFields ==
  ASSUME GrokTypes, NEW p \in GrokProcs, NEW o \in AccountObjs, NEW new \in AccountDTO,
         NEW th \in {"idle", "release"}, Change(p, o, new, th)
  PROVE  /\ acct' \in [AccountObjs -> AccountDTO] /\ acct'[o] = new
         /\ \A x \in AccountObjs \ {o} : acct'[x] = acct[x]
         /\ gp' \in [GrokProcs -> ProcRecord]
         /\ gp'[p].pc = "toDTO" /\ gp'[p].obj = o /\ gp'[p].tok = 0 /\ gp'[p].then = th
         /\ gp'[p].dto = gp[p].dto
         /\ \A q \in GrokProcs \ {p} :
              /\ SameButFresh(q)
              /\ gp'[q].fresh => gp[q].fresh /\ ~(gp[q].pc = "save" /\ gp[q].obj = o)
<1>1. /\ acct' \in [AccountObjs -> AccountDTO] /\ acct'[o] = new
      /\ \A x \in AccountObjs \ {o} : acct'[x] = acct[x]
  BY DEF Change, GrokTypes
<1>2. PICK r \in ProcRecord :
        /\ r = [gp[p] EXCEPT !.pc = "toDTO", !.obj = o, !.tok = 0, !.res = "none", !.then = th]
        /\ r.pc = "toDTO" /\ r.obj = o /\ r.tok = 0 /\ r.then = th /\ r.dto = gp[p].dto
  <2>1. PICK g \in ProcRecord : g = gp[p]
    BY DEF GrokTypes
  <2> DEFINE n == [g EXCEPT !.pc = "toDTO", !.obj = o, !.tok = 0, !.res = "none", !.then = th]
  <2>2. n \in ProcRecord /\ n.pc = "toDTO" /\ n.obj = o /\ n.tok = 0 /\ n.then = th /\ n.dto = g.dto
    BY DEF ProcRecord, Stages, MaybeAccount
  <2> QED BY <2>1, <2>2
<1>3. ASSUME NEW q \in GrokProcs
      PROVE  gp'[q] = IF q = p THEN r
                      ELSE IF gp[q].pc = "save" /\ gp[q].obj = o
                           THEN [gp[q] EXCEPT !.fresh = FALSE] ELSE gp[q]
  BY <1>2, Zenon DEF Change, At
<1>4. ASSUME NEW q \in GrokProcs \ {p}
      PROVE  /\ gp'[q] \in ProcRecord /\ SameButFresh(q)
             /\ gp'[q].fresh => gp[q].fresh /\ ~(gp[q].pc = "save" /\ gp[q].obj = o)
  <2>1. PICK g \in ProcRecord : g = gp[q]
    BY DEF GrokTypes
  <2>2. CASE gp[q].pc = "save" /\ gp[q].obj = o
    <3>1. /\ [g EXCEPT !.fresh = FALSE] \in ProcRecord /\ [g EXCEPT !.fresh = FALSE].pc = g.pc
          /\ [g EXCEPT !.fresh = FALSE].obj = g.obj /\ [g EXCEPT !.fresh = FALSE].tok = g.tok
          /\ [g EXCEPT !.fresh = FALSE].res = g.res /\ [g EXCEPT !.fresh = FALSE].dto = g.dto
          /\ [g EXCEPT !.fresh = FALSE].then = g.then /\ ~[g EXCEPT !.fresh = FALSE].fresh
      BY DEF ProcRecord
    <3>2. gp'[q] = [g EXCEPT !.fresh = FALSE]
      BY <1>3, <1>4, <2>1, <2>2
    <3> QED BY <2>1, <3>1, <3>2 DEF SameButFresh
  <2>3. CASE ~(gp[q].pc = "save" /\ gp[q].obj = o)
    <3>1. gp'[q] = gp[q]
      BY <1>3, <1>4, <2>3
    <3> QED BY <2>1, <2>3, <3>1 DEF SameButFresh
  <2> QED BY <2>2, <2>3
<1>5. gp'[p] = r
  BY <1>3
<1>6. gp' = [q \in GrokProcs |-> gp'[q]]
  BY DEF Change
<1>7. \A q \in GrokProcs : gp'[q] \in ProcRecord
  BY <1>4, <1>5
<1>8. gp' \in [GrokProcs -> ProcRecord]
  BY <1>6, <1>7
<1> QED BY <1>1, <1>2, <1>4, <1>5, <1>8

(* Whatever is changed, a save is under way then, and older snapshots of   *)
(* the object are marked.                                                  *)
LEMMA ChangeCommon ==
  ASSUME GrokInv, NEW p \in GrokProcs, NEW o \in AccountObjs, NEW new \in AccountDTO,
         NEW th \in {"idle", "release"}, Change(p, o, new, th),
         listed' \in MaybeAccount, UNCHANGED <<hash, flight>>,
         issued' \in Nat, issued <= issued', new.rt <= issued', live' \subseteq Nat
  PROVE  GrokTypes' /\ TokensIssued' /\ SnapshotFresh' /\ GrokPersisted'
<1>1. /\ acct' \in [AccountObjs -> AccountDTO] /\ acct'[o] = new
      /\ \A x \in AccountObjs \ {o} : acct'[x] = acct[x]
      /\ gp' \in [GrokProcs -> ProcRecord]
      /\ gp'[p].pc = "toDTO" /\ gp'[p].obj = o /\ gp'[p].tok = 0
      /\ gp'[p].dto = gp[p].dto
      /\ \A q \in GrokProcs \ {p} :
           /\ SameButFresh(q)
           /\ gp'[q].fresh => gp[q].fresh /\ ~(gp[q].pc = "save" /\ gp[q].obj = o)
  BY ChangeFields DEF GrokInv
<1>2. GrokTypes'
  BY <1>1 DEF GrokInv, GrokTypes, SameButFresh
<1>3. TokensIssued'
  <2>1. PICK i \in Nat, j \in Nat : i = issued /\ j = issued' /\ i <= j /\ 1 <= i
    BY DEF GrokInv, GrokTypes, TokensIssued
  <2>2. ASSUME NEW t \in Nat, t <= i PROVE t <= j
    BY <2>1, <2>2
  <2>3. hash.rt <= j
    BY <2>1, <2>2, AccountRecords DEF GrokInv, GrokTypes, TokensIssued
  <2>4. ASSUME NEW x \in AccountObjs PROVE acct'[x].rt <= j
    BY <1>1, <2>1, <2>2, AccountRecords DEF GrokInv, GrokTypes, TokensIssued
  <2>5. ASSUME NEW q \in GrokProcs PROVE gp'[q].tok <= j /\ gp'[q].dto.rt <= j
    <3>1. gp[q].tok <= i /\ gp[q].dto.rt <= i /\ gp[q].tok \in Nat /\ gp[q].dto.rt \in Nat
      BY <2>1, ProcFields, AccountRecords DEF GrokInv, GrokTypes, TokensIssued
    <3>2. gp'[q].tok \in {0, gp[q].tok} /\ gp'[q].dto = gp[q].dto
      BY <1>1 DEF SameButFresh
    <3> QED BY <2>2, <3>1, <3>2
  <2>6. 1 <= j
    BY <2>1
  <2> QED BY <2>1, <2>3, <2>4, <2>5, <2>6 DEF TokensIssued
<1>4. SnapshotFresh'
  <2>1. ASSUME NEW q \in GrokProcs, gp'[q].pc = "save", gp'[q].fresh
        PROVE  gp'[q].dto = acct'[gp'[q].obj]
    <3>1. /\ q # p /\ gp[q].pc = "save" /\ gp[q].fresh /\ gp[q].obj # o
          /\ gp'[q].dto = gp[q].dto /\ gp'[q].obj = gp[q].obj
      BY <1>1, <2>1 DEF SameButFresh
    <3>2. gp[q].obj \in AccountObjs
      BY <3>1 DEF GrokInv, GrokTypes
    <3> QED BY <1>1, <3>1, <3>2 DEF GrokInv, SnapshotFresh
  <2> QED BY <2>1 DEF SnapshotFresh
<1>5. GrokPersisted'
  BY <1>1 DEF GrokPersisted
<1> QED BY <1>2, <1>3, <1>4, <1>5

(* A change of the status alone, by a goroutine that leads no refresh. *)
LEMMA StatusKeeps ==
  ASSUME GrokInv, NEW p \in GrokProcs, NEW o \in AccountObjs, InUse(o), NEW new \in AccountDTO,
         Change(p, o, new, "idle"), ~Leading(p), new.rt = acct[o].rt,
         new.status = "revoked" => (o = listed => lost),
         UNCHANGED <<listed, hash, flight, issued, live, lost>>
  PROVE  GrokInv'
<1>1. /\ acct' \in [AccountObjs -> AccountDTO] /\ acct'[o] = new
      /\ \A x \in AccountObjs \ {o} : acct'[x] = acct[x]
      /\ gp'[p].pc = "toDTO" /\ gp'[p].obj = o /\ gp'[p].then = "idle"
      /\ \A q \in GrokProcs \ {p} : SameButFresh(q)
  BY ChangeFields DEF GrokInv
<1>2. GrokTypes' /\ TokensIssued' /\ SnapshotFresh' /\ GrokPersisted'
  <2>1. /\ listed' \in MaybeAccount /\ issued' \in Nat /\ issued <= issued' /\ live' \subseteq Nat
        /\ new.rt <= issued'
    BY DEF GrokInv, GrokTypes, TokensIssued
  <2> QED BY <2>1, ChangeCommon
<1>3. \A x \in AccountObjs : acct'[x].rt = acct[x].rt
  BY <1>1
<1>4. \A q \in GrokProcs : Leading(q)' <=> Leading(q)
  <2>1. ~Leading(p)'
    BY <1>1 DEF Leading
  <2>2. ASSUME NEW q \in GrokProcs \ {p} PROVE Leading(q)' <=> Leading(q)
    BY <1>1 DEF Leading, SameButFresh
  <2> QED BY <2>1, <2>2
<1>5. ASSUME NEW q \in GrokProcs, gp'[q].pc \in {"wait", "call", "apply", "refreshed"}
      PROVE  q # p /\ SameButFresh(q)
  BY <1>1, <1>5
<1>6. OneLeader'
  BY <1>4, <1>5 DEF GrokInv, OneLeader, SameButFresh
<1>7. ASSUME NEW x \in AccountObjs, InUse(x)' PROVE InUse(x)
  <2>1. CASE x = listed
    BY <2>1 DEF InUse
  <2>2. CASE x # listed
    <3>1. PICK q \in GrokProcs : gp'[q].obj = x
      BY <1>7, <2>2 DEF InUse
    <3>2. CASE q = p
      BY <1>1, <3>1, <3>2
    <3>3. CASE q # p
      BY <1>1, <3>1, <3>3 DEF InUse, SameButFresh
    <3> QED BY <3>2, <3>3
  <2> QED BY <2>1, <2>2
<1>8. OwnTokens'
  <2>1. ASSUME NEW y \in AccountObjs, NEW x \in AccountObjs, InUse(y)', InUse(x)', y # x
        PROVE  acct'[y].rt # acct'[x].rt
    BY <1>3, <1>7, <2>1 DEF GrokInv, OwnTokens
  <2>2. ASSUME NEW q \in GrokProcs, NEW y \in AccountObjs, gp'[q].pc \in {"call", "apply"},
               InUse(y)', y # gp'[q].obj
        PROVE  acct'[y].rt # gp'[q].tok
    BY <1>3, <1>5, <1>7, <2>2 DEF GrokInv, OwnTokens, SameButFresh
  <2> QED BY <2>1, <2>2 DEF OwnTokens
<1>9. JoinedSame'
  <2>1. ASSUME ~lost, NEW r \in GrokProcs, NEW q \in GrokProcs, gp'[q].pc = "wait", flight = r
        PROVE  gp'[q].obj = gp'[r].obj
    <3>1. r # p /\ q # p
      BY <1>5, <2>1 DEF GrokInv, OneLeader
    <3> QED BY <1>1, <2>1, <3>1 DEF GrokInv, JoinedSame, SameButFresh
  <2> QED BY <2>1 DEF JoinedSame
<1>10. listed # NoAccount => listed \in AccountObjs
  BY DEF GrokInv, GrokTypes, MaybeAccount
<1>11. TokenAlive'
  <2> SUFFICES ASSUME ~lost, listed # NoAccount
               PROVE  /\ (\A q \in GrokProcs : ~(gp'[q].pc = "apply" /\ gp'[q].obj = listed))
                            => acct'[listed].rt \in live
                      /\ \A q \in GrokProcs : gp'[q].obj = listed =>
                           /\ gp'[q].pc = "call" => gp'[q].tok = acct'[listed].rt
                           /\ gp'[q].pc = "apply" => gp'[q].tok \in live
    BY DEF TokenAlive
  <2>1. /\ (\A q \in GrokProcs : ~(gp[q].pc = "apply" /\ gp[q].obj = listed))
             => acct[listed].rt \in live
        /\ \A q \in GrokProcs : gp[q].obj = listed =>
             /\ gp[q].pc = "call" => gp[q].tok = acct[listed].rt
             /\ gp[q].pc = "apply" => gp[q].tok \in live
    BY DEF GrokInv, TokenAlive
  <2>2. ASSUME NEW q \in GrokProcs, gp[q].pc = "apply" PROVE q # p /\ SameButFresh(q)
    BY <1>1, <2>2 DEF Leading
  <2>3. acct'[listed].rt = acct[listed].rt
    BY <1>3, <1>10
  <2> QED BY <1>5, <2>1, <2>2, <2>3 DEF SameButFresh
<1>12. NoVerdict'
  <2>1. ~lost /\ listed # NoAccount => acct'[listed].status # "revoked"
    BY <1>1, <1>10 DEF GrokInv, NoVerdict
  <2> QED BY <1>5, <2>1 DEF GrokInv, NoVerdict, SameButFresh
<1> QED BY <1>2, <1>6, <1>8, <1>9, <1>11, <1>12 DEF GrokInv

(* The record with another status. *)
LEMMA StatusRecord ==
  ASSUME GrokTypes, NEW o \in AccountObjs, NEW s \in AccountStatus
  PROVE  \E r \in AccountDTO : /\ r = [acct[o] EXCEPT !.status = s]
                               /\ r.status = s /\ r.rt = acct[o].rt
<1>1. PICK a \in AccountDTO : a = acct[o]
  BY DEF GrokTypes
<1>2. /\ [a EXCEPT !.status = s] \in AccountDTO /\ [a EXCEPT !.status = s].status = s
      /\ [a EXCEPT !.status = s].rt = a.rt
  BY DEF AccountDTO
<1>3. PICK r \in AccountDTO : r = [a EXCEPT !.status = s] /\ r.status = s /\ r.rt = a.rt
  BY <1>2
<1> QED BY <1>1, <1>3

LEMMA AttemptRefusedKeeps ==
  ASSUME GrokInv, NEW p \in GrokProcs, AttemptRefused(p)
  PROVE  GrokInv'
<1>1. PICK s \in {"banned", "cooldown"} :
        Change(p, gp[p].obj, [acct[gp[p].obj] EXCEPT !.status = s], "idle")
  BY DEF AttemptRefused
<1>2. /\ gp[p].pc \in {"attempt", "retry"} /\ s \in AccountStatus /\ s # "revoked"
      /\ UNCHANGED <<listed, hash, flight, issued, live, lost>>
  BY DEF AttemptRefused, At, AccountStatus
<1>3. PICK o \in AccountObjs : o = gp[p].obj
  BY <1>2 DEF GrokInv, GrokTypes
<1>4. PICK r \in AccountDTO : /\ r = [acct[o] EXCEPT !.status = s]
                              /\ r.status = s /\ r.rt = acct[o].rt
  BY <1>2, StatusRecord DEF GrokInv
<1>5. InUse(o) /\ ~Leading(p) /\ Change(p, o, r, "idle")
  BY <1>1, <1>2, <1>3, <1>4 DEF InUse, Leading
<1> QED BY <1>2, <1>4, <1>5, StatusKeeps

LEMMA ReenableGrokKeeps ==
  ASSUME GrokInv, NEW p \in GrokProcs, ReenableGrok(p)
  PROVE  GrokInv'
<1>1. PICK o \in AccountObjs : o = listed
  BY DEF ReenableGrok, GrokInv, GrokTypes, MaybeAccount
<1>2. PICK r \in AccountDTO : /\ r = [acct[o] EXCEPT !.status = "enabled"]
                              /\ r.status = "enabled" /\ r.rt = acct[o].rt
  BY StatusRecord DEF GrokInv, AccountStatus
<1>3. /\ InUse(o) /\ ~Leading(p) /\ Change(p, o, r, "idle")
      /\ UNCHANGED <<listed, hash, flight, issued, live, lost>>
  BY <1>1, <1>2 DEF InUse, Leading, ReenableGrok, MayStart
<1> QED BY <1>2, <1>3, StatusKeeps

(* Only a verdict on the token of the listed account, or of an object that *)
(* left the pool, comes here.                                              *)
LEMMA RefreshedKeeps ==
  ASSUME GrokInv, NEW p \in GrokProcs, Refreshed(p)
  PROVE  GrokInv'
<1>1. /\ gp[p].pc = "refreshed"
      /\ UNCHANGED <<listed, hash, flight, issued, live, lost, stale>>
  BY DEF Refreshed, At
<1>2. CASE RevokedBy(p)
  <2>1. PICK o \in AccountObjs : o = gp[p].obj
    BY <1>1 DEF GrokInv, GrokTypes
  <2>2. PICK r \in AccountDTO : /\ r = [acct[o] EXCEPT !.status = "revoked"]
                                /\ r.status = "revoked" /\ r.rt = acct[o].rt
    BY StatusRecord DEF GrokInv, AccountStatus
  <2>3. InUse(o) /\ ~Leading(p) /\ Change(p, o, r, "idle")
    BY <1>1, <1>2, <2>1, <2>2 DEF InUse, Leading, Refreshed
  <2>4. o = listed => lost
    BY <1>1, <1>2, <2>1, NoAccountApart DEF RevokedBy, GrokInv, NoVerdict
  <2> QED BY <1>1, <2>2, <2>3, <2>4, StatusKeeps
<1>3. CASE ~RevokedBy(p) /\ gp[p].res = "ok" /\ p \in GrokHandlers
  BY <1>1, <1>3, RetryKeeps DEF Refreshed
<1>4. CASE ~RevokedBy(p) /\ ~(gp[p].res = "ok" /\ p \in GrokHandlers)
  <2>1. GoIdle(p)
    BY <1>4 DEF Refreshed
  <2> QED BY <1>1, <2>1, GoIdleKeeps
<1> QED BY <1>2, <1>3, <1>4

-----------------------------------------------------------------------------
(* Saves and refreshes *)

LEMMA toDTOKeeps ==
  ASSUME GrokInv, NEW p \in GrokProcs, toDTO(p)
  PROVE  GrokInv'
<1>1. /\ gp[p].pc = "toDTO" /\ UNCHANGED <<acct, listed, hash, flight, issued, live, lost, stale>>
      /\ gp' = [gp EXCEPT ![p].dto = acct[gp[p].obj], ![p].pc = "save", ![p].fresh = TRUE]
  BY DEF toDTO, At
<1>2. PICK g \in ProcRecord, d \in AccountDTO : g = gp[p] /\ d = acct[gp[p].obj] /\ d.rt <= issued
  BY <1>1 DEF GrokInv, GrokTypes, TokensIssued
<1>3. PICK r \in ProcRecord :
        /\ r = [g EXCEPT !.dto = d, !.pc = "save", !.fresh = TRUE]
        /\ r.pc = "save" /\ r.obj = g.obj /\ r.tok = g.tok /\ r.dto = d /\ r.then = g.then
  <2> DEFINE n == [g EXCEPT !.dto = d, !.pc = "save", !.fresh = TRUE]
  <2>1. n \in ProcRecord /\ n.pc = "save" /\ n.obj = g.obj /\ n.tok = g.tok /\ n.dto = d
        /\ n.then = g.then
    BY DEF ProcRecord, Stages
  <2> QED BY <2>1
<1>4. gp' = [gp EXCEPT ![p] = r]
  BY <1>1, <1>2, <1>3
<1>5. /\ gp' \in [GrokProcs -> ProcRecord] /\ gp'[p] = r
      /\ \A q \in GrokProcs \ {p} : gp'[q] = gp[q]
  BY <1>4 DEF GrokInv, GrokTypes
<1>6. \A q \in GrokProcs : gp'[q].obj = gp[q].obj /\ gp'[q].tok = gp[q].tok
  BY <1>2, <1>3, <1>5
<1>7. GrokTypes' /\ TokensIssued'
  <2>1. GrokTypes'
    BY <1>1, <1>5 DEF GrokInv, GrokTypes
  <2>2. TokensIssued'
    BY <1>1, <1>2, <1>3, <1>5 DEF GrokInv, TokensIssued
  <2> QED BY <2>1, <2>2
<1>8. \A q \in GrokProcs : Leading(q)' <=> Leading(q)
  BY <1>1, <1>2, <1>3, <1>5 DEF Leading
<1>9. ASSUME NEW q \in GrokProcs,
             \/ gp[q].pc \in {"wait", "call", "apply", "refreshed"}
             \/ gp'[q].pc \in {"wait", "call", "apply", "refreshed"}
      PROVE  gp'[q] = gp[q]
  BY <1>1, <1>3, <1>5, <1>9
<1>10. \A o \in AccountObjs : InUse(o)' <=> InUse(o)
  BY <1>1, <1>6 DEF InUse
<1>11. OneLeader'
  BY <1>1, <1>8, <1>9 DEF GrokInv, OneLeader
<1>12. OwnTokens'
  <2>1. ASSUME NEW y \in AccountObjs, NEW x \in AccountObjs, InUse(y)', InUse(x)', y # x
        PROVE  acct'[y].rt # acct'[x].rt
    BY <1>1, <1>10, <2>1 DEF GrokInv, OwnTokens
  <2>2. ASSUME NEW q \in GrokProcs, NEW y \in AccountObjs, gp'[q].pc \in {"call", "apply"},
               InUse(y)', y # gp'[q].obj
        PROVE  acct'[y].rt # gp'[q].tok
    <3>1. gp'[q] = gp[q] /\ acct' = acct
      BY <1>1, <1>9, <2>2
    <3> QED BY <1>10, <2>2, <3>1 DEF GrokInv, OwnTokens
  <2> QED BY <2>1, <2>2 DEF OwnTokens
<1>13. SnapshotFresh'
  BY <1>1, <1>2, <1>3, <1>5 DEF GrokInv, SnapshotFresh
<1>14. GrokPersisted'
  BY <1>3, <1>5 DEF GrokPersisted
<1>15. JoinedSame'
  <2>1. ASSUME ~lost, NEW w \in GrokProcs, NEW q \in GrokProcs, gp'[q].pc = "wait", flight = w
        PROVE  gp'[q].obj = gp'[w].obj
    BY <1>6, <1>9, <2>1 DEF GrokInv, JoinedSame
  <2> QED BY <1>1, <2>1 DEF JoinedSame
<1>16. TokenAlive'
  <2> SUFFICES ASSUME ~lost, listed # NoAccount
               PROVE  /\ (\A q \in GrokProcs : ~(gp'[q].pc = "apply" /\ gp'[q].obj = listed))
                            => acct[listed].rt \in live
                      /\ \A q \in GrokProcs : gp'[q].obj = listed =>
                           /\ gp'[q].pc = "call" => gp'[q].tok = acct[listed].rt
                           /\ gp'[q].pc = "apply" => gp'[q].tok \in live
    BY <1>1 DEF TokenAlive
  <2>1. /\ (\A q \in GrokProcs : ~(gp[q].pc = "apply" /\ gp[q].obj = listed))
             => acct[listed].rt \in live
        /\ \A q \in GrokProcs : gp[q].obj = listed =>
             /\ gp[q].pc = "call" => gp[q].tok = acct[listed].rt
             /\ gp[q].pc = "apply" => gp[q].tok \in live
    BY DEF GrokInv, TokenAlive
  <2> QED BY <1>9, <2>1
<1>17. NoVerdict'
  BY <1>1, <1>9 DEF GrokInv, NoVerdict
<1> QED BY <1>7, <1>11, <1>12, <1>13, <1>14, <1>15, <1>16, <1>17 DEF GrokInv

(* The leader and all who wait are done. *)
LEMMA ReleaseFields ==
  ASSUME GrokTypes, NEW p \in GrokProcs, gp[p].pc # "idle",
         NEW res \in {"ok", "error", "invalid_grant"}, Release(p, res)
  PROVE  /\ flight' = NoAccount /\ gp' \in [GrokProcs -> ProcRecord]
         /\ \A q \in GrokProcs :
              IF q = p \/ gp[q].pc = "wait"
              THEN /\ gp'[q].pc = "refreshed" /\ gp'[q].obj = gp[q].obj /\ gp'[q].tok = 0
                   /\ gp'[q].res = res /\ gp'[q].dto = NoHash
              ELSE gp'[q] = gp[q]
<1>1. ASSUME NEW q \in GrokProcs
      PROVE  gp'[q] = IF q = p \/ gp[q].pc = "wait"
                      THEN [IdleProc EXCEPT !.pc = "refreshed", !.obj = gp[q].obj, !.res = res]
                      ELSE gp[q]
  BY Zenon DEF Release, At
<1>2. ASSUME NEW q \in GrokProcs
      PROVE  /\ gp'[q] \in ProcRecord
             /\ IF q = p \/ gp[q].pc = "wait"
                THEN /\ gp'[q].pc = "refreshed" /\ gp'[q].obj = gp[q].obj /\ gp'[q].tok = 0
                     /\ gp'[q].res = res /\ gp'[q].dto = NoHash
                ELSE gp'[q] = gp[q]
  <2>1. CASE q = p \/ gp[q].pc = "wait"
    <3>1. PICK o \in MaybeAccount : o = gp[q].obj
      BY ProcFields DEF GrokTypes
    <3> DEFINE n == [IdleProc EXCEPT !.pc = "refreshed", !.obj = o, !.res = res]
    <3>2. n \in ProcRecord /\ n.pc = "refreshed" /\ n.obj = o /\ n.tok = 0 /\ n.res = res
          /\ n.dto = NoHash
      BY DEF IdleProc, ProcRecord, Stages, NoHash
    <3>3. gp'[q] = n
      BY <1>1, <2>1, <3>1
    <3> QED BY <2>1, <3>1, <3>2, <3>3
  <2>2. CASE ~(q = p \/ gp[q].pc = "wait")
    <3>1. gp'[q] = gp[q]
      BY <1>1, <2>2
    <3> QED BY <2>2, <3>1 DEF GrokTypes
  <2> QED BY <2>1, <2>2
<1>3. gp' = [q \in GrokProcs |-> gp'[q]] /\ flight' = NoAccount
  BY DEF Release
<1>4. gp' \in [GrokProcs -> ProcRecord]
  BY <1>2, <1>3
<1> QED BY <1>2, <1>3, <1>4

LEMMA ReleaseKeeps ==
  ASSUME GrokInv, NEW p \in GrokProcs, Leading(p), gp[p].pc # "apply",
         NEW res \in {"ok", "error", "invalid_grant"}, Release(p, res),
         UNCHANGED <<acct, listed>>, hash' \in AccountDTO \cup {NoHash},
         issued' \in Nat, issued <= issued', hash'.rt <= issued', live' \subseteq Nat,
         ~lost' => ~lost /\ live' = live,
         GrokPersisted',
         res = "invalid_grant" => gp[p].pc = "call" /\ gp[p].tok \notin live
  PROVE  GrokInv'
<1>1. gp[p].pc \notin {"idle", "wait", "refreshed"} /\ flight = p
  BY DEF GrokInv, OneLeader, Leading
<1>2. /\ flight' = NoAccount /\ gp' \in [GrokProcs -> ProcRecord]
      /\ \A q \in GrokProcs :
           IF q = p \/ gp[q].pc = "wait"
           THEN /\ gp'[q].pc = "refreshed" /\ gp'[q].obj = gp[q].obj /\ gp'[q].tok = 0
                /\ gp'[q].res = res /\ gp'[q].dto = NoHash
           ELSE gp'[q] = gp[q]
  BY <1>1, ReleaseFields DEF GrokInv
<1>3. \A q \in GrokProcs : gp'[q].obj = gp[q].obj
  BY <1>2
<1>4. GrokTypes'
  <2>1. ASSUME NEW q \in GrokProcs, gp'[q].pc # "idle" PROVE gp'[q].obj \in AccountObjs
    <3>1. gp[q].pc # "idle"
      BY <1>1, <1>2, <2>1
    <3> QED BY <1>3, <3>1 DEF GrokInv, GrokTypes
  <2>2. flight' \in GrokProcs \cup {NoAccount}
    BY <1>2
  <2> QED BY <1>2, <2>1, <2>2 DEF GrokInv, GrokTypes
<1>5. TokensIssued'
  <2>1. PICK i \in Nat, j \in Nat : i = issued /\ j = issued' /\ i <= j /\ 1 <= i
    BY DEF GrokInv, GrokTypes, TokensIssued
  <2>2. ASSUME NEW t \in Nat, t <= i PROVE t <= j
    BY <2>1, <2>2
  <2>3. ASSUME NEW x \in AccountObjs PROVE acct'[x].rt <= j
    BY <2>1, <2>2, AccountRecords DEF GrokInv, GrokTypes, TokensIssued
  <2>4. ASSUME NEW q \in GrokProcs PROVE gp'[q].tok <= j /\ gp'[q].dto.rt <= j
    <3>1. gp[q].tok <= i /\ gp[q].dto.rt <= i /\ gp[q].tok \in Nat /\ gp[q].dto.rt \in Nat
      BY <2>1, ProcFields, AccountRecords DEF GrokInv, GrokTypes, TokensIssued
    <3>2. gp'[q].tok \in {0, gp[q].tok} /\ gp'[q].dto.rt \in {0, gp[q].dto.rt}
      BY <1>2, AccountRecords
    <3> QED BY <2>2, <3>1, <3>2
  <2>5. 1 <= j
    BY <2>1
  <2> QED BY <2>1, <2>3, <2>4, <2>5 DEF TokensIssued
<1>6. \A q \in GrokProcs : ~Leading(q)' /\ gp'[q].pc # "wait"
  <2>1. ASSUME NEW q \in GrokProcs, q # p, gp[q].pc # "wait" PROVE ~Leading(q)' /\ gp'[q].pc # "wait"
    <3>1. ~Leading(q) /\ gp'[q] = gp[q]
      BY <1>1, <1>2, <2>1 DEF GrokInv, OneLeader
    <3> QED BY <2>1, <3>1 DEF Leading
  <2>2. ASSUME NEW q \in GrokProcs, q = p \/ gp[q].pc = "wait" PROVE ~Leading(q)' /\ gp'[q].pc # "wait"
    <3>1. gp'[q].pc = "refreshed"
      BY <1>2, <2>2
    <3> QED BY <3>1 DEF Leading
  <2> QED BY <2>1, <2>2
<1>7. \A q \in GrokProcs : gp'[q].pc \notin {"call", "apply", "wait"}
  BY <1>6 DEF Leading
<1>8. OneLeader'
  BY <1>2, <1>6, NoAccountApart DEF OneLeader
<1>9. \A o : InUse(o)' <=> InUse(o)
  BY <1>3 DEF InUse
<1>10. OwnTokens'
  BY <1>7, <1>9 DEF GrokInv, OwnTokens
<1>11. SnapshotFresh'
  BY <1>2 DEF GrokInv, SnapshotFresh
<1>12. JoinedSame'
  BY <1>7 DEF JoinedSame
<1>13. ~lost /\ listed # NoAccount => acct[listed].rt \in live
  <2>1. \A q \in GrokProcs : gp[q].pc # "apply"
    BY <1>1 DEF GrokInv, OneLeader, Leading
  <2> QED BY <2>1 DEF GrokInv, TokenAlive
<1>14. TokenAlive'
  BY <1>7, <1>13 DEF TokenAlive
<1>15. ASSUME ~lost, listed # NoAccount, res = "invalid_grant" PROVE gp[p].obj # listed
  BY <1>13, <1>15 DEF GrokInv, TokenAlive
<1>16. NoVerdict'
  <2>1. ASSUME ~lost', listed # NoAccount, NEW q \in GrokProcs, gp'[q].pc = "refreshed",
               gp'[q].res = "invalid_grant"
        PROVE  gp'[q].obj # listed
    <3>1. CASE q = p \/ gp[q].pc = "wait"
      <4>1. gp[q].obj = gp[p].obj /\ res = "invalid_grant"
        BY <1>1, <1>2, <2>1, <3>1 DEF GrokInv, JoinedSame
      <4> QED BY <1>3, <1>15, <2>1, <4>1
    <3>2. CASE ~(q = p \/ gp[q].pc = "wait")
      BY <1>2, <2>1, <3>2 DEF GrokInv, NoVerdict
    <3> QED BY <3>1, <3>2
  <2> QED BY <2>1 DEF GrokInv, NoVerdict
<1> QED BY <1>4, <1>5, <1>8, <1>10, <1>11, <1>12, <1>14, <1>16 DEF GrokInv


(* The goroutine goes on after its write, whatever became of it.            *)
LEMMA SaveEnds ==
  ASSUME GrokInv, NEW p \in GrokProcs, gp[p].pc = "save", AfterSave(p),
         UNCHANGED <<listed, issued, live, lost>>,
         hash' \in AccountDTO \cup {NoHash}, hash'.rt <= issued,
         (listed # NoAccount => acct'[listed] = acct[listed]) => GrokPersisted'
  PROVE  GrokInv'
<1>1. CASE gp[p].then = "release"
  <2>1. Release(p, "ok") /\ UNCHANGED acct
    BY <1>1 DEF AfterSave
  <2>2. GrokPersisted'
    BY <2>1
  <2>3. Leading(p) /\ gp[p].pc # "apply"
    BY <1>1 DEF Leading
  <2>4. /\ issued' \in Nat /\ issued <= issued' /\ hash'.rt <= issued' /\ live' \subseteq Nat
        /\ ~lost' => ~lost /\ live' = live
    BY DEF GrokInv, GrokTypes
  <2> QED BY <2>1, <2>2, <2>3, <2>4, ReleaseKeeps
<1>2. CASE gp[p].then # "release"
  <2>1. GoIdle(p) /\ UNCHANGED flight /\ gp[p].then = "idle"
    BY <1>2, ProcFields DEF AfterSave, GrokInv, GrokTypes
  <2>2. /\ gp' \in [GrokProcs -> ProcRecord]
        /\ gp'[p] = IdleProc /\ \A q \in GrokProcs \ {p} : gp'[q] = gp[q]
        /\ acct' \in [AccountObjs -> AccountDTO]
        /\ \A o \in AccountObjs : acct'[o].rt <= issued
        /\ \A o \in AccountObjs : InUse(o)' => InUse(o) /\ acct'[o] = acct[o]
    BY <2>1, GoIdleFields DEF GrokInv
  <2>3. listed # NoAccount => acct'[listed] = acct[listed]
    BY <2>2 DEF GrokInv, GrokTypes, MaybeAccount, InUse
  <2>4. ASSUME NEW q \in GrokProcs PROVE Leaves(q)
    BY <2>1, <2>2 DEF Leaves, Follows
  <2> QED BY <2>1, <2>2, <2>3, <2>4, AsideKeep
<1> QED BY <1>1, <1>2

LEMMA saveGrokAccountKeeps ==
  ASSUME GrokInv, NEW p \in GrokProcs, saveGrokAccount(p)
  PROVE  GrokInv'
<1>1. gp[p].pc = "save" /\ hash' = gp[p].dto /\ UNCHANGED <<listed, issued, live, lost>>
  BY DEF saveGrokAccount, At
<1>2. hash' \in AccountDTO \cup {NoHash} /\ hash'.rt <= issued
  BY <1>1, ProcFields DEF GrokInv, GrokTypes, TokensIssued
<1>3. ASSUME ~stale' PROVE gp[p].fresh /\ gp[p].obj = listed
  BY <1>3, Zenon DEF saveGrokAccount
<1>4. (listed # NoAccount => acct'[listed] = acct[listed]) => GrokPersisted'
  <2>1. ASSUME ~stale' PROVE hash' = acct[listed] /\ listed # NoAccount
    BY <1>1, <1>3, <2>1, NoAccountApart DEF GrokInv, GrokTypes, SnapshotFresh
  <2> QED BY <1>1, <2>1 DEF GrokPersisted
<1> QED BY <1>1, <1>2, <1>4, SaveEnds DEF saveGrokAccount

(* A save that failed leaves the hash as it was, and stale records it.      *)
LEMMA SaveGrokAccountFailsKeeps ==
  ASSUME GrokInv, NEW p \in GrokProcs, SaveGrokAccountFails(p)
  PROVE  GrokInv'
<1>1. /\ gp[p].pc = "save" /\ stale' /\ AfterSave(p)
      /\ UNCHANGED <<listed, hash, issued, live, lost>>
  BY DEF SaveGrokAccountFails, At
<1>2. hash' \in AccountDTO \cup {NoHash} /\ hash'.rt <= issued
  BY <1>1 DEF GrokInv, GrokTypes, TokensIssued
<1>3. GrokPersisted'
  BY <1>1 DEF GrokPersisted
<1> QED BY <1>1, <1>2, <1>3, SaveEnds

(* A goroutine leads only if nobody does, with the token of its object; one *)
(* that joins the leader of another object is what lost records.            *)
LEMMA RefreshKeeps ==
  ASSUME GrokInv, NEW p \in GrokProcs, Refresh(p)
  PROVE  GrokInv'
<1>1. gp[p].pc = "refresh" /\ UNCHANGED <<acct, listed, hash, issued, live, stale>>
  BY DEF Refresh, At
<1>2. ASSUME ~lost' PROVE ~lost /\ (flight # NoAccount => gp[flight].obj = gp[p].obj)
  BY <1>2, Zenon DEF Refresh
<1>3. PICK o \in AccountObjs, t \in Nat : o = gp[p].obj /\ t = acct[o].rt /\ t <= issued
  BY <1>1, AccountRecords DEF GrokInv, GrokTypes, TokensIssued
<1>4. PICK r \in ProcRecord :
        /\ gp' = [gp EXCEPT ![p] = r]
        /\ r.obj = o /\ r.dto = gp[p].dto /\ r.tok <= issued
        /\ \/ flight = NoAccount /\ r.pc = "call" /\ r.tok = t /\ flight' = p
           \/ flight # NoAccount /\ r.pc = "wait" /\ flight' = flight
  <2>1. CASE flight = NoAccount
    <3>1. PICK g \in ProcRecord : g = gp[p]
      BY DEF GrokInv, GrokTypes
    <3> DEFINE n == [g EXCEPT !.pc = "call", !.tok = t]
    <3>2. n \in ProcRecord /\ n.obj = g.obj /\ n.dto = g.dto /\ n.pc = "call" /\ n.tok = t
      BY DEF ProcRecord, Stages
    <3>3. gp' = [gp EXCEPT ![p] = n] /\ flight' = p
      BY <1>3, <2>1, <3>1 DEF Refresh
    <3> QED BY <1>3, <2>1, <3>1, <3>2, <3>3
  <2>2. CASE flight # NoAccount
    <3>1. PICK r \in ProcRecord :
            /\ r = [gp[p] EXCEPT !.pc = "wait"]
            /\ r.pc = "wait" /\ r.obj = gp[p].obj /\ r.tok = gp[p].tok /\ r.dto = gp[p].dto
      BY StageFields DEF GrokInv, Stages
    <3>2. gp' = [gp EXCEPT ![p] = r] /\ flight' = flight
      BY <2>2, <3>1 DEF Refresh, Go
    <3>3. r.tok <= issued
      BY <3>1 DEF GrokInv, TokensIssued
    <3> QED BY <1>3, <2>2, <3>1, <3>2, <3>3
  <2> QED BY <2>1, <2>2
<1>5. /\ gp' \in [GrokProcs -> ProcRecord] /\ gp'[p] = r
      /\ \A q \in GrokProcs \ {p} : gp'[q] = gp[q]
  BY <1>4 DEF GrokInv, GrokTypes
<1>6. \A q \in GrokProcs : gp'[q].obj = gp[q].obj
  BY <1>3, <1>4, <1>5
<1>7. \A x \in AccountObjs : InUse(x)' <=> InUse(x)
  BY <1>1, <1>6 DEF InUse
<1>8. GrokTypes'
  <2>1. flight' \in GrokProcs \cup {NoAccount}
    BY <1>4 DEF GrokInv, GrokTypes
  <2>2. ASSUME NEW q \in GrokProcs, gp'[q].pc # "idle" PROVE gp'[q].obj \in AccountObjs
    BY <1>3, <1>4, <1>5, <2>2 DEF GrokInv, GrokTypes
  <2> QED BY <1>1, <1>5, <2>1, <2>2 DEF GrokInv, GrokTypes
<1>9. TokensIssued'
  <2>1. ASSUME NEW q \in GrokProcs PROVE gp'[q].tok <= issued /\ gp'[q].dto.rt <= issued
    BY <1>4, <1>5 DEF GrokInv, TokensIssued
  <2> QED BY <1>1, <2>1 DEF GrokInv, TokensIssued
<1>10. ~Leading(p) /\ flight # p
  BY <1>1 DEF GrokInv, OneLeader, Leading
<1>11. ASSUME NEW q \in GrokProcs, q # p
       PROVE  /\ gp'[q] = gp[q] /\ (Leading(q)' <=> Leading(q))
              /\ flight = NoAccount => ~Leading(q) /\ gp[q].pc # "wait"
  BY <1>5, <1>11, NoAccountApart DEF GrokInv, OneLeader, Leading
<1>12. OneLeader'
  <2>1. CASE flight = NoAccount
    <3>1. Leading(p)' /\ flight' = p /\ gp'[p].pc # "wait"
      BY <1>4, <1>5, <2>1 DEF Leading
    <3>2. ASSUME NEW q \in GrokProcs, q # p PROVE ~Leading(q)' /\ gp'[q].pc # "wait"
      BY <1>11, <2>1, <3>2
    <3> QED BY <3>1, <3>2 DEF OneLeader
  <2>2. CASE flight # NoAccount
    <3>1. ~Leading(p)' /\ flight' = flight
      BY <1>4, <1>5, <2>2 DEF Leading
    <3> QED BY <1>10, <1>11, <2>2, <3>1 DEF GrokInv, OneLeader
  <2> QED BY <2>1, <2>2
<1>13. ASSUME NEW q \in GrokProcs, gp'[q].pc \in {"call", "apply"}
       PROVE  \/ q # p /\ gp'[q] = gp[q]
              \/ q = p /\ gp'[q].pc = "call" /\ gp'[q].tok = t /\ gp'[q].obj = o
  BY <1>4, <1>5, <1>13
<1>14. OwnTokens'
  <2>1. ASSUME NEW y \in AccountObjs, NEW x \in AccountObjs, InUse(y)', InUse(x)', y # x
        PROVE  acct'[y].rt # acct'[x].rt
    BY <1>1, <1>7, <2>1 DEF GrokInv, OwnTokens
  <2>2. ASSUME NEW q \in GrokProcs, NEW y \in AccountObjs, gp'[q].pc \in {"call", "apply"},
               InUse(y)', y # gp'[q].obj
        PROVE  acct'[y].rt # gp'[q].tok
    <3>1. CASE q # p /\ gp'[q] = gp[q]
      BY <1>1, <1>7, <2>2, <3>1 DEF GrokInv, OwnTokens
    <3>2. CASE q = p /\ gp'[q].pc = "call" /\ gp'[q].tok = t /\ gp'[q].obj = o
      <4>1. InUse(o) /\ InUse(y) /\ y # o
        BY <1>3, <1>7, <2>2, <3>2 DEF InUse
      <4> QED BY <1>1, <1>3, <3>2, <4>1 DEF GrokInv, OwnTokens
    <3> QED BY <1>13, <2>2, <3>1, <3>2
  <2> QED BY <2>1, <2>2 DEF OwnTokens
<1>15. SnapshotFresh'
  BY <1>1, <1>4, <1>5 DEF GrokInv, SnapshotFresh
<1>16. GrokPersisted'
  <2>1. ASSUME \A q \in GrokProcs : gp'[q].pc \notin {"toDTO", "save"}
        PROVE  \A q \in GrokProcs : gp[q].pc \notin {"toDTO", "save"}
    BY <1>1, <1>5, <2>1
  <2> QED BY <1>1, <2>1 DEF GrokInv, GrokPersisted
<1>17. JoinedSame'
  <2>1. ASSUME ~lost', NEW w \in GrokProcs, NEW q \in GrokProcs, gp'[q].pc = "wait", flight' = w
        PROVE  gp'[q].obj = gp'[w].obj
    <3>1. flight = w /\ w # p
      BY <1>4, <1>5, <1>10, <1>11, <2>1
    <3>2. CASE q = p
      BY <1>2, <1>6, <2>1, <3>1, <3>2, NoAccountApart
    <3>3. CASE q # p
      BY <1>2, <1>6, <1>11, <2>1, <3>1, <3>3 DEF GrokInv, JoinedSame
    <3> QED BY <3>2, <3>3
  <2> QED BY <2>1 DEF JoinedSame
<1>18. TokenAlive'
  <2> SUFFICES ASSUME ~lost', listed # NoAccount
               PROVE  /\ (\A q \in GrokProcs : ~(gp'[q].pc = "apply" /\ gp'[q].obj = listed))
                            => acct[listed].rt \in live
                      /\ \A q \in GrokProcs : gp'[q].obj = listed =>
                           /\ gp'[q].pc = "call" => gp'[q].tok = acct[listed].rt
                           /\ gp'[q].pc = "apply" => gp'[q].tok \in live
    BY <1>1 DEF TokenAlive
  <2>1. /\ (\A q \in GrokProcs : ~(gp[q].pc = "apply" /\ gp[q].obj = listed))
             => acct[listed].rt \in live
        /\ \A q \in GrokProcs : gp[q].obj = listed =>
             /\ gp[q].pc = "call" => gp[q].tok = acct[listed].rt
             /\ gp[q].pc = "apply" => gp[q].tok \in live
    BY <1>2 DEF GrokInv, TokenAlive
  <2>2. \A q \in GrokProcs : gp[q].pc = "apply" => gp'[q] = gp[q]
    BY <1>1, <1>5
  <2> QED BY <1>3, <1>13, <2>1, <2>2
<1>19. NoVerdict'
  <2>1. ASSUME NEW q \in GrokProcs, gp'[q].pc = "refreshed" PROVE gp'[q] = gp[q]
    BY <1>4, <1>5, <2>1
  <2> QED BY <1>1, <1>2, <2>1 DEF GrokInv, NoVerdict
<1> QED BY <1>8, <1>9, <1>12, <1>14, <1>15, <1>16, <1>17, <1>18, <1>19 DEF GrokInv

(* The leader goes on with the token the server answered: its own, or one  *)
(* issued now.  That of another object in use is not spent.                *)
LEMMA TokenCallAnsweredKeeps ==
  ASSUME GrokInv, NEW p \in GrokProcs, TokenCallAnswered(p)
  PROVE  GrokInv'
<1>1. /\ gp[p].pc = "call" /\ gp[p].tok \in live
      /\ UNCHANGED <<acct, listed, hash, flight, lost, stale>>
  BY DEF TokenCallAnswered, At
<1>2. PICK g \in ProcRecord, i \in Nat, k \in Nat :
        g = gp[p] /\ i = issued /\ k = g.tok /\ k <= i /\ 1 <= i
  BY ProcFields DEF GrokInv, GrokTypes, TokensIssued
<1>3. PICK t \in Nat, j \in Nat :
        /\ gp' = [gp EXCEPT ![p] = [g EXCEPT !.pc = "apply", !.tok = t]]
        /\ issued' = j /\ i <= j /\ t <= j /\ live' \subseteq Nat /\ t \in live'
        /\ t = k \/ i < t
        /\ \A x \in Nat : x \in live /\ x # k => x \in live'
  <2>1. CASE gp' = [gp EXCEPT ![p].pc = "apply"] /\ UNCHANGED <<issued, live>>
    <3>1. [g EXCEPT !.pc = "apply"] = [g EXCEPT !.pc = "apply", !.tok = k]
      BY <1>2 DEF ProcRecord
    <3>2. gp' = [gp EXCEPT ![p] = [g EXCEPT !.pc = "apply", !.tok = k]]
      BY <1>2, <2>1, <3>1
    <3>3. /\ issued' = i /\ live' \subseteq Nat /\ k \in live'
          /\ \A x \in Nat : x \in live /\ x # k => x \in live'
      BY <1>1, <1>2, <2>1 DEF GrokInv, GrokTypes
    <3> WITNESS k \in Nat, i \in Nat
    <3> QED BY <1>2, <3>2, <3>3
  <2>2. CASE /\ issued' = issued + 1
             /\ live' = (live \ {gp[p].tok}) \cup {issued + 1}
             /\ gp' = [gp EXCEPT ![p].pc = "apply", ![p].tok = issued + 1]
    <3>1. PICK m \in Nat : m = i + 1 /\ i < m /\ i <= m
      BY <1>2
    <3>2. gp' = [gp EXCEPT ![p] = [g EXCEPT !.pc = "apply", !.tok = m]]
      BY <1>2, <2>2, <3>1
    <3>3. issued' = m /\ live' = (live \ {k}) \cup {m}
      BY <1>2, <2>2, <3>1
    <3>4. /\ live' \subseteq Nat /\ m \in live'
          /\ \A x \in Nat : x \in live /\ x # k => x \in live'
      BY <3>3 DEF GrokInv, GrokTypes
    <3> WITNESS m \in Nat, m \in Nat
    <3> QED BY <3>1, <3>2, <3>3, <3>4
  <2> QED BY <2>1, <2>2 DEF TokenCallAnswered
<1>4. PICK r \in ProcRecord :
        /\ r = [g EXCEPT !.pc = "apply", !.tok = t]
        /\ r.pc = "apply" /\ r.tok = t /\ r.obj = g.obj /\ r.dto = g.dto
  <2> DEFINE n == [g EXCEPT !.pc = "apply", !.tok = t]
  <2>1. n \in ProcRecord /\ n.pc = "apply" /\ n.tok = t /\ n.obj = g.obj /\ n.dto = g.dto
    BY DEF ProcRecord, Stages
  <2> QED BY <2>1
<1>5. /\ gp' \in [GrokProcs -> ProcRecord] /\ gp'[p] = r
      /\ \A q \in GrokProcs \ {p} : gp'[q] = gp[q]
  BY <1>3, <1>4 DEF GrokInv, GrokTypes
<1>6. \A q \in GrokProcs : gp'[q].obj = gp[q].obj
  BY <1>2, <1>4, <1>5
<1>7. \A x \in AccountObjs : InUse(x)' <=> InUse(x)
  BY <1>1, <1>6 DEF InUse
<1>8. GrokTypes'
  <2>1. ASSUME NEW q \in GrokProcs, gp'[q].pc # "idle" PROVE gp'[q].obj \in AccountObjs
    <3>1. gp[q].pc # "idle"
      BY <1>1, <1>5, <2>1
    <3> QED BY <1>6, <3>1 DEF GrokInv, GrokTypes
  <2> QED BY <1>1, <1>3, <1>5, <2>1 DEF GrokInv, GrokTypes
<1>9. TokensIssued'
  <2>1. ASSUME NEW x \in Nat, x <= i PROVE x <= j
    BY <1>3, <2>1
  <2>2. hash.rt <= j
    BY <1>2, <2>1, AccountRecords DEF GrokInv, GrokTypes, TokensIssued
  <2>3. ASSUME NEW x \in AccountObjs PROVE acct[x].rt <= j
    BY <1>2, <2>1, AccountRecords DEF GrokInv, GrokTypes, TokensIssued
  <2>4. ASSUME NEW q \in GrokProcs PROVE gp'[q].tok <= j /\ gp'[q].dto.rt <= j
    <3>1. gp[q].tok <= i /\ gp[q].dto.rt <= i /\ gp[q].tok \in Nat /\ gp[q].dto.rt \in Nat
      BY <1>2, ProcFields, AccountRecords DEF GrokInv, GrokTypes, TokensIssued
    <3>2. gp'[q].tok \in {t, gp[q].tok} /\ gp'[q].dto = gp[q].dto
      BY <1>2, <1>4, <1>5
    <3> QED BY <1>3, <2>1, <3>1, <3>2
  <2>5. 1 <= j
    BY <1>2, <1>3
  <2> QED BY <1>1, <1>3, <2>2, <2>3, <2>4, <2>5 DEF TokensIssued
<1>10. flight = p /\ Leading(p)' /\ gp'[p].pc # "wait"
  BY <1>1, <1>4, <1>5 DEF GrokInv, OneLeader, Leading
<1>11. ASSUME NEW q \in GrokProcs, q # p
       PROVE  /\ gp'[q] = gp[q] /\ (Leading(q)' <=> Leading(q)) /\ ~Leading(q)
              /\ gp[q].pc \notin {"call", "apply"}
  BY <1>5, <1>10, <1>11 DEF GrokInv, OneLeader, Leading
<1>12. OneLeader'
  BY <1>1, <1>10, <1>11 DEF GrokInv, OneLeader
<1>13. ASSUME NEW x \in AccountObjs, InUse(x), x # gp[p].obj
       PROVE  acct[x].rt # k /\ acct[x].rt # t
  <2>1. acct[x].rt # k
    BY <1>1, <1>2, <1>13 DEF GrokInv, OwnTokens
  <2>2. acct[x].rt <= i /\ acct[x].rt \in Nat
    BY <1>2, AccountRecords DEF GrokInv, GrokTypes, TokensIssued
  <2> QED BY <1>3, <2>1, <2>2
<1>14. OwnTokens'
  <2>1. ASSUME NEW y \in AccountObjs, NEW x \in AccountObjs, InUse(y)', InUse(x)', y # x
        PROVE  acct'[y].rt # acct'[x].rt
    BY <1>1, <1>7, <2>1 DEF GrokInv, OwnTokens
  <2>2. ASSUME NEW q \in GrokProcs, NEW y \in AccountObjs, gp'[q].pc \in {"call", "apply"},
               InUse(y)', y # gp'[q].obj
        PROVE  acct'[y].rt # gp'[q].tok
    <3>1. q = p
      BY <1>11, <2>2
    <3> QED BY <1>1, <1>4, <1>5, <1>6, <1>7, <1>13, <2>2, <3>1, ZenonT(40)
  <2> QED BY <2>1, <2>2 DEF OwnTokens
<1>15. SnapshotFresh'
  BY <1>1, <1>4, <1>5 DEF GrokInv, SnapshotFresh
<1>16. GrokPersisted'
  <2>1. ASSUME \A q \in GrokProcs : gp'[q].pc \notin {"toDTO", "save"}
        PROVE  \A q \in GrokProcs : gp[q].pc \notin {"toDTO", "save"}
    BY <1>1, <1>5, <2>1
  <2> QED BY <1>1, <2>1 DEF GrokInv, GrokPersisted
<1>17. JoinedSame'
  <2>1. ASSUME ~lost, NEW w \in GrokProcs, NEW q \in GrokProcs, gp'[q].pc = "wait", flight = w
        PROVE  gp'[q].obj = gp'[w].obj
    BY <1>6, <1>10, <1>11, <2>1 DEF GrokInv, JoinedSame
  <2> QED BY <1>1, <2>1 DEF JoinedSame
<1>18. TokenAlive'
  <2> SUFFICES ASSUME ~lost, listed # NoAccount
               PROVE  /\ (\A q \in GrokProcs : ~(gp'[q].pc = "apply" /\ gp'[q].obj = listed))
                            => acct[listed].rt \in live'
                      /\ \A q \in GrokProcs : gp'[q].obj = listed =>
                           /\ gp'[q].pc = "call" => gp'[q].tok = acct[listed].rt
                           /\ gp'[q].pc = "apply" => gp'[q].tok \in live'
    BY <1>1 DEF TokenAlive
  <2>1. listed \in AccountObjs /\ InUse(listed) /\ acct[listed].rt \in Nat
    BY AccountRecords DEF GrokInv, GrokTypes, MaybeAccount, InUse
  <2>2. acct[listed].rt \in live
    <3>1. \A q \in GrokProcs : gp[q].pc # "apply"
      BY <1>1, <1>11
    <3> QED BY <3>1 DEF GrokInv, TokenAlive
  <2>3. CASE gp[p].obj = listed
    BY <1>3, <1>4, <1>5, <1>6, <1>11, <2>3
  <2>4. CASE gp[p].obj # listed
    <3>1. acct[listed].rt \in live'
      BY <1>3, <1>13, <2>1, <2>2, <2>4
    <3>2. ASSUME NEW q \in GrokProcs, gp'[q].obj = listed PROVE gp'[q].pc \notin {"call", "apply"}
      BY <1>6, <1>11, <2>4, <3>2
    <3> QED BY <3>1, <3>2
  <2> QED BY <2>3, <2>4
<1>19. NoVerdict'
  <2>1. ASSUME NEW q \in GrokProcs, gp'[q].pc = "refreshed" PROVE gp'[q] = gp[q]
    BY <1>4, <1>5, <2>1
  <2> QED BY <1>1, <2>1 DEF GrokInv, NoVerdict
<1> QED BY <1>8, <1>9, <1>12, <1>14, <1>15, <1>16, <1>17, <1>18, <1>19 DEF GrokInv

LEMMA ReleasePersists ==
  ASSUME GrokInv, NEW p \in GrokProcs, gp[p].pc = "call",
         NEW res \in {"ok", "error", "invalid_grant"}, Release(p, res),
         UNCHANGED <<acct, listed, hash, stale>>
  PROVE  GrokPersisted'
<1>1. \A q \in GrokProcs :
        IF q = p \/ gp[q].pc = "wait" THEN gp'[q].pc = "refreshed" ELSE gp'[q] = gp[q]
  BY ReleaseFields DEF GrokInv
<1>2. ASSUME \A q \in GrokProcs : gp'[q].pc \notin {"toDTO", "save"}
      PROVE  \A q \in GrokProcs : gp[q].pc \notin {"toDTO", "save"}
  BY <1>1, <1>2
<1> QED BY <1>2 DEF GrokInv, GrokPersisted

LEMMA TokenAnswerLostKeeps ==
  ASSUME GrokInv, NEW p \in GrokProcs, TokenAnswerLost(p)
  PROVE  GrokInv'
<1>1. /\ gp[p].pc = "call" /\ issued' = issued + 1 /\ lost' /\ Release(p, "error")
      /\ live' = (live \ {gp[p].tok}) \cup {issued + 1}
      /\ UNCHANGED <<acct, listed, hash, stale>>
  BY DEF TokenAnswerLost, At
<1>2. /\ Leading(p) /\ hash \in AccountDTO \cup {NoHash} /\ hash.rt \in Nat /\ hash.rt <= issued
      /\ issued \in Nat /\ live \subseteq Nat
  BY <1>1, AccountRecords DEF GrokInv, GrokTypes, TokensIssued, Leading
<1>3. issued' \in Nat /\ issued <= issued' /\ hash'.rt <= issued' /\ live' \subseteq Nat
  <2>1. PICK i \in Nat, h \in Nat : i = issued /\ h = hash.rt /\ h <= i
    BY <1>2
  <2>2. i + 1 \in Nat /\ i <= i + 1 /\ h <= i + 1
    BY <2>1
  <2>3. live' \subseteq Nat
    BY <1>1, <1>2, <2>1, <2>2
  <2> QED BY <1>1, <2>1, <2>2, <2>3
<1>4. GrokPersisted'
  BY <1>1, ReleasePersists
<1>5. /\ gp[p].pc # "apply" /\ hash' \in AccountDTO \cup {NoHash}
      /\ ~lost' => ~lost /\ live' = live
  BY <1>1, <1>2
<1> QED BY <1>1, <1>2, <1>3, <1>4, <1>5, ReleaseKeeps

LEMMA TokenCallFailsKeeps ==
  ASSUME GrokInv, NEW p \in GrokProcs, TokenCallFails(p)
  PROVE  GrokInv'
<1>1. PICK res \in {"ok", "error", "invalid_grant"} :
        Release(p, res) /\ (res = "invalid_grant" => gp[p].tok \notin live)
  BY DEF TokenCallFails
<1>2. gp[p].pc = "call" /\ UNCHANGED <<acct, listed, hash, issued, live, lost, stale>>
  BY DEF TokenCallFails, At
<1>3. /\ Leading(p) /\ hash \in AccountDTO \cup {NoHash} /\ hash.rt <= issued
      /\ issued \in Nat /\ live \subseteq Nat
  BY <1>2 DEF GrokInv, GrokTypes, TokensIssued, Leading
<1>4. /\ issued' \in Nat /\ issued <= issued' /\ hash'.rt <= issued' /\ live' \subseteq Nat
      /\ gp[p].pc # "apply" /\ hash' \in AccountDTO \cup {NoHash}
      /\ ~lost' => ~lost /\ live' = live
  BY <1>2, <1>3
<1>5. GrokPersisted'
  BY <1>1, <1>2, ReleasePersists
<1> QED BY <1>1, <1>2, <1>3, <1>4, <1>5, ReleaseKeeps

(* The leader takes over the token: it stays the leader until it has saved. *)
LEMMA refreshLockedKeeps ==
  ASSUME GrokInv, NEW p \in GrokProcs, refreshLocked(p)
  PROVE  GrokInv'
<1>1. gp[p].pc = "apply" /\ UNCHANGED <<listed, hash, flight, issued, live, lost, stale>>
  BY DEF refreshLocked, At
<1>2. PICK o \in AccountObjs, k \in Nat : o = gp[p].obj /\ k = gp[p].tok /\ k <= issued
  BY <1>1, ProcFields DEF GrokInv, GrokTypes, TokensIssued
<1>3. PICK new \in AccountDTO :
        /\ Change(p, o, new, "release") /\ new.rt = k /\ new.status = acct[o].status
  <2>1. PICK a \in AccountDTO : a = acct[o]
    BY DEF GrokInv, GrokTypes
  <2> DEFINE n == [a EXCEPT !.rt = k]
  <2>2. n \in AccountDTO /\ n.rt = k /\ n.status = a.status
    BY DEF AccountDTO
  <2>3. Change(p, o, n, "release")
    BY <1>2, <2>1 DEF refreshLocked
  <2> QED BY <2>1, <2>2, <2>3
<1>4. /\ acct' \in [AccountObjs -> AccountDTO] /\ acct'[o] = new
      /\ \A x \in AccountObjs \ {o} : acct'[x] = acct[x]
      /\ gp'[p].pc = "toDTO" /\ gp'[p].obj = o /\ gp'[p].then = "release"
      /\ \A q \in GrokProcs \ {p} : SameButFresh(q)
  BY <1>3, ChangeFields DEF GrokInv
<1>5. GrokTypes' /\ TokensIssued' /\ SnapshotFresh' /\ GrokPersisted'
  <2>1. /\ listed' \in MaybeAccount /\ issued' \in Nat /\ issued <= issued' /\ live' \subseteq Nat
        /\ new.rt <= issued'
    BY <1>1, <1>2, <1>3 DEF GrokInv, GrokTypes
  <2> QED BY <1>1, <1>3, <2>1, ChangeCommon
<1>6. flight = p /\ Leading(p)' /\ gp'[p].pc # "wait"
  BY <1>1, <1>4 DEF GrokInv, OneLeader, Leading
<1>7. ASSUME NEW q \in GrokProcs, q # p
      PROVE  /\ SameButFresh(q) /\ ~Leading(q)' /\ gp'[q].pc \notin {"call", "apply"}
             /\ gp[q].pc \notin {"call", "apply"}
  <2>1. SameButFresh(q) /\ ~Leading(q)
    BY <1>4, <1>6, <1>7 DEF GrokInv, OneLeader
  <2> QED BY <2>1 DEF SameButFresh, Leading
<1>8. \A q \in GrokProcs : gp'[q].obj = gp[q].obj /\ gp'[q].pc \notin {"call", "apply"}
  BY <1>2, <1>4, <1>7 DEF SameButFresh
<1>9. OneLeader'
  <2>1. ASSUME NEW q \in GrokProcs PROVE Leading(q)' <=> flight' = q
    BY <1>1, <1>6, <1>7
  <2> QED BY <1>1, <1>6, <2>1, NoAccountApart DEF OneLeader
<1>10. \A x \in AccountObjs : InUse(x)' <=> InUse(x)
  BY <1>1, <1>8 DEF InUse
<1>11. OwnTokens'
  <2>1. ASSUME NEW x \in AccountObjs, InUse(x), x # o PROVE acct'[x].rt # k /\ acct'[x] = acct[x]
    BY <1>1, <1>2, <1>4, <2>1 DEF GrokInv, OwnTokens
  <2>2. ASSUME NEW y \in AccountObjs, NEW x \in AccountObjs, InUse(y)', InUse(x)', y # x
        PROVE  acct'[y].rt # acct'[x].rt
    <3>1. CASE y # o /\ x # o
      BY <1>10, <2>1, <2>2, <3>1 DEF GrokInv, OwnTokens
    <3>2. CASE y = o \/ x = o
      BY <1>3, <1>4, <1>10, <2>1, <2>2, <3>2
    <3> QED BY <3>1, <3>2
  <2> QED BY <1>8, <2>2 DEF OwnTokens
<1>12. JoinedSame'
  <2>1. ASSUME ~lost, NEW w \in GrokProcs, NEW q \in GrokProcs, gp'[q].pc = "wait", flight = w
        PROVE  gp'[q].obj = gp'[w].obj
    <3>1. q # p
      BY <1>6, <2>1
    <3>2. gp[q].pc = "wait"
      BY <1>7, <2>1, <3>1 DEF SameButFresh
    <3> QED BY <1>8, <2>1, <3>2 DEF GrokInv, JoinedSame
  <2> QED BY <1>1, <2>1 DEF JoinedSame
<1>13. listed # NoAccount => listed \in AccountObjs
  BY DEF GrokInv, GrokTypes, MaybeAccount
<1>14. ASSUME ~lost, listed # NoAccount
       PROVE  acct'[listed].rt \in live /\ acct'[listed].status # "revoked"
  <2>1. CASE listed = o
    BY <1>1, <1>2, <1>3, <1>4, <1>14, <2>1 DEF GrokInv, TokenAlive, NoVerdict
  <2>2. CASE listed # o
    <3>1. acct'[listed] = acct[listed]
      BY <1>4, <1>13, <1>14, <2>2
    <3>2. ASSUME NEW q \in GrokProcs PROVE ~(gp[q].pc = "apply" /\ gp[q].obj = listed)
      BY <1>2, <1>7, <2>2
    <3> QED BY <1>14, <3>1, <3>2 DEF GrokInv, TokenAlive, NoVerdict
  <2> QED BY <2>1, <2>2
<1>15. TokenAlive'
  BY <1>1, <1>8, <1>14 DEF TokenAlive
<1>16. NoVerdict'
  <2>1. ASSUME ~lost, listed # NoAccount, NEW q \in GrokProcs, gp'[q].pc = "refreshed",
               gp'[q].res = "invalid_grant"
        PROVE  gp'[q].obj # listed
    <3>1. q # p
      BY <1>4, <2>1
    <3> QED BY <1>7, <2>1, <3>1 DEF GrokInv, NoVerdict, SameButFresh
  <2> QED BY <1>1, <1>14, <2>1 DEF NoVerdict
<1> QED BY <1>5, <1>9, <1>11, <1>12, <1>15, <1>16 DEF GrokInv

-----------------------------------------------------------------------------
(* The operator and the environment *)

(* A token of a new session, in no other hand.  The verdicts that may still *)
(* come are what lost records.                                              *)
LEMMA UpsertAccountKeeps ==
  ASSUME GrokInv, NEW p \in GrokProcs, UpsertAccount(p)
  PROVE  GrokInv'
<1>1. /\ gp[p].pc = "idle" /\ issued' = issued + 1 /\ live' = live \cup {issued + 1}
      /\ UNCHANGED <<hash, flight, stale>>
  BY DEF UpsertAccount, MayStart
<1>2. PICK o \in AccountObjs : listed' = o /\ Change(p, o, NewAccount(issued + 1), "idle")
  BY DEF UpsertAccount, Unheld, GrokInv, GrokTypes, MaybeAccount
<1>3. ASSUME ~lost'
      PROVE  flight = NoAccount /\ \A q \in GrokProcs : gp[q].pc # "refreshed"
  BY <1>3, Zenon DEF UpsertAccount, VerdictPending, At
<1>4. PICK i \in Nat, j \in Nat :
        i = issued /\ j = i + 1 /\ issued' = j /\ i <= j /\ live' \subseteq Nat /\ j \in live'
  <2>1. PICK i \in Nat : i = issued
    BY DEF GrokInv, GrokTypes
  <2>2. i + 1 \in Nat /\ i <= i + 1
    BY <2>1
  <2>3. live' \subseteq Nat
    BY <1>1, <2>1, <2>2 DEF GrokInv, GrokTypes
  <2> QED BY <1>1, <2>1, <2>2, <2>3
<1>5. PICK new \in AccountDTO :
        new = NewAccount(j) /\ new.rt = j /\ new.status = "enabled" /\ Change(p, o, new, "idle")
  BY <1>2, <1>4, AccountRecords
<1>6. /\ acct' \in [AccountObjs -> AccountDTO] /\ acct'[o] = new
      /\ \A x \in AccountObjs \ {o} : acct'[x] = acct[x]
      /\ gp'[p].pc = "toDTO" /\ gp'[p].obj = o /\ gp'[p].then = "idle"
      /\ \A q \in GrokProcs \ {p} : SameButFresh(q)
  BY <1>5, ChangeFields DEF GrokInv
<1>7. GrokTypes' /\ TokensIssued' /\ SnapshotFresh' /\ GrokPersisted'
  <2>1. listed' \in MaybeAccount /\ issued' \in Nat /\ issued <= issued' /\ new.rt <= issued'
    BY <1>2, <1>4, <1>5 DEF MaybeAccount
  <2> QED BY <1>1, <1>4, <1>5, <2>1, ChangeCommon
<1>8. ~Leading(p) /\ ~Leading(p)' /\ gp'[p].pc # "wait"
  BY <1>1, <1>6 DEF Leading
<1>9. ASSUME NEW q \in GrokProcs, q # p PROVE SameButFresh(q) /\ (Leading(q)' <=> Leading(q))
  BY <1>6, <1>9 DEF SameButFresh, Leading
<1>10. OneLeader'
  <2>1. ASSUME NEW q \in GrokProcs
        PROVE  (Leading(q)' <=> flight = q) /\ (gp'[q].pc = "wait" => flight # NoAccount)
    BY <1>8, <1>9 DEF GrokInv, OneLeader, SameButFresh
  <2> QED BY <1>1, <2>1 DEF OneLeader
<1>11. ASSUME NEW x \in AccountObjs, x # o, InUse(x)'
       PROVE  InUse(x) /\ acct'[x] = acct[x] /\ acct[x].rt # j
  <2>1. PICK q \in GrokProcs : gp'[q].obj = x
    BY <1>2, <1>11 DEF InUse
  <2>2. gp[q].obj = x
    BY <1>6, <1>9, <1>11, <2>1 DEF SameButFresh
  <2>3. acct[x].rt \in Nat /\ acct[x].rt <= i
    BY <1>4, AccountRecords DEF GrokInv, GrokTypes, TokensIssued
  <2>4. acct[x].rt # j
    BY <1>4, <2>3
  <2> QED BY <1>6, <1>11, <2>2, <2>4 DEF InUse
<1>12. OwnTokens'
  <2>1. ASSUME NEW y \in AccountObjs, NEW x \in AccountObjs, InUse(y)', InUse(x)', y # x
        PROVE  acct'[y].rt # acct'[x].rt
    <3>1. CASE y # o /\ x # o
      BY <1>11, <2>1, <3>1 DEF GrokInv, OwnTokens
    <3>2. CASE y = o \/ x = o
      BY <1>5, <1>6, <1>11, <2>1, <3>2
    <3> QED BY <3>1, <3>2
  <2>2. ASSUME NEW q \in GrokProcs, NEW y \in AccountObjs, gp'[q].pc \in {"call", "apply"},
               InUse(y)', y # gp'[q].obj
        PROVE  acct'[y].rt # gp'[q].tok
    <3>1. /\ gp[q].pc \in {"call", "apply"} /\ y # gp[q].obj /\ gp'[q].tok = gp[q].tok
          /\ gp[q].tok \in Nat /\ gp[q].tok <= i
      BY <1>4, <1>6, <1>9, <2>2, ProcFields DEF SameButFresh, GrokInv, GrokTypes, TokensIssued
    <3>2. CASE y = o
      <4>1. gp[q].tok # j
        BY <1>4, <3>1
      <4> QED BY <1>5, <1>6, <3>1, <3>2, <4>1
    <3>3. CASE y # o
      BY <1>11, <2>2, <3>1, <3>3 DEF GrokInv, OwnTokens
    <3> QED BY <3>2, <3>3
  <2> QED BY <2>1, <2>2 DEF OwnTokens
<1>13. JoinedSame'
  BY <1>1, <1>3, NoAccountApart DEF JoinedSame
<1>14. ASSUME ~lost', NEW q \in GrokProcs PROVE gp'[q].pc \notin {"call", "apply", "refreshed"}
  <2>1. CASE q = p
    BY <1>6, <2>1
  <2>2. CASE q # p
    <3>1. ~Leading(q) /\ gp[q].pc # "refreshed" /\ gp'[q].pc = gp[q].pc
      BY <1>3, <1>9, <1>14, <2>2, NoAccountApart DEF GrokInv, OneLeader, SameButFresh
    <3> QED BY <3>1 DEF Leading
  <2> QED BY <2>1, <2>2
<1>15. TokenAlive'
  BY <1>2, <1>4, <1>5, <1>6, <1>14 DEF TokenAlive
<1>16. NoVerdict'
  BY <1>2, <1>5, <1>6, <1>14 DEF NoVerdict
<1> QED BY <1>7, <1>10, <1>12, <1>13, <1>15, <1>16 DEF GrokInv

LEMMA DeleteAccountKeeps ==
  ASSUME GrokInv, NEW p \in GrokProcs, DeleteAccount(p)
  PROVE  GrokInv'
<1>1. /\ listed' = NoAccount /\ hash' \in {NoHash, hash} /\ stale' = (hash' # NoHash)
      /\ acct' = Collected(listed', gp') /\ UNCHANGED <<gp, flight, issued, live, lost>>
  BY DEF DeleteAccount
<1>2. /\ acct' \in [AccountObjs -> AccountDTO] /\ \A o \in AccountObjs : acct'[o].rt <= issued
      /\ \A o \in AccountObjs : InUse(o)' => acct'[o] = acct[o]
  BY <1>1, CollectedKeeps DEF GrokInv
<1>3. \A o \in AccountObjs : InUse(o)' => InUse(o)
  BY <1>1, NoAccountApart DEF InUse
<1>4. GrokTypes'
  BY <1>1, <1>2 DEF GrokInv, GrokTypes, MaybeAccount
<1>5. TokensIssued'
  BY <1>1, <1>2, AccountRecords DEF GrokInv, GrokTypes, TokensIssued
<1>6. OneLeader'
  BY <1>1 DEF GrokInv, OneLeader, Leading
<1>7. OwnTokens'
  <2>1. ASSUME NEW y \in AccountObjs, NEW x \in AccountObjs, InUse(y)', InUse(x)', y # x
        PROVE  acct'[y].rt # acct'[x].rt
    BY <1>2, <1>3, <2>1 DEF GrokInv, OwnTokens
  <2>2. ASSUME NEW q \in GrokProcs, NEW y \in AccountObjs, gp[q].pc \in {"call", "apply"},
               InUse(y)', y # gp[q].obj
        PROVE  acct'[y].rt # gp[q].tok
    BY <1>2, <1>3, <2>2 DEF GrokInv, OwnTokens
  <2> QED BY <1>1, <2>1, <2>2 DEF OwnTokens
<1>8. SnapshotFresh'
  <2>1. ASSUME NEW q \in GrokProcs, gp[q].pc = "save", gp[q].fresh
        PROVE  gp[q].dto = acct'[gp[q].obj]
    <3>1. PICK o \in AccountObjs : o = gp[q].obj
      BY <2>1 DEF GrokInv, GrokTypes
    <3>2. InUse(o)'
      BY <1>1, <3>1 DEF InUse
    <3> QED BY <1>2, <2>1, <3>1, <3>2 DEF GrokInv, SnapshotFresh
  <2> QED BY <1>1, <2>1 DEF SnapshotFresh
<1>9. GrokPersisted' /\ TokenAlive' /\ NoVerdict'
  BY <1>1 DEF GrokPersisted, TokenAlive, NoVerdict
<1>10. JoinedSame'
  BY <1>1 DEF GrokInv, JoinedSame
<1> QED BY <1>4, <1>5, <1>6, <1>7, <1>8, <1>9, <1>10 DEF GrokInv

LEMMA SessionRevokedKeeps ==
  ASSUME GrokInv, SessionRevoked
  PROVE  GrokInv'
<1>1. live' = {} /\ lost' /\ UNCHANGED <<acct, listed, hash, gp, flight, issued, stale>>
  BY DEF SessionRevoked
<1>2. GrokTypes' /\ TokensIssued'
  BY <1>1 DEF GrokInv, GrokTypes, TokensIssued
<1>3. OneLeader' /\ OwnTokens'
  BY <1>1 DEF GrokInv, OneLeader, Leading, OwnTokens, InUse
<1>4. SnapshotFresh' /\ GrokPersisted'
  BY <1>1 DEF GrokInv, SnapshotFresh, GrokPersisted
<1>5. JoinedSame' /\ TokenAlive' /\ NoVerdict'
  BY <1>1 DEF JoinedSame, TokenAlive, NoVerdict
<1> QED BY <1>2, <1>3, <1>4, <1>5 DEF GrokInv

(* The account loaded is what the hash says; lost records one that was      *)
(* saved with a dead token or as revoked.                                   *)
LEMMA GrokRestartKeeps ==
  ASSUME GrokInv, GrokRestart
  PROVE  GrokInv'
<1>1. /\ gp' = [q \in GrokProcs |-> IdleProc] /\ flight' = NoAccount
      /\ UNCHANGED <<hash, issued, live>>
  BY DEF GrokRestart
<1>2. \/ listed' = NoAccount /\ stale' = (hash # NoHash)
      \/ hash \in AccountDTO /\ listed' \in AccountObjs
  BY DEF GrokRestart, LoadGrokAccounts, GrokInv, GrokTypes
<1>3. ASSUME ~lost', hash # NoHash PROVE hash.rt \in live /\ hash.status # "revoked"
  BY <1>3, Zenon DEF GrokRestart
<1>4. acct' = [o \in AccountObjs |-> IF o = listed' THEN hash ELSE NewAccount(1)]
  BY DEF GrokRestart
<1>5. PICK z \in AccountDTO : z = NewAccount(1) /\ z.rt = 1
  BY AccountRecords
<1>6. \A o \in AccountObjs : acct'[o] = IF o = listed' THEN hash ELSE z
  BY <1>4, <1>5
<1>7. acct' \in [AccountObjs -> AccountDTO]
  BY <1>2, <1>4, <1>5, NoAccountApart
<1>8. \A q \in GrokProcs : gp'[q] = IdleProc /\ gp'[q].pc = "idle" /\ gp'[q].obj = NoAccount
  BY <1>1, IdleFields
<1>9. GrokTypes'
  <2>1. gp' \in [GrokProcs -> ProcRecord] /\ listed' \in MaybeAccount
    BY <1>1, <1>2, IdleFields DEF MaybeAccount
  <2> QED BY <1>1, <1>7, <1>8, <2>1 DEF GrokInv, GrokTypes
<1>10. TokensIssued'
  <2>1. ASSUME NEW o \in AccountObjs PROVE acct'[o].rt <= issued
    BY <1>5, <1>6 DEF GrokInv, TokensIssued
  <2>2. ASSUME NEW q \in GrokProcs PROVE gp'[q].tok <= issued /\ gp'[q].dto.rt <= issued
    BY <1>8, IdleFields, AccountRecords DEF GrokInv, GrokTypes, TokensIssued
  <2> QED BY <1>1, <2>1, <2>2 DEF GrokInv, TokensIssued
<1>11. OneLeader'
  BY <1>1, <1>8, NoAccountApart DEF OneLeader, Leading
<1>12. \A o \in AccountObjs : InUse(o)' => o = listed'
  BY <1>8, NoAccountApart DEF InUse
<1>13. OwnTokens'
  BY <1>8, <1>12 DEF OwnTokens
<1>14. SnapshotFresh' /\ JoinedSame'
  BY <1>8 DEF SnapshotFresh, JoinedSame
<1>15. listed' # NoAccount => acct'[listed'] = hash /\ hash # NoHash
  BY <1>2, <1>6, AccountRecords
<1>16. GrokPersisted'
  <2>1. CASE listed' = NoAccount /\ stale' = (hash # NoHash)
    BY <1>1, <2>1 DEF GrokPersisted
  <2>2. CASE listed' \in AccountObjs
    <3>1. hash' = acct'[listed'] /\ listed' # NoAccount
      BY <1>1, <1>15, <2>2, NoAccountApart
    <3> QED BY <3>1 DEF GrokPersisted
  <2> QED BY <1>2, <2>1, <2>2
<1>17. TokenAlive' /\ NoVerdict'
  BY <1>1, <1>3, <1>8, <1>15 DEF TokenAlive, NoVerdict
<1> QED BY <1>9, <1>10, <1>11, <1>13, <1>14, <1>16, <1>17 DEF GrokInv

-----------------------------------------------------------------------------
LEMMA GrokInitially == GrokInit => GrokInv
<1> SUFFICES ASSUME GrokInit PROVE GrokInv
  OBVIOUS
<1>1. PICK l \in AccountObjs :
        /\ acct = [x \in AccountObjs |-> NewAccount(1)] /\ listed = l /\ hash = NewAccount(1)
        /\ gp = [q \in GrokProcs |-> IdleProc] /\ flight = NoAccount
        /\ issued = 1 /\ live = {1} /\ lost = FALSE /\ stale = FALSE
  BY DEF GrokInit
<1>2. PICK z \in AccountDTO : z = NewAccount(1) /\ z.rt = 1 /\ z.status = "enabled"
  BY AccountRecords
<1>3. /\ acct \in [AccountObjs -> AccountDTO] /\ hash = z
      /\ \A o \in AccountObjs : acct[o] = z
  BY <1>1, <1>2
<1>4. /\ gp \in [GrokProcs -> ProcRecord]
      /\ \A q \in GrokProcs :
           /\ gp[q].pc = "idle" /\ gp[q].obj = NoAccount /\ gp[q].tok = 0 /\ gp[q].dto.rt = 0
  BY <1>1, IdleFields, AccountRecords
<1>5. GrokTypes
  BY <1>1, <1>3, <1>4 DEF GrokTypes, MaybeAccount
<1>6. TokensIssued
  BY <1>1, <1>2, <1>3, <1>4 DEF TokensIssued
<1>7. OneLeader
  BY <1>1, <1>4, NoAccountApart DEF OneLeader, Leading
<1>8. \A o \in AccountObjs : InUse(o) => o = l
  BY <1>1, <1>4, NoAccountApart DEF InUse
<1>9. OwnTokens
  BY <1>4, <1>8 DEF OwnTokens
<1>10. SnapshotFresh /\ JoinedSame
  BY <1>4 DEF SnapshotFresh, JoinedSame
<1>11. GrokPersisted
  <2>1. hash = acct[listed] /\ listed # NoAccount
    BY <1>1, <1>3, NoAccountApart
  <2> QED BY <2>1 DEF GrokPersisted
<1>12. TokenAlive /\ NoVerdict
  BY <1>1, <1>2, <1>3, <1>4 DEF TokenAlive, NoVerdict
<1> QED BY <1>5, <1>6, <1>7, <1>9, <1>10, <1>11, <1>12 DEF GrokInv

LEMMA GrokNextKeeps == GrokInv /\ [GrokNext]_grokVars => GrokInv'
<1> SUFFICES ASSUME GrokInv, [GrokNext]_grokVars PROVE GrokInv'
  OBVIOUS
<1>1. ASSUME NEW p \in GrokProcs, GrokStep(p) PROVE GrokInv'
  <2>1. CASE toDTO(p)
    BY <2>1, toDTOKeeps
  <2>2. CASE saveGrokAccount(p) \/ SaveGrokAccountFails(p)
    BY <2>2, saveGrokAccountKeeps, SaveGrokAccountFailsKeeps
  <2>3. CASE Refresh(p)
    BY <2>3, RefreshKeeps
  <2>4. CASE TokenCallAnswered(p)
    BY <2>4, TokenCallAnsweredKeeps
  <2>5. CASE TokenAnswerLost(p)
    BY <2>5, TokenAnswerLostKeeps
  <2>6. CASE TokenCallFails(p)
    BY <2>6, TokenCallFailsKeeps
  <2>7. CASE refreshLocked(p)
    BY <2>7, refreshLockedKeeps
  <2>8. CASE Refreshed(p)
    BY <2>8, RefreshedKeeps
  <2>9. CASE NextAccount(p)
    BY <2>9, NextAccountKeeps
  <2>10. CASE AttemptEnds(p)
    <3>1. /\ GoIdle(p) /\ gp[p].pc \in Outside \cup {"refreshed"}
          /\ UNCHANGED <<listed, hash, flight, issued, live, lost, stale>>
      BY <2>10 DEF AttemptEnds, At, Outside
    <3> QED BY <3>1, GoIdleKeeps
  <2>11. CASE Unauthorized(p)
    BY <2>11, UnauthorizedKeeps
  <2>12. CASE AttemptRefused(p)
    BY <2>12, AttemptRefusedKeeps
  <2>13. CASE AutoRefreshWorker(p) \/ HandleRefresh(p)
    <3>1. /\ listed # NoAccount /\ gp[p].pc = "idle"
          /\ gp' = [gp EXCEPT ![p] = [IdleProc EXCEPT !.pc = "refresh", !.obj = listed]]
          /\ UNCHANGED <<acct, listed, hash, flight, issued, live, lost, stale>>
      BY <2>13 DEF AutoRefreshWorker, HandleRefresh, MayStart
    <3> QED BY <3>1, BeginKeeps
  <2>14. CASE ReenableGrok(p)
    BY <2>14, ReenableGrokKeeps
  <2>15. CASE HandleImportAccount(p) \/ HandleImportAccountBulk(p)
    BY <2>15, UpsertAccountKeeps DEF HandleImportAccount, HandleImportAccountBulk
  <2>16. CASE HandleDeleteAccount(p) \/ CleanupDisabled(p) \/ HandleCleanupBanned(p)
    BY <2>16, DeleteAccountKeeps
       DEF HandleDeleteAccount, CleanupDisabled, HandleCleanupBanned, CleanupBanned, cleanupBy
  <2> QED BY <1>1, <2>1, <2>2, <2>3, <2>4, <2>5, <2>6, <2>7, <2>8, <2>9, <2>10, <2>11, <2>12,
             <2>13, <2>14, <2>15, <2>16 DEF GrokStep
<1>2. CASE UNCHANGED grokVars
  <2>1. UNCHANGED <<acct, listed, hash, gp, flight, issued, live, lost, stale>>
    BY <1>2 DEF grokVars
  <2>2. GrokTypes' /\ TokensIssued'
    BY <2>1 DEF GrokInv, GrokTypes, TokensIssued
  <2>3. OneLeader' /\ OwnTokens'
    BY <2>1 DEF GrokInv, OneLeader, Leading, OwnTokens, InUse
  <2>4. SnapshotFresh' /\ GrokPersisted'
    BY <2>1 DEF GrokInv, SnapshotFresh, GrokPersisted
  <2>5. JoinedSame' /\ TokenAlive' /\ NoVerdict'
    BY <2>1 DEF GrokInv, JoinedSame, TokenAlive, NoVerdict
  <2> QED BY <2>2, <2>3, <2>4, <2>5 DEF GrokInv
<1> QED BY <1>1, <1>2, SessionRevokedKeeps, GrokRestartKeeps DEF GrokNext

LEMMA GrokInvariant == GrokSpec => []GrokInv
  BY GrokInitially, GrokNextKeeps, PTL DEF GrokSpec

(* While no refresh is in progress the refresh token in memory is one the   *)
(* server accepts: refreshSF makes one goroutine spend it at a time, and    *)
(* refreshLocked takes over the one it brings before the next may lead.     *)
THEOREM LiveTokenKeptHolds == GrokSpec => []LiveTokenKept
<1>1. ASSUME GrokInv PROVE LiveTokenKept
  <2>1. ASSUME flight = NoAccount PROVE \A q \in GrokProcs : gp[q].pc # "apply"
    BY <1>1, <2>1, NoAccountApart DEF GrokInv, OneLeader, Leading
  <2> QED BY <1>1, <2>1 DEF GrokInv, TokenAlive, LiveTokenKept
<1> QED BY <1>1, GrokInvariant, PTL

(* Only a dead refresh token disables an account for invalid_grant: the     *)
(* verdict a goroutine carries is about the token of the account listed.    *)
THEOREM RevokedOnlyIfDeadHolds == GrokSpec => []RevokedOnlyIfDead
<1>1. ASSUME GrokInv PROVE RevokedOnlyIfDead
  BY <1>1 DEF GrokInv, NoVerdict, RevokedOnlyIfDead
<1> QED BY <1>1, GrokInvariant, PTL

(* Redis has what memory has once nobody saves, unless the last command     *)
(* wrote an older snapshot or another object, or failed.                    *)
THEOREM GrokPersistedHolds == GrokSpec => []GrokPersisted
  BY GrokInvariant, PTL DEF GrokInv

-----------------------------------------------------------------------------
(* The pool of outbound proxies, for every set of ids, addresses and       *)
(* request goroutines and every failure threshold: which address a request *)
(* dials, that a deleted proxy stays off, and that an enabled one has      *)
(* failures left.                                                          *)

PoolSteps == {"idle", "picked", "sent", "failed", "succeeded", "forget", "hset", "member",
              "count", "append", "update", "del", "srem"}
PoolOps == {"none", "Add", "Update", "Delete", "Toggle", "MarkFailed", "MarkSuccess"}
PoolCallRecord == [step : PoolSteps, id : ProxyIds \cup {"none"}, entry : ProxyEntry, op : PoolOps]

PoolTypes ==
  /\ entries \in [ProxyIds -> ProxyEntry]
  /\ transports \in [ProxyIds -> Addresses \cup {NoAddress}]
  /\ proxyHash \in [ProxyIds -> ProxyEntry]
  /\ enabledSet \subseteq ProxyIds /\ touches \subseteq ProxyIds
  /\ call \in [PoolActors -> PoolCallRecord]
  /\ usedIds \subseteq ProxyIds /\ deleted \subseteq ProxyIds
  /\ raced \subseteq ProxyIds /\ late \subseteq ProxyIds

(* What goroutine a has in hand agrees with where it is. *)
ClientShape(a) ==
  /\ call[a].step \in {"idle", "picked", "sent", "failed", "succeeded", "forget", "hset",
                       "member", "count"}
  /\ call[a].op \in {"none", "MarkFailed", "MarkSuccess"}
  /\ call[a].step \in {"forget", "hset", "member"} => ~call[a].entry.enabled
DashboardShape(a) ==
  /\ call[a].step \in {"idle", "hset", "member", "append", "update", "forget", "del", "srem"}
  /\ call[a].op = "Add" => call[a].step \in {"hset", "member", "append"}
  /\ call[a].op = "Update" => call[a].step \in {"update", "forget", "hset", "member"}
  /\ call[a].op = "Toggle" => call[a].step \in {"hset", "member"}
  /\ call[a].op = "Delete" => call[a].step \in {"forget", "del", "srem"}
  /\ call[a].step \in {"del", "srem"} => call[a].op = "Delete"
  /\ call[a].op \in {"none", "Add", "Update", "Delete", "Toggle"}
  /\ call[a].step = "append" => call[a].op = "Add"
  /\ call[a].step = "update" => call[a].op = "Update"
  /\ call[a].op \in {"Add", "Update"} => call[a].entry.fc = 0 /\ call[a].entry.here
  /\ call[a].op = "Add" => entries[call[a].id] = NoEntry
  /\ call[a].op = "Delete" => entries[call[a].id] = NoEntry
  /\ call[a].step = "update" => entries[call[a].id].here
PoolShape ==
  /\ \A a \in PoolActors : call[a].step # "idle" => call[a].id \in usedIds
  /\ \A c \in PoolClients : ClientShape(c)
  /\ DashboardShape(Dashboard)
  /\ \A i \in ProxyIds : ~entries[i].here => entries[i] = NoEntry

(* An id that was not generated yet has left no trace, and no request      *)
(* knows the id that Add is saving.                                        *)
FreshIds ==
  /\ \A i \in ProxyIds \ usedIds : entries[i] = NoEntry /\ proxyHash[i] = NoEntry
                                   /\ transports[i] = NoAddress
  /\ enabledSet \cup touches \cup deleted \subseteq usedIds
  /\ call[Dashboard].op = "Add" =>
       /\ transports[call[Dashboard].id] = NoAddress
       /\ \A c \in PoolClients : call[c].step # "idle" => call[c].id # call[Dashboard].id

(* A request between Next and Transport holds the address of its entry     *)
(* unless the entry was changed since.                                     *)
PickedCurrent ==
  \A c \in PoolClients :
    Calls(c, "picked") /\ call[c].id \notin raced => call[c].entry.addr = entries[call[c].id].addr

(* Nothing in Redis or on its way to it enables a deleted proxy. *)
DeletedOff ==
  /\ DeletedStaysOff
  /\ deleted \cap enabledSet = {}
  /\ call[Dashboard].step \in {"forget", "hset", "member", "append"}
       /\ call[Dashboard].op # "Delete" => call[Dashboard].id \notin deleted

(* Of an entry whose writes did not cross: what Redis and a write under    *)
(* way have of it.                                                         *)
Saving(a, i) == Writing(a, i) /\ call[a].op # "Delete"
InOrder(i) ==
  /\ \A a, b \in PoolActors : Writing(a, i) /\ Writing(b, i) => a = b
  /\ entries[i].enabled => entries[i].fc < FailThreshold
  /\ \A a \in PoolActors : Writing(a, i) => call[a].op = "Add" \/ call[a].entry = entries[i]
  /\ (\A a \in PoolActors : Saving(a, i) => call[a].step = "count") =>
       (i \in enabledSet /\ entries[i].here => entries[i].enabled)
  /\ (\A a \in PoolActors : ~Saving(a, i)) => (i \in enabledSet => proxyHash[i].fc < FailThreshold)
  /\ \A a \in PoolActors : call[a].id = i =>
       /\ Calls(a, "member") => proxyHash[i].fc = call[a].entry.fc
       /\ Calls(a, "append") => (i \in enabledSet => call[a].entry.enabled)
       /\ Calls(a, "count") => entries[i].here
       /\ call[a].op = "Delete" => \A b \in PoolActors : ~Saving(b, i)
WritesInOrder == \A i \in ProxyIds \ late : InOrder(i)

PoolInv ==
  /\ PoolTypes /\ PoolShape /\ FreshIds /\ PickedCurrent /\ TransportCurrent
  /\ DeletedOff /\ WritesInOrder

-----------------------------------------------------------------------------
(* Records and single changes                                              *)

LEMMA NoEntryFields ==
  /\ NoEntry \in ProxyEntry
  /\ NoEntry.addr = NoAddress /\ NoEntry.fc = 0 /\ ~NoEntry.enabled /\ ~NoEntry.here
  BY DEF NoEntry, ProxyEntry

LEMMA NewEntryFields ==
  ASSUME NEW addr \in Addresses \cup {NoAddress}, NEW on \in BOOLEAN
  PROVE  /\ NewEntry(addr, on) \in ProxyEntry
         /\ NewEntry(addr, on).fc = 0 /\ NewEntry(addr, on).here
  BY DEF NewEntry, ProxyEntry

LEMMA NoCallFields ==
  /\ NoCallYet \in PoolCallRecord
  /\ NoCallYet.step = "idle" /\ NoCallYet.op = "none"
  BY NoEntryFields DEF NoCallYet, PoolCallRecord, PoolSteps, PoolOps

LEMMA Actors ==
  /\ Dashboard \in PoolActors /\ Dashboard \notin PoolClients
  /\ PoolClients \subseteq PoolActors
  /\ \A a \in PoolActors : a # Dashboard => a \in PoolClients
  BY PoolAssumption DEF PoolActors

LEMMA OneActor ==
  ASSUME PoolTypes, NEW a \in PoolActors, NEW r \in PoolCallRecord,
         call' = [call EXCEPT ![a] = r]
  PROVE  /\ call' \in [PoolActors -> PoolCallRecord]
         /\ call'[a] = r
         /\ \A b \in PoolActors \ {a} : call'[b] = call[b]
  BY DEF PoolTypes

(* What the steps of a goroutine do to what it has in hand. *)
LEMMA StepsTo ==
  ASSUME PoolTypes, NEW a \in PoolActors, NEW s \in PoolSteps, NEW i \in ProxyIds,
         NEW e \in ProxyEntry, NEW o \in PoolOps, call' = Step(a, s, i, e, o)
  PROVE  /\ call' \in [PoolActors -> PoolCallRecord]
         /\ call'[a].step = s /\ call'[a].id = i /\ call'[a].entry = e /\ call'[a].op = o
         /\ \A b \in PoolActors \ {a} : call'[b] = call[b]
<1> DEFINE r == [step |-> s, id |-> i, entry |-> e, op |-> o]
<1>1. /\ r \in PoolCallRecord
      /\ r.step = s /\ r.id = i /\ r.entry = e /\ r.op = o
  BY DEF PoolCallRecord
<1>2. call' = [call EXCEPT ![a] = r]
  BY DEF Step
<1> HIDE DEF r
<1> QED BY <1>1, <1>2, OneActor

LEMMA ThenGoes ==
  ASSUME PoolTypes, NEW a \in PoolActors, NEW s \in PoolSteps, Then(a, s)
  PROVE  /\ call' \in [PoolActors -> PoolCallRecord]
         /\ call'[a].step = s /\ call'[a].id = call[a].id
         /\ call'[a].entry = call[a].entry /\ call'[a].op = call[a].op
         /\ \A b \in PoolActors \ {a} : call'[b] = call[b]
<1> DEFINE r == [call[a] EXCEPT !.step = s]
<1>1. /\ r \in PoolCallRecord
      /\ r.step = s /\ r.id = call[a].id /\ r.entry = call[a].entry /\ r.op = call[a].op
  BY DEF PoolTypes, PoolCallRecord
<1>2. call' = [call EXCEPT ![a] = r]
  BY DEF Then, PoolTypes
<1> HIDE DEF r
<1> QED BY <1>1, <1>2, OneActor

LEMMA ReturnsIdle ==
  ASSUME PoolTypes, NEW a \in PoolActors, Returns(a)
  PROVE  /\ call' \in [PoolActors -> PoolCallRecord]
         /\ call'[a].step = "idle" /\ call'[a].op = "none"
         /\ \A b \in PoolActors \ {a} : call'[b] = call[b]
  BY NoCallFields, OneActor DEF Returns

LEMMA EntrySet ==
  ASSUME PoolTypes, NEW i \in ProxyIds, NEW e \in ProxyEntry, SetEntry(i, e)
  PROVE  /\ entries' \in [ProxyIds -> ProxyEntry]
         /\ entries'[i] = e
         /\ \A j \in ProxyIds \ {i} : entries'[j] = entries[j]
         /\ raced \subseteq raced' /\ raced' \subseteq raced \cup {i}
         /\ \A c \in PoolClients : Calls(c, "picked") /\ call[c].id = i => i \in raced'
         /\ late \subseteq late' /\ late' \subseteq late \cup {i}
         /\ \A a \in PoolActors : Writing(a, i) => i \in late'
<1>1. entries' = [entries EXCEPT ![i] = e]
  BY DEF SetEntry
<1>2. /\ raced \subseteq raced' /\ raced' \subseteq raced \cup {i}
      /\ \A c \in PoolClients : Calls(c, "picked") /\ call[c].id = i => i \in raced'
  BY DEF SetEntry
<1>3. /\ late \subseteq late' /\ late' \subseteq late \cup {i}
      /\ \A a \in PoolActors : Writing(a, i) => i \in late'
  BY DEF SetEntry
<1> QED BY <1>1, <1>2, <1>3 DEF PoolTypes

(* A step that is about other entries keeps the order of the writes of i. *)
OnEntry(a, i) ==
  Writing(a, i) \/ (call[a].id = i /\ (Calls(a, "append") \/ call[a].op = "Delete"))
LEMMA InOrderFrame ==
  ASSUME NEW i \in ProxyIds, InOrder(i), entries'[i] = entries[i],
         proxyHash'[i].fc = proxyHash[i].fc, i \in enabledSet' <=> i \in enabledSet,
         \A a \in PoolActors : call'[a] = call[a] \/ (~OnEntry(a, i) /\ ~OnEntry(a, i)')
  PROVE  InOrder(i)'
<1>1. \A a \in PoolActors : Writing(a, i)' => Writing(a, i) /\ call'[a] = call[a]
  BY DEF OnEntry, Writing
<1>2. \A a \in PoolActors : Writing(a, i) => Writing(a, i)' /\ call'[a] = call[a]
  BY DEF OnEntry, Writing
<1>3. \A a \in PoolActors : Saving(a, i)' <=> Saving(a, i)
  BY <1>1, <1>2 DEF Saving
<1>4. \A a \in PoolActors : Saving(a, i) => call'[a] = call[a]
  BY <1>2 DEF Saving
<1>5. \A a \in PoolActors : call'[a].id = i =>
        /\ Calls(a, "member")' => proxyHash'[i].fc = call'[a].entry.fc
        /\ Calls(a, "append")' => (i \in enabledSet' => call'[a].entry.enabled)
        /\ Calls(a, "count")' => entries'[i].here
        /\ call'[a].op = "Delete" => \A b \in PoolActors : ~Saving(b, i)'
  BY <1>3 DEF InOrder, OnEntry, Writing, Calls
<1> QED BY <1>1, <1>3, <1>4, <1>5 DEF InOrder

(* While Add appends its entry nobody else has a call on it. *)
LEMMA AppendAlone ==
  ASSUME PoolInv, NEW b \in PoolActors, call[b].step = "append",
         NEW a \in PoolActors, a # b, call[a].step # "idle"
  PROVE  call[a].id # call[b].id
<1>1. b = Dashboard /\ call[b].op = "Add"
  BY Actors DEF PoolInv, PoolShape, ClientShape, DashboardShape
<1> QED BY <1>1, Actors DEF PoolInv, FreshIds

(* A deletion is past its writes of the entry. *)
LEMMA DeletesNotSaves ==
  ASSUME PoolInv, NEW a \in PoolActors, call[a].step \in {"hset", "member", "count"}
  PROVE  call[a].op # "Delete"
  BY Actors DEF PoolInv, PoolShape, ClientShape, DashboardShape
-----------------------------------------------------------------------------
(* The writes of a goroutine                                               *)

LEMMA ForgetTransportKeeps ==
  ASSUME PoolInv, NEW a \in PoolActors, ForgetTransport(a)
  PROVE  PoolInv'
<1>0. PoolTypes
  BY DEF PoolInv
<1>1. PICK i \in ProxyIds : i = call[a].id /\ call[a].step = "forget"
  BY <1>0 DEF PoolInv, PoolShape, PoolTypes, ForgetTransport, Calls
<1>2. /\ call' \in [PoolActors -> PoolCallRecord]
      /\ call'[a].step = (IF call[a].op = "Delete" THEN "del" ELSE "hset")
      /\ call'[a].id = i /\ call'[a].entry = call[a].entry /\ call'[a].op = call[a].op
      /\ \A b \in PoolActors \ {a} : call'[b] = call[b]
  BY <1>0, <1>1, ThenGoes DEF ForgetTransport, PoolSteps
<1>3. /\ transports' \in [ProxyIds -> Addresses \cup {NoAddress}]
      /\ transports'[i] = NoAddress /\ \A j \in ProxyIds \ {i} : transports'[j] = transports[j]
      /\ UNCHANGED <<entries, proxyHash, enabledSet, touches, usedIds, deleted, raced, late>>
  BY <1>0, <1>1 DEF ForgetTransport, PoolTypes
<1>4. PoolTypes'
  BY <1>0, <1>1, <1>2, <1>3, Actors, NoEntryFields DEF PoolTypes
<1>5. PoolShape'
  <2>1. \A b \in PoolActors : call'[b].step # "idle" => call'[b].id \in usedIds'
    BY <1>0, <1>1, <1>2, <1>3 DEF PoolInv, PoolShape
  <2>2. ASSUME NEW c \in PoolClients PROVE ClientShape(c)'
    BY <1>0, <1>1, <1>2, <1>3, <2>2, Actors, NoEntryFields DEF PoolInv, PoolShape, ClientShape
  <2>3. DashboardShape(Dashboard)'
    <3>1. CASE a = Dashboard
      BY <1>0, <1>1, <1>2, <1>3, <3>1, NoEntryFields DEF PoolInv, PoolShape, DashboardShape
    <3>2. CASE a # Dashboard
      BY <1>0, <1>1, <1>2, <1>3, <3>2, Actors, NoEntryFields DEF PoolInv, PoolShape, DashboardShape, ClientShape
    <3> QED BY <3>1, <3>2
  <2>4. \A j \in ProxyIds : ~entries'[j].here => entries'[j] = NoEntry
    BY <1>0, <1>1, <1>2, <1>3, NoEntryFields DEF PoolInv, PoolShape
  <2> QED BY <2>1, <2>2, <2>3, <2>4 DEF PoolShape
<1>6. FreshIds'
  <2>1. \A b \in PoolActors : call[b].step # "idle" => call[b].id \in usedIds
    BY DEF PoolInv, PoolShape
  <2>2. \A j \in ProxyIds \ usedIds' : entries'[j] = NoEntry /\ proxyHash'[j] = NoEntry
                                       /\ transports'[j] = NoAddress
    BY <1>0, <1>1, <1>2, <1>3, <2>1 DEF PoolInv, FreshIds
  <2>3. enabledSet' \cup touches' \cup deleted' \subseteq usedIds'
    BY <1>0, <1>1, <1>2, <1>3, <2>1 DEF PoolInv, FreshIds
  <2>4. call'[Dashboard].op = "Add" =>
          /\ transports'[call'[Dashboard].id] = NoAddress
          /\ \A c \in PoolClients : call'[c].step # "idle" => call'[c].id # call'[Dashboard].id
    <3>0. call[Dashboard].op = "Add" => call[Dashboard].id \in ProxyIds
      BY <1>0, <1>1, <1>2, <1>3, <2>1, Actors DEF PoolInv, PoolShape, DashboardShape, PoolTypes
    <3>1. CASE a = Dashboard
      BY <1>0, <1>1, <1>2, <1>3, <2>1, <3>0, <3>1, Actors DEF PoolInv, FreshIds, PoolTypes
    <3>2. CASE a # Dashboard
      <4>1. call'[Dashboard] = call[Dashboard] /\ a \in PoolClients
        BY <1>0, <1>1, <1>2, <1>3, <3>2, Actors
      <4>2. call[Dashboard].op = "Add" => transports'[call[Dashboard].id] = NoAddress
        BY <1>0, <1>1, <1>2, <1>3, <3>0, <4>1 DEF PoolInv, FreshIds
      <4> QED BY <1>0, <1>1, <1>2, <1>3, <2>1, <4>1, <4>2, Actors DEF PoolInv, FreshIds
    <3> QED BY <3>1, <3>2
  <2> QED BY <2>2, <2>3, <2>4 DEF FreshIds
<1>7. PickedCurrent'
  <2>1. \A c \in PoolClients : call[c].step # "idle" => call[c].id \in ProxyIds
    BY <1>0, Actors DEF PoolInv, PoolShape, PoolTypes
  <2> QED BY <1>0, <1>1, <1>2, <1>3, <2>1, Actors DEF PoolInv, PickedCurrent, Calls
<1>8. TransportCurrent'
  BY <1>0, <1>1, <1>2, <1>3, Actors, NoEntryFields DEF PoolInv, TransportCurrent, Calls
<1>9. DeletedOff'
  BY <1>0, <1>1, <1>2, <1>3, Actors, NoEntryFields DEF PoolInv, DeletedOff, DeletedStaysOff, enabled
<1>10. WritesInOrder'
  <2> SUFFICES ASSUME NEW j \in ProxyIds \ late' PROVE InOrder(j)'
    BY DEF WritesInOrder
  <2>1. InOrder(j)
    BY <1>0, <1>1, <1>2, <1>3 DEF PoolInv, WritesInOrder
  <2>2. CASE j # i
    <3>1. ~OnEntry(a, j) /\ ~OnEntry(a, j)'
      BY <1>0, <1>1, <1>2, <1>3, <2>2, Actors DEF OnEntry, Writing, Calls, PoolInv, PoolShape, ClientShape, DashboardShape
    <3> QED BY <1>0, <1>1, <1>2, <1>3, <2>1, <2>2, <3>1, InOrderFrame
  <2>3. CASE j = i
    <3>1. \A b \in PoolActors : Writing(b, i) => b = a
      BY <1>0, <1>1, <1>2, <1>3, <2>1, <2>3 DEF InOrder, Writing
    <3>2. \A b \in PoolActors : call'[b].id = i =>
            call'[b].step # "append" /\ call'[b].step # "count" /\ call'[b].step # "member"
      BY <1>0, <1>1, <1>2, <1>3, <3>1, AppendAlone DEF Writing
    <3>3. CASE call[a].op = "Delete"
      <4>1. \A b \in PoolActors : ~Writing(b, i)' /\ ~Saving(b, i)'
        BY <1>0, <1>1, <1>2, <1>3, <3>1, <3>3 DEF Writing, Saving
      <4>2. \A b \in PoolActors : ~Saving(b, i)
        BY <3>1, <3>3 DEF Saving
      <4> QED BY <1>0, <1>1, <1>2, <1>3, <3>2, <4>1, <4>2, <2>1, <2>3 DEF InOrder, Calls
    <3>4. CASE call[a].op # "Delete"
      <4>1. Saving(a, i)' /\ call'[a].step # "count" /\ \A b \in PoolActors : Writing(b, i)' => b = a
        BY <1>0, <1>1, <1>2, <1>3, <3>1, <3>4 DEF Writing, Saving
      <4>2. \A b \in PoolActors : call'[b].id = i => call'[b].op # "Delete"
        BY <1>0, <1>1, <1>2, <1>3, <2>1, <2>3, <3>4 DEF InOrder, Saving, Writing
      <4> QED BY <1>0, <1>1, <1>2, <1>3, <3>1, <3>2, <4>1, <4>2, <2>1, <2>3 DEF InOrder, Writing, Calls
    <3> QED BY <3>3, <3>4
  <2> QED BY <2>2, <2>3
<1> QED BY <1>4, <1>5, <1>6, <1>7, <1>8, <1>9, <1>10 DEF PoolInv

LEMMA SaveProxyHashKeeps ==
  ASSUME PoolInv, NEW a \in PoolActors, SaveProxyHash(a)
  PROVE  PoolInv'
<1>0. PoolTypes
  BY DEF PoolInv
<1>1. PICK i \in ProxyIds : i = call[a].id /\ call[a].step = "hset"
  BY <1>0 DEF PoolInv, PoolShape, PoolTypes, SaveProxyHash, HashSaved, Calls
<1>2. /\ call' \in [PoolActors -> PoolCallRecord]
      /\ call'[a].step = "member"
      /\ call'[a].id = i /\ call'[a].entry = call[a].entry /\ call'[a].op = call[a].op
      /\ \A b \in PoolActors \ {a} : call'[b] = call[b]
  BY <1>0, <1>1, ThenGoes DEF SaveProxyHash, HashSaved, PoolSteps
<1>3. /\ proxyHash' \in [ProxyIds -> ProxyEntry]
      /\ proxyHash'[i].fc = call[a].entry.fc
      /\ \A j \in ProxyIds \ {i} : proxyHash'[j] = proxyHash[j]
      /\ UNCHANGED <<entries, transports, enabledSet, touches, usedIds, deleted, raced, late>>
  <2>1. /\ entryToDTO(call[a].entry) \in ProxyEntry
        /\ entryToDTO(call[a].entry).fc = call[a].entry.fc
    BY <1>0 DEF PoolTypes, PoolCallRecord, ProxyEntry, entryToDTO
  <2> QED BY <1>0, <1>1, <2>1 DEF SaveProxyHash, HashSaved, PoolTypes
<1>4. PoolTypes'
  BY <1>0, <1>1, <1>2, <1>3, Actors, NoEntryFields DEF PoolTypes
<1>5. PoolShape'
  <2>1. \A b \in PoolActors : call'[b].step # "idle" => call'[b].id \in usedIds'
    BY <1>0, <1>1, <1>2, <1>3 DEF PoolInv, PoolShape
  <2>2. ASSUME NEW c \in PoolClients PROVE ClientShape(c)'
    BY <1>0, <1>1, <1>2, <1>3, <2>2, Actors, NoEntryFields DEF PoolInv, PoolShape, ClientShape
  <2>3. DashboardShape(Dashboard)'
    <3>1. CASE a = Dashboard
      BY <1>0, <1>1, <1>2, <1>3, <3>1, NoEntryFields DEF PoolInv, PoolShape, DashboardShape
    <3>2. CASE a # Dashboard
      BY <1>0, <1>1, <1>2, <1>3, <3>2, Actors, NoEntryFields DEF PoolInv, PoolShape, DashboardShape, ClientShape
    <3> QED BY <3>1, <3>2
  <2>4. \A j \in ProxyIds : ~entries'[j].here => entries'[j] = NoEntry
    BY <1>0, <1>1, <1>2, <1>3, NoEntryFields DEF PoolInv, PoolShape
  <2> QED BY <2>1, <2>2, <2>3, <2>4 DEF PoolShape
<1>6. FreshIds'
  <2>1. \A b \in PoolActors : call[b].step # "idle" => call[b].id \in usedIds
    BY DEF PoolInv, PoolShape
  <2>2. \A j \in ProxyIds \ usedIds' : entries'[j] = NoEntry /\ proxyHash'[j] = NoEntry
                                       /\ transports'[j] = NoAddress
    BY <1>0, <1>1, <1>2, <1>3, <2>1 DEF PoolInv, FreshIds
  <2>3. enabledSet' \cup touches' \cup deleted' \subseteq usedIds'
    BY <1>0, <1>1, <1>2, <1>3, <2>1 DEF PoolInv, FreshIds
  <2>4. call'[Dashboard].op = "Add" =>
          /\ transports'[call'[Dashboard].id] = NoAddress
          /\ \A c \in PoolClients : call'[c].step # "idle" => call'[c].id # call'[Dashboard].id
    <3>0. call[Dashboard].op = "Add" => call[Dashboard].id \in ProxyIds
      BY <1>0, <1>1, <1>2, <1>3, <2>1, Actors DEF PoolInv, PoolShape, DashboardShape, PoolTypes
    <3>1. CASE a = Dashboard
      BY <1>0, <1>1, <1>2, <1>3, <2>1, <3>0, <3>1, Actors DEF PoolInv, FreshIds, PoolTypes
    <3>2. CASE a # Dashboard
      <4>1. call'[Dashboard] = call[Dashboard] /\ a \in PoolClients
        BY <1>0, <1>1, <1>2, <1>3, <3>2, Actors
      <4>2. call[Dashboard].op = "Add" => transports'[call[Dashboard].id] = NoAddress
        BY <1>0, <1>1, <1>2, <1>3, <3>0, <4>1 DEF PoolInv, FreshIds
      <4> QED BY <1>0, <1>1, <1>2, <1>3, <2>1, <4>1, <4>2, Actors DEF PoolInv, FreshIds
    <3> QED BY <3>1, <3>2
  <2> QED BY <2>2, <2>3, <2>4 DEF FreshIds
<1>7. PickedCurrent'
  <2>1. \A c \in PoolClients : call[c].step # "idle" => call[c].id \in ProxyIds
    BY <1>0, Actors DEF PoolInv, PoolShape, PoolTypes
  <2> QED BY <1>0, <1>1, <1>2, <1>3, <2>1, Actors DEF PoolInv, PickedCurrent, Calls
<1>8. TransportCurrent'
  BY <1>0, <1>1, <1>2, <1>3, Actors, NoEntryFields DEF PoolInv, TransportCurrent, Calls
<1>9. DeletedOff'
  BY <1>0, <1>1, <1>2, <1>3, Actors, NoEntryFields DEF PoolInv, DeletedOff, DeletedStaysOff, enabled
<1>10. WritesInOrder'
  <2> SUFFICES ASSUME NEW j \in ProxyIds \ late' PROVE InOrder(j)'
    BY DEF WritesInOrder
  <2>1. InOrder(j)
    BY <1>0, <1>1, <1>2, <1>3 DEF PoolInv, WritesInOrder
  <2>2. CASE j # i
    <3>1. ~OnEntry(a, j) /\ ~OnEntry(a, j)'
      BY <1>0, <1>1, <1>2, <1>3, <2>2, Actors DEF OnEntry, Writing, Calls, PoolInv, PoolShape, ClientShape, DashboardShape
    <3> QED BY <1>0, <1>1, <1>2, <1>3, <2>1, <2>2, <3>1, InOrderFrame
  <2>3. CASE j = i
    <3>1. \A b \in PoolActors : Writing(b, i) => b = a
      BY <1>0, <1>1, <1>2, <1>3, <2>1, <2>3 DEF InOrder, Writing
    <3>2. Writing(a, i)' /\ \A b \in PoolActors : Writing(b, i)' => b = a
      BY <1>0, <1>1, <1>2, <1>3, <3>1 DEF Writing
    <3>3. Saving(a, i)' /\ call'[a].step # "count"
      BY <1>0, <1>1, <1>2, <1>3, <3>2, DeletesNotSaves DEF Saving
    <3>4. \A b \in PoolActors : call'[b].id = i => call'[b].step # "append" /\ call'[b].step # "count"
      BY <1>0, <1>1, <1>2, <1>3, <3>2, <3>3, AppendAlone DEF Writing
    <3>5. \A b \in PoolActors : call'[b].id = i => call'[b].op # "Delete"
      BY <1>0, <1>1, <1>2, <1>3, <2>1, <2>3, DeletesNotSaves DEF InOrder, Saving, Writing
    <3> QED BY <1>0, <1>1, <1>2, <1>3, <3>1, <3>2, <3>3, <3>4, <3>5, <2>1, <2>3 DEF InOrder, Writing, Calls
  <2> QED BY <2>2, <2>3
<1> QED BY <1>4, <1>5, <1>6, <1>7, <1>8, <1>9, <1>10 DEF PoolInv

LEMMA SaveProxyMemberKeeps ==
  ASSUME PoolInv, NEW a \in PoolActors, SaveProxyMember(a) \/ SaveProxyMemberFails(a)
  PROVE  PoolInv'
<1>0. PoolTypes
  BY DEF PoolInv
<1>1. PICK i \in ProxyIds : i = call[a].id /\ call[a].step = "member"
  BY <1>0 DEF PoolInv, PoolShape, PoolTypes, SaveProxyMember, SaveProxyMemberFails, Calls
<1>2. /\ call' \in [PoolActors -> PoolCallRecord]
      /\ call[a].op = "Add" =>
           /\ call'[a].step = "append" /\ call'[a].id = i
           /\ call'[a].entry = call[a].entry /\ call'[a].op = "Add"
      /\ call[a].op # "Add" => call'[a].step = "idle" /\ call'[a].op = "none"
      /\ \A b \in PoolActors \ {a} : call'[b] = call[b]
  <2>1. CASE call[a].op = "Add"
    BY <1>0, <1>1, <2>1, ThenGoes DEF SaveProxyMember, SaveProxyMemberFails, AfterMember, PoolSteps
  <2>2. CASE call[a].op # "Add"
    BY <1>0, <2>2, ReturnsIdle DEF SaveProxyMember, SaveProxyMemberFails, AfterMember
  <2> QED BY <2>1, <2>2
<1>3. /\ enabledSet' \subseteq ProxyIds
      /\ i \in enabledSet' => i \in enabledSet \/ call[a].entry.enabled
      /\ i \notin late' => (i \in enabledSet' <=> call[a].entry.enabled)
      /\ \A j \in ProxyIds \ {i} : j \in enabledSet' <=> j \in enabledSet
      /\ late \subseteq late' /\ late' \subseteq ProxyIds
      /\ UNCHANGED <<entries, transports, proxyHash, touches, usedIds, deleted, raced>>
  <2>1. CASE SaveProxyMember(a)
    BY <1>0, <1>1, <2>1 DEF SaveProxyMember, PoolTypes
  <2>2. CASE SaveProxyMemberFails(a)
    BY <1>0, <1>1, <2>2 DEF SaveProxyMemberFails, PoolTypes
  <2> QED BY <2>1, <2>2
<1>4. PoolTypes'
  BY <1>0, <1>1, <1>2, <1>3, Actors, NoEntryFields DEF PoolTypes
<1>5. PoolShape'
  <2>1. \A b \in PoolActors : call'[b].step # "idle" => call'[b].id \in usedIds'
    BY <1>0, <1>1, <1>2, <1>3 DEF PoolInv, PoolShape
  <2>2. ASSUME NEW c \in PoolClients PROVE ClientShape(c)'
    BY <1>0, <1>1, <1>2, <1>3, <2>2, Actors, NoEntryFields DEF PoolInv, PoolShape, ClientShape
  <2>3. DashboardShape(Dashboard)'
    <3>1. CASE a = Dashboard
      BY <1>0, <1>1, <1>2, <1>3, <3>1, NoEntryFields DEF PoolInv, PoolShape, DashboardShape
    <3>2. CASE a # Dashboard
      BY <1>0, <1>1, <1>2, <1>3, <3>2, Actors, NoEntryFields DEF PoolInv, PoolShape, DashboardShape, ClientShape
    <3> QED BY <3>1, <3>2
  <2>4. \A j \in ProxyIds : ~entries'[j].here => entries'[j] = NoEntry
    BY <1>0, <1>1, <1>2, <1>3, NoEntryFields DEF PoolInv, PoolShape
  <2> QED BY <2>1, <2>2, <2>3, <2>4 DEF PoolShape
<1>6. FreshIds'
  <2>1. \A b \in PoolActors : call[b].step # "idle" => call[b].id \in usedIds
    BY DEF PoolInv, PoolShape
  <2>2. \A j \in ProxyIds \ usedIds' : entries'[j] = NoEntry /\ proxyHash'[j] = NoEntry
                                       /\ transports'[j] = NoAddress
    BY <1>0, <1>1, <1>2, <1>3, <2>1 DEF PoolInv, FreshIds
  <2>3. enabledSet' \cup touches' \cup deleted' \subseteq usedIds'
    BY <1>0, <1>1, <1>2, <1>3, <2>1 DEF PoolInv, FreshIds
  <2>4. call'[Dashboard].op = "Add" =>
          /\ transports'[call'[Dashboard].id] = NoAddress
          /\ \A c \in PoolClients : call'[c].step # "idle" => call'[c].id # call'[Dashboard].id
    <3>0. call[Dashboard].op = "Add" => call[Dashboard].id \in ProxyIds
      BY <1>0, <1>1, <1>2, <1>3, <2>1, Actors DEF PoolInv, PoolShape, DashboardShape, PoolTypes
    <3>1. CASE a = Dashboard
      BY <1>0, <1>1, <1>2, <1>3, <2>1, <3>0, <3>1, Actors DEF PoolInv, FreshIds, PoolTypes
    <3>2. CASE a # Dashboard
      <4>1. call'[Dashboard] = call[Dashboard] /\ a \in PoolClients
        BY <1>0, <1>1, <1>2, <1>3, <3>2, Actors
      <4>2. call[Dashboard].op = "Add" => transports'[call[Dashboard].id] = NoAddress
        BY <1>0, <1>1, <1>2, <1>3, <3>0, <4>1 DEF PoolInv, FreshIds
      <4> QED BY <1>0, <1>1, <1>2, <1>3, <2>1, <4>1, <4>2, Actors DEF PoolInv, FreshIds
    <3> QED BY <3>1, <3>2
  <2> QED BY <2>2, <2>3, <2>4 DEF FreshIds
<1>7. PickedCurrent'
  <2>1. \A c \in PoolClients : call[c].step # "idle" => call[c].id \in ProxyIds
    BY <1>0, Actors DEF PoolInv, PoolShape, PoolTypes
  <2> QED BY <1>0, <1>1, <1>2, <1>3, <2>1, Actors DEF PoolInv, PickedCurrent, Calls
<1>8. TransportCurrent'
  BY <1>0, <1>1, <1>2, <1>3, Actors, NoEntryFields DEF PoolInv, TransportCurrent, Calls
<1>9. DeletedOff'
  <2>1. CASE a = Dashboard
    BY <1>0, <1>1, <1>2, <1>3, <2>1, Actors DEF PoolInv, PoolShape, DashboardShape, DeletedOff, DeletedStaysOff, enabled
  <2>2. CASE a # Dashboard
    BY <1>0, <1>1, <1>2, <1>3, <2>2, Actors DEF PoolInv, PoolShape, ClientShape, DeletedOff, DeletedStaysOff, enabled
  <2> QED BY <2>1, <2>2
<1>10. WritesInOrder'
  <2> SUFFICES ASSUME NEW j \in ProxyIds \ late' PROVE InOrder(j)'
    BY DEF WritesInOrder
  <2>1. InOrder(j)
    BY <1>0, <1>1, <1>2, <1>3 DEF PoolInv, WritesInOrder
  <2>2. CASE j # i
    <3>1. ~OnEntry(a, j) /\ ~OnEntry(a, j)'
      BY <1>0, <1>1, <1>2, <1>3, <2>2, Actors DEF OnEntry, Writing, Calls, PoolInv, PoolShape, ClientShape, DashboardShape
    <3> QED BY <1>0, <1>1, <1>2, <1>3, <2>1, <2>2, <3>1, InOrderFrame
  <2>3. CASE j = i
    <3>1. \A b \in PoolActors : Writing(b, i) => b = a
      BY <1>0, <1>1, <1>2, <1>3, <2>1, <2>3 DEF InOrder, Writing
    <3>2. \A b \in PoolActors : ~Writing(b, i)' /\ ~Saving(b, i)'
      BY <1>0, <1>1, <1>2, <1>3, <3>1 DEF Writing, Saving
    <3>3. \A b \in PoolActors : call'[b].id = i =>
            /\ call'[b].step # "count" /\ call'[b].step # "member"
            /\ call'[b].step = "append" => b = a
      BY <1>0, <1>1, <1>2, <1>3, <3>2, AppendAlone DEF Writing
    <3>4. CASE call[a].op = "Add"
      <4>1. a = Dashboard /\ entries[i] = NoEntry /\ call[a].entry.fc = 0
        BY <1>0, <1>1, <1>2, <1>3, <3>4, Actors DEF PoolInv, PoolShape, ClientShape, DashboardShape
      <4> QED BY <1>0, <1>1, <1>2, <1>3, <2>1, <2>3, <3>2, <3>3, <3>4, <4>1, NoEntryFields, PoolAssumption
              DEF InOrder, Calls
    <3>5. CASE call[a].op # "Add"
      <4>1. call[a].entry = entries[i] /\ proxyHash[i].fc = entries[i].fc
        BY <1>0, <1>1, <1>2, <1>3, <2>1, <2>3, <3>5 DEF InOrder, Writing, Calls
      <4> QED BY <1>0, <1>1, <1>2, <1>3, <2>1, <2>3, <3>2, <3>3, <3>5, <4>1 DEF InOrder, Calls
    <3> QED BY <3>4, <3>5
  <2> QED BY <2>2, <2>3
<1> QED BY <1>4, <1>5, <1>6, <1>7, <1>8, <1>9, <1>10 DEF PoolInv

LEMMA UpdateProxyFailCountKeeps ==
  ASSUME PoolInv, NEW a \in PoolActors, UpdateProxyFailCount(a)
  PROVE  PoolInv'
<1>0. PoolTypes
  BY DEF PoolInv
<1>1. PICK i \in ProxyIds : i = call[a].id /\ call[a].step = "count"
  BY <1>0 DEF PoolInv, PoolShape, PoolTypes, UpdateProxyFailCount, Calls
<1>2. a \in PoolClients /\ call[a].op # "Add" /\ call[a].op # "Delete"
  BY <1>1, Actors DEF PoolInv, PoolShape, ClientShape, DashboardShape
<1>3. /\ call' \in [PoolActors -> PoolCallRecord]
      /\ call'[a].step = "idle" /\ call'[a].op = "none"
      /\ \A b \in PoolActors \ {a} : call'[b] = call[b]
  BY <1>0, ReturnsIdle DEF UpdateProxyFailCount
<1>4. /\ proxyHash' \in [ProxyIds -> ProxyEntry]
      /\ proxyHash'[i].fc = call[a].entry.fc
      /\ \A j \in ProxyIds \ {i} : proxyHash'[j] = proxyHash[j]
      /\ UNCHANGED <<entries, transports, enabledSet, touches, usedIds, deleted, raced, late>>
  <2> DEFINE h == [proxyHash[i] EXCEPT !.here = TRUE, !.fc = call[a].entry.fc]
  <2>0. proxyHash[i] \in ProxyEntry /\ call[a].entry \in ProxyEntry
    BY <1>0 DEF PoolTypes, PoolCallRecord
  <2>1. h \in ProxyEntry /\ h.fc = call[a].entry.fc
    BY <2>0 DEF ProxyEntry
  <2>2. proxyHash' = [proxyHash EXCEPT ![i] = h]
    BY <1>0, <1>1 DEF UpdateProxyFailCount, PoolTypes
  <2>3. UNCHANGED <<entries, transports, enabledSet, touches, usedIds, deleted, raced, late>>
    BY DEF UpdateProxyFailCount
  <2> HIDE DEF h
  <2> QED BY <1>0, <1>1, <2>1, <2>2, <2>3 DEF PoolTypes
<1>5. PoolTypes'
  BY <1>0, <1>1, <1>2, <1>3, <1>4, Actors, NoEntryFields DEF PoolTypes
<1>6. PoolShape'
  <2>1. \A b \in PoolActors : call'[b].step # "idle" => call'[b].id \in usedIds'
    BY <1>0, <1>1, <1>2, <1>3, <1>4 DEF PoolInv, PoolShape
  <2>2. ASSUME NEW c \in PoolClients PROVE ClientShape(c)'
    BY <1>0, <1>1, <1>2, <1>3, <1>4, <2>2, Actors, NoEntryFields DEF PoolInv, PoolShape, ClientShape
  <2>3. DashboardShape(Dashboard)'
    <3>1. CASE a = Dashboard
      BY <1>0, <1>1, <1>2, <1>3, <1>4, <3>1, NoEntryFields DEF PoolInv, PoolShape, DashboardShape
    <3>2. CASE a # Dashboard
      BY <1>0, <1>1, <1>2, <1>3, <1>4, <3>2, Actors, NoEntryFields DEF PoolInv, PoolShape, DashboardShape, ClientShape
    <3> QED BY <3>1, <3>2
  <2>4. \A j \in ProxyIds : ~entries'[j].here => entries'[j] = NoEntry
    BY <1>0, <1>1, <1>2, <1>3, <1>4, NoEntryFields DEF PoolInv, PoolShape
  <2> QED BY <2>1, <2>2, <2>3, <2>4 DEF PoolShape
<1>7. FreshIds'
  <2>1. \A b \in PoolActors : call[b].step # "idle" => call[b].id \in usedIds
    BY DEF PoolInv, PoolShape
  <2>2. \A j \in ProxyIds \ usedIds' : entries'[j] = NoEntry /\ proxyHash'[j] = NoEntry
                                       /\ transports'[j] = NoAddress
    BY <1>0, <1>1, <1>2, <1>3, <1>4, <2>1 DEF PoolInv, FreshIds
  <2>3. enabledSet' \cup touches' \cup deleted' \subseteq usedIds'
    BY <1>0, <1>1, <1>2, <1>3, <1>4, <2>1 DEF PoolInv, FreshIds
  <2>4. call'[Dashboard].op = "Add" =>
          /\ transports'[call'[Dashboard].id] = NoAddress
          /\ \A c \in PoolClients : call'[c].step # "idle" => call'[c].id # call'[Dashboard].id
    <3>0. call[Dashboard].op = "Add" => call[Dashboard].id \in ProxyIds
      BY <1>0, <1>1, <1>2, <1>3, <1>4, <2>1, Actors DEF PoolInv, PoolShape, DashboardShape, PoolTypes
    <3>1. CASE a = Dashboard
      BY <1>0, <1>1, <1>2, <1>3, <1>4, <2>1, <3>0, <3>1, Actors DEF PoolInv, FreshIds, PoolTypes
    <3>2. CASE a # Dashboard
      <4>1. call'[Dashboard] = call[Dashboard] /\ a \in PoolClients
        BY <1>0, <1>1, <1>2, <1>3, <1>4, <3>2, Actors
      <4>2. call[Dashboard].op = "Add" => transports'[call[Dashboard].id] = NoAddress
        BY <1>0, <1>1, <1>2, <1>3, <1>4, <3>0, <4>1 DEF PoolInv, FreshIds
      <4> QED BY <1>0, <1>1, <1>2, <1>3, <1>4, <2>1, <4>1, <4>2, Actors DEF PoolInv, FreshIds
    <3> QED BY <3>1, <3>2
  <2> QED BY <2>2, <2>3, <2>4 DEF FreshIds
<1>8. PickedCurrent'
  <2>1. \A c \in PoolClients : call[c].step # "idle" => call[c].id \in ProxyIds
    BY <1>0, Actors DEF PoolInv, PoolShape, PoolTypes
  <2> QED BY <1>0, <1>1, <1>2, <1>3, <1>4, <2>1, Actors DEF PoolInv, PickedCurrent, Calls
<1>9. TransportCurrent'
  BY <1>0, <1>1, <1>2, <1>3, <1>4, Actors, NoEntryFields DEF PoolInv, TransportCurrent, Calls
<1>10. DeletedOff'
  BY <1>0, <1>1, <1>2, <1>3, <1>4, Actors, NoEntryFields DEF PoolInv, DeletedOff, DeletedStaysOff, enabled
<1>11. WritesInOrder'
  <2> SUFFICES ASSUME NEW j \in ProxyIds \ late' PROVE InOrder(j)'
    BY DEF WritesInOrder
  <2>1. InOrder(j)
    BY <1>0, <1>1, <1>2, <1>3, <1>4 DEF PoolInv, WritesInOrder
  <2>2. CASE j # i
    <3>1. ~OnEntry(a, j) /\ ~OnEntry(a, j)'
      BY <1>0, <1>1, <1>2, <1>3, <1>4, <2>2, Actors DEF OnEntry, Writing, Calls, PoolInv, PoolShape, ClientShape, DashboardShape
    <3> QED BY <1>0, <1>1, <1>2, <1>3, <1>4, <2>1, <2>2, <3>1, InOrderFrame
  <2>3. CASE j = i
    <3>1. \A b \in PoolActors : Writing(b, i) => b = a
      BY <1>0, <1>1, <1>2, <1>3, <1>4, <2>1, <2>3 DEF InOrder, Writing
    <3>2. \A b \in PoolActors : ~Writing(b, i)' /\ ~Saving(b, i)'
      BY <1>0, <1>1, <1>2, <1>3, <1>4, <3>1 DEF Writing, Saving
    <3>3. \A b \in PoolActors : Saving(b, i) => call[b].step = "count"
      BY <1>0, <1>1, <1>2, <1>3, <1>4, <3>1 DEF Saving
    <3>4. call[a].entry = entries[i] /\ entries[i].here
      BY <1>0, <1>1, <1>2, <1>3, <1>4, <2>1, <2>3 DEF InOrder, Writing, Calls
    <3>5. \A b \in PoolActors : call'[b].id = i =>
            /\ call'[b].step # "count" /\ call'[b].step # "member" /\ call'[b].step # "append"
      BY <1>0, <1>1, <1>2, <1>3, <1>4, <3>2, AppendAlone DEF Writing
    <3> QED BY <1>0, <1>1, <1>2, <1>3, <1>4, <2>1, <2>3, <3>2, <3>3, <3>4, <3>5 DEF InOrder, Calls
  <2> QED BY <2>2, <2>3
<1> QED BY <1>5, <1>6, <1>7, <1>8, <1>9, <1>10, <1>11 DEF PoolInv

LEMMA DeleteProxyHashKeeps ==
  ASSUME PoolInv, NEW a \in PoolActors, DeleteProxyHash(a)
  PROVE  PoolInv'
<1>0. PoolTypes
  BY DEF PoolInv
<1>1. PICK i \in ProxyIds : i = call[a].id /\ call[a].step = "del"
  BY <1>0 DEF PoolInv, PoolShape, PoolTypes, DeleteProxyHash, HashDeleted, Calls
<1>2. a = Dashboard /\ call[a].op = "Delete"
  BY <1>1, Actors DEF PoolInv, PoolShape, ClientShape, DashboardShape
<1>3. /\ call' \in [PoolActors -> PoolCallRecord]
      /\ call'[a].step = "srem"
      /\ call'[a].id = i /\ call'[a].entry = call[a].entry /\ call'[a].op = call[a].op
      /\ \A b \in PoolActors \ {a} : call'[b] = call[b]
  BY <1>0, <1>1, ThenGoes DEF DeleteProxyHash, HashDeleted, PoolSteps
<1>4. /\ proxyHash' \in [ProxyIds -> ProxyEntry] /\ proxyHash'[i] = NoEntry
      /\ \A j \in ProxyIds \ {i} : proxyHash'[j] = proxyHash[j]
      /\ UNCHANGED <<entries, transports, enabledSet, touches, usedIds, deleted, raced, late>>
  BY <1>0, <1>1, NoEntryFields DEF DeleteProxyHash, HashDeleted, PoolTypes
<1>5. PoolTypes'
  BY <1>0, <1>1, <1>2, <1>3, <1>4, Actors, NoEntryFields DEF PoolTypes
<1>6. PoolShape'
  <2>1. \A b \in PoolActors : call'[b].step # "idle" => call'[b].id \in usedIds'
    BY <1>0, <1>1, <1>2, <1>3, <1>4 DEF PoolInv, PoolShape
  <2>2. ASSUME NEW c \in PoolClients PROVE ClientShape(c)'
    BY <1>0, <1>1, <1>2, <1>3, <1>4, <2>2, Actors, NoEntryFields DEF PoolInv, PoolShape, ClientShape
  <2>3. DashboardShape(Dashboard)'
    <3>1. CASE a = Dashboard
      BY <1>0, <1>1, <1>2, <1>3, <1>4, <3>1, NoEntryFields DEF PoolInv, PoolShape, DashboardShape
    <3>2. CASE a # Dashboard
      BY <1>0, <1>1, <1>2, <1>3, <1>4, <3>2, Actors, NoEntryFields DEF PoolInv, PoolShape, DashboardShape, ClientShape
    <3> QED BY <3>1, <3>2
  <2>4. \A j \in ProxyIds : ~entries'[j].here => entries'[j] = NoEntry
    BY <1>0, <1>1, <1>2, <1>3, <1>4, NoEntryFields DEF PoolInv, PoolShape
  <2> QED BY <2>1, <2>2, <2>3, <2>4 DEF PoolShape
<1>7. FreshIds'
  <2>1. \A b \in PoolActors : call[b].step # "idle" => call[b].id \in usedIds
    BY DEF PoolInv, PoolShape
  <2>2. \A j \in ProxyIds \ usedIds' : entries'[j] = NoEntry /\ proxyHash'[j] = NoEntry
                                       /\ transports'[j] = NoAddress
    BY <1>0, <1>1, <1>2, <1>3, <1>4, <2>1 DEF PoolInv, FreshIds
  <2>3. enabledSet' \cup touches' \cup deleted' \subseteq usedIds'
    BY <1>0, <1>1, <1>2, <1>3, <1>4, <2>1 DEF PoolInv, FreshIds
  <2>4. call'[Dashboard].op = "Add" =>
          /\ transports'[call'[Dashboard].id] = NoAddress
          /\ \A c \in PoolClients : call'[c].step # "idle" => call'[c].id # call'[Dashboard].id
    <3>0. call[Dashboard].op = "Add" => call[Dashboard].id \in ProxyIds
      BY <1>0, <1>1, <1>2, <1>3, <1>4, <2>1, Actors DEF PoolInv, PoolShape, DashboardShape, PoolTypes
    <3>1. CASE a = Dashboard
      BY <1>0, <1>1, <1>2, <1>3, <1>4, <2>1, <3>0, <3>1, Actors DEF PoolInv, FreshIds, PoolTypes
    <3>2. CASE a # Dashboard
      <4>1. call'[Dashboard] = call[Dashboard] /\ a \in PoolClients
        BY <1>0, <1>1, <1>2, <1>3, <1>4, <3>2, Actors
      <4>2. call[Dashboard].op = "Add" => transports'[call[Dashboard].id] = NoAddress
        BY <1>0, <1>1, <1>2, <1>3, <1>4, <3>0, <4>1 DEF PoolInv, FreshIds
      <4> QED BY <1>0, <1>1, <1>2, <1>3, <1>4, <2>1, <4>1, <4>2, Actors DEF PoolInv, FreshIds
    <3> QED BY <3>1, <3>2
  <2> QED BY <2>2, <2>3, <2>4 DEF FreshIds
<1>8. PickedCurrent'
  <2>1. \A c \in PoolClients : call[c].step # "idle" => call[c].id \in ProxyIds
    BY <1>0, Actors DEF PoolInv, PoolShape, PoolTypes
  <2> QED BY <1>0, <1>1, <1>2, <1>3, <1>4, <2>1, Actors DEF PoolInv, PickedCurrent, Calls
<1>9. TransportCurrent'
  BY <1>0, <1>1, <1>2, <1>3, <1>4, Actors, NoEntryFields DEF PoolInv, TransportCurrent, Calls
<1>10. DeletedOff'
  BY <1>0, <1>1, <1>2, <1>3, <1>4, Actors, NoEntryFields DEF PoolInv, DeletedOff, DeletedStaysOff, enabled
<1>11. WritesInOrder'
  <2> SUFFICES ASSUME NEW j \in ProxyIds \ late' PROVE InOrder(j)'
    BY DEF WritesInOrder
  <2>1. InOrder(j)
    BY <1>0, <1>1, <1>2, <1>3, <1>4 DEF PoolInv, WritesInOrder
  <2>2. CASE j # i
    <3>1. ~OnEntry(a, j) /\ ~OnEntry(a, j)'
      BY <1>0, <1>1, <1>2, <1>3, <1>4, <2>2, Actors DEF OnEntry, Writing, Calls, PoolInv, PoolShape, ClientShape, DashboardShape
    <3> QED BY <1>0, <1>1, <1>2, <1>3, <1>4, <2>1, <2>2, <3>1, InOrderFrame
  <2>3. CASE j = i
    <3>1. \A b \in PoolActors : ~Saving(b, i)
      BY <1>0, <1>1, <1>2, <1>3, <1>4, <2>1, <2>3 DEF InOrder
    <3>2. \A b \in PoolActors : ~Saving(b, i)' /\ ~Writing(b, i)'
      BY <1>0, <1>1, <1>2, <1>3, <1>4, <3>1, Actors DEF Saving, Writing, PoolInv, PoolShape, ClientShape
    <3>3. \A b \in PoolActors : call'[b].id = i =>
            /\ call'[b].step # "count" /\ call'[b].step # "member" /\ call'[b].step # "append"
      BY <1>0, <1>1, <1>2, <1>3, <1>4, <3>2, AppendAlone DEF Writing
    <3> QED BY <1>0, <1>1, <1>2, <1>3, <1>4, <2>1, <2>3, <3>1, <3>2, <3>3, NoEntryFields, PoolAssumption DEF InOrder, Calls
  <2> QED BY <2>2, <2>3
<1> QED BY <1>5, <1>6, <1>7, <1>8, <1>9, <1>10, <1>11 DEF PoolInv

LEMMA DeleteProxyMemberKeeps ==
  ASSUME PoolInv, NEW a \in PoolActors, DeleteProxyMember(a) \/ DeleteProxyMemberFails(a)
  PROVE  PoolInv'
<1>0. PoolTypes
  BY DEF PoolInv
<1>1. PICK i \in ProxyIds : i = call[a].id /\ call[a].step = "srem"
  BY <1>0 DEF PoolInv, PoolShape, PoolTypes, DeleteProxyMember, DeleteProxyMemberFails, Calls
<1>2. a = Dashboard /\ call[a].op = "Delete" /\ entries[i] = NoEntry
  BY <1>1, Actors DEF PoolInv, PoolShape, ClientShape, DashboardShape
<1>3. /\ call' \in [PoolActors -> PoolCallRecord]
      /\ call'[a].step = "idle" /\ call'[a].op = "none"
      /\ \A b \in PoolActors \ {a} : call'[b] = call[b]
  BY <1>0, ReturnsIdle DEF DeleteProxyMember, DeleteProxyMemberFails
<1>4. /\ enabledSet' \subseteq enabledSet /\ enabledSet \subseteq enabledSet' \cup {i}
      /\ deleted' \in {deleted, deleted \cup {i}}
      /\ (i \in deleted' => (i \in deleted \/ i \notin enabledSet'))
      /\ UNCHANGED <<entries, transports, proxyHash, touches, usedIds, raced, late>>
  <2>1. CASE DeleteProxyMember(a)
    BY <1>1, <2>1 DEF DeleteProxyMember
  <2>2. CASE DeleteProxyMemberFails(a)
    BY <2>2 DEF DeleteProxyMemberFails
  <2> QED BY <2>1, <2>2
<1>5. PoolTypes'
  BY <1>0, <1>1, <1>2, <1>3, <1>4, Actors, NoEntryFields DEF PoolTypes
<1>6. PoolShape'
  <2>1. \A b \in PoolActors : call'[b].step # "idle" => call'[b].id \in usedIds'
    BY <1>0, <1>1, <1>2, <1>3, <1>4 DEF PoolInv, PoolShape
  <2>2. ASSUME NEW c \in PoolClients PROVE ClientShape(c)'
    BY <1>0, <1>1, <1>2, <1>3, <1>4, <2>2, Actors, NoEntryFields DEF PoolInv, PoolShape, ClientShape
  <2>3. DashboardShape(Dashboard)'
    <3>1. CASE a = Dashboard
      BY <1>0, <1>1, <1>2, <1>3, <1>4, <3>1, NoEntryFields DEF PoolInv, PoolShape, DashboardShape
    <3>2. CASE a # Dashboard
      BY <1>0, <1>1, <1>2, <1>3, <1>4, <3>2, Actors, NoEntryFields DEF PoolInv, PoolShape, DashboardShape, ClientShape
    <3> QED BY <3>1, <3>2
  <2>4. \A j \in ProxyIds : ~entries'[j].here => entries'[j] = NoEntry
    BY <1>0, <1>1, <1>2, <1>3, <1>4, NoEntryFields DEF PoolInv, PoolShape
  <2> QED BY <2>1, <2>2, <2>3, <2>4 DEF PoolShape
<1>7. FreshIds'
  <2>1. \A b \in PoolActors : call[b].step # "idle" => call[b].id \in usedIds
    BY DEF PoolInv, PoolShape
  <2>2. \A j \in ProxyIds \ usedIds' : entries'[j] = NoEntry /\ proxyHash'[j] = NoEntry
                                       /\ transports'[j] = NoAddress
    BY <1>0, <1>1, <1>2, <1>3, <1>4, <2>1 DEF PoolInv, FreshIds
  <2>3. enabledSet' \cup touches' \cup deleted' \subseteq usedIds'
    BY <1>0, <1>1, <1>2, <1>3, <1>4, <2>1 DEF PoolInv, FreshIds
  <2>4. call'[Dashboard].op = "Add" =>
          /\ transports'[call'[Dashboard].id] = NoAddress
          /\ \A c \in PoolClients : call'[c].step # "idle" => call'[c].id # call'[Dashboard].id
    <3>0. call[Dashboard].op = "Add" => call[Dashboard].id \in ProxyIds
      BY <1>0, <1>1, <1>2, <1>3, <1>4, <2>1, Actors DEF PoolInv, PoolShape, DashboardShape, PoolTypes
    <3>1. CASE a = Dashboard
      BY <1>0, <1>1, <1>2, <1>3, <1>4, <2>1, <3>0, <3>1, Actors DEF PoolInv, FreshIds, PoolTypes
    <3>2. CASE a # Dashboard
      <4>1. call'[Dashboard] = call[Dashboard] /\ a \in PoolClients
        BY <1>0, <1>1, <1>2, <1>3, <1>4, <3>2, Actors
      <4>2. call[Dashboard].op = "Add" => transports'[call[Dashboard].id] = NoAddress
        BY <1>0, <1>1, <1>2, <1>3, <1>4, <3>0, <4>1 DEF PoolInv, FreshIds
      <4> QED BY <1>0, <1>1, <1>2, <1>3, <1>4, <2>1, <4>1, <4>2, Actors DEF PoolInv, FreshIds
    <3> QED BY <3>1, <3>2
  <2> QED BY <2>2, <2>3, <2>4 DEF FreshIds
<1>8. PickedCurrent'
  <2>1. \A c \in PoolClients : call[c].step # "idle" => call[c].id \in ProxyIds
    BY <1>0, Actors DEF PoolInv, PoolShape, PoolTypes
  <2> QED BY <1>0, <1>1, <1>2, <1>3, <1>4, <2>1, Actors DEF PoolInv, PickedCurrent, Calls
<1>9. TransportCurrent'
  BY <1>0, <1>1, <1>2, <1>3, <1>4, Actors, NoEntryFields DEF PoolInv, TransportCurrent, Calls
<1>10. DeletedOff'
  BY <1>0, <1>1, <1>2, <1>3, <1>4, Actors, NoEntryFields DEF PoolInv, DeletedOff, DeletedStaysOff, enabled
<1>11. WritesInOrder'
  <2> SUFFICES ASSUME NEW j \in ProxyIds \ late' PROVE InOrder(j)'
    BY DEF WritesInOrder
  <2>1. InOrder(j)
    BY <1>0, <1>1, <1>2, <1>3, <1>4 DEF PoolInv, WritesInOrder
  <2>2. CASE j # i
    <3>1. ~OnEntry(a, j) /\ ~OnEntry(a, j)'
      BY <1>0, <1>1, <1>2, <1>3, <1>4, <2>2, Actors DEF OnEntry, Writing, Calls, PoolInv, PoolShape, ClientShape, DashboardShape
    <3> QED BY <1>0, <1>1, <1>2, <1>3, <1>4, <2>1, <2>2, <3>1, InOrderFrame
  <2>3. CASE j = i
    <3>1. \A b \in PoolActors : ~Saving(b, i)
      BY <1>0, <1>1, <1>2, <1>3, <1>4, <2>1, <2>3 DEF InOrder
    <3>2. \A b \in PoolActors : ~Saving(b, i)' /\ ~Writing(b, i)'
      BY <1>0, <1>1, <1>2, <1>3, <1>4, <3>1, Actors DEF Saving, Writing, PoolInv, PoolShape, ClientShape
    <3>3. \A b \in PoolActors : call'[b].id = i =>
            /\ call'[b].step # "count" /\ call'[b].step # "member" /\ call'[b].step # "append"
      BY <1>0, <1>1, <1>2, <1>3, <1>4, <3>2, AppendAlone DEF Writing
    <3> QED BY <1>0, <1>1, <1>2, <1>3, <1>4, <2>1, <2>3, <3>1, <3>2, <3>3 DEF InOrder, Calls
  <2> QED BY <2>2, <2>3
<1> QED BY <1>5, <1>6, <1>7, <1>8, <1>9, <1>10, <1>11 DEF PoolInv

LEMMA RedisRefusesKeeps ==
  ASSUME PoolInv, NEW a \in PoolActors, RedisRefuses(a)
  PROVE  PoolInv'
<1>0. PoolTypes
  BY DEF PoolInv
<1>1. PICK i \in ProxyIds : i = call[a].id /\ call[a].step \in {"hset", "del", "count"}
  BY <1>0 DEF PoolInv, PoolShape, PoolTypes, RedisRefuses, Calls
<1>2. /\ call' \in [PoolActors -> PoolCallRecord]
      /\ call'[a].step = "idle" /\ call'[a].op = "none"
      /\ \A b \in PoolActors \ {a} : call'[b] = call[b]
  BY <1>0, ReturnsIdle DEF RedisRefuses
<1>3. /\ late' = late \cup {i}
      /\ proxyHash' \in [ProxyIds -> ProxyEntry]
      /\ \A j \in ProxyIds \ {i} : proxyHash'[j] = proxyHash[j]
      /\ UNCHANGED <<entries, transports, enabledSet, touches, usedIds, deleted, raced>>
  <2>1. PICK e \in ProxyEntry : e = entryToDTO(call[a].entry)
    BY <1>0 DEF entryToDTO, PoolTypes, PoolCallRecord, ProxyEntry
  <2>2. proxyHash' \in {proxyHash, [proxyHash EXCEPT ![i] = e], [proxyHash EXCEPT ![i] = NoEntry]}
    BY <1>1, <2>1 DEF RedisRefuses, HashSaved, HashDeleted
  <2>3. late' = late \cup {i} /\ UNCHANGED <<entries, transports, enabledSet, touches, usedIds, deleted, raced>>
    BY <1>1 DEF RedisRefuses
  <2> QED BY <1>0, <2>2, <2>3, NoEntryFields DEF PoolTypes
<1>4. PoolTypes'
  BY <1>0, <1>1, <1>2, <1>3, Actors, NoEntryFields DEF PoolTypes
<1>5. PoolShape'
  <2>1. \A b \in PoolActors : call'[b].step # "idle" => call'[b].id \in usedIds'
    BY <1>0, <1>1, <1>2, <1>3 DEF PoolInv, PoolShape
  <2>2. ASSUME NEW c \in PoolClients PROVE ClientShape(c)'
    BY <1>0, <1>1, <1>2, <1>3, <2>2, Actors, NoEntryFields DEF PoolInv, PoolShape, ClientShape
  <2>3. DashboardShape(Dashboard)'
    <3>1. CASE a = Dashboard
      BY <1>0, <1>1, <1>2, <1>3, <3>1, NoEntryFields DEF PoolInv, PoolShape, DashboardShape
    <3>2. CASE a # Dashboard
      BY <1>0, <1>1, <1>2, <1>3, <3>2, Actors, NoEntryFields DEF PoolInv, PoolShape, DashboardShape, ClientShape
    <3> QED BY <3>1, <3>2
  <2>4. \A j \in ProxyIds : ~entries'[j].here => entries'[j] = NoEntry
    BY <1>0, <1>1, <1>2, <1>3, NoEntryFields DEF PoolInv, PoolShape
  <2> QED BY <2>1, <2>2, <2>3, <2>4 DEF PoolShape
<1>6. FreshIds'
  <2>1. \A b \in PoolActors : call[b].step # "idle" => call[b].id \in usedIds
    BY DEF PoolInv, PoolShape
  <2>2. \A j \in ProxyIds \ usedIds' : entries'[j] = NoEntry /\ proxyHash'[j] = NoEntry
                                       /\ transports'[j] = NoAddress
    BY <1>0, <1>1, <1>2, <1>3, <2>1 DEF PoolInv, FreshIds
  <2>3. enabledSet' \cup touches' \cup deleted' \subseteq usedIds'
    BY <1>0, <1>1, <1>2, <1>3, <2>1 DEF PoolInv, FreshIds
  <2>4. call'[Dashboard].op = "Add" =>
          /\ transports'[call'[Dashboard].id] = NoAddress
          /\ \A c \in PoolClients : call'[c].step # "idle" => call'[c].id # call'[Dashboard].id
    <3>0. call[Dashboard].op = "Add" => call[Dashboard].id \in ProxyIds
      BY <1>0, <1>1, <1>2, <1>3, <2>1, Actors DEF PoolInv, PoolShape, DashboardShape, PoolTypes
    <3>1. CASE a = Dashboard
      BY <1>0, <1>1, <1>2, <1>3, <2>1, <3>0, <3>1, Actors DEF PoolInv, FreshIds, PoolTypes
    <3>2. CASE a # Dashboard
      <4>1. call'[Dashboard] = call[Dashboard] /\ a \in PoolClients
        BY <1>0, <1>1, <1>2, <1>3, <3>2, Actors
      <4>2. call[Dashboard].op = "Add" => transports'[call[Dashboard].id] = NoAddress
        BY <1>0, <1>1, <1>2, <1>3, <3>0, <4>1 DEF PoolInv, FreshIds
      <4> QED BY <1>0, <1>1, <1>2, <1>3, <2>1, <4>1, <4>2, Actors DEF PoolInv, FreshIds
    <3> QED BY <3>1, <3>2
  <2> QED BY <2>2, <2>3, <2>4 DEF FreshIds
<1>7. PickedCurrent'
  <2>1. \A c \in PoolClients : call[c].step # "idle" => call[c].id \in ProxyIds
    BY <1>0, Actors DEF PoolInv, PoolShape, PoolTypes
  <2> QED BY <1>0, <1>1, <1>2, <1>3, <2>1, Actors DEF PoolInv, PickedCurrent, Calls
<1>8. TransportCurrent'
  BY <1>0, <1>1, <1>2, <1>3, Actors, NoEntryFields DEF PoolInv, TransportCurrent, Calls
<1>9. DeletedOff'
  BY <1>0, <1>1, <1>2, <1>3, Actors, NoEntryFields DEF PoolInv, DeletedOff, DeletedStaysOff, enabled
<1>10. WritesInOrder'
  <2> SUFFICES ASSUME NEW j \in ProxyIds \ late' PROVE InOrder(j)'
    BY DEF WritesInOrder
  <2>1. InOrder(j)
    BY <1>0, <1>1, <1>2, <1>3 DEF PoolInv, WritesInOrder
  <2>2. j # i
    BY <1>3
  <2> QED BY <1>0, <1>1, <1>2, <1>3, <2>1, <2>2, InOrderFrame DEF OnEntry, Writing, Calls
<1> QED BY <1>4, <1>5, <1>6, <1>7, <1>8, <1>9, <1>10 DEF PoolInv

-----------------------------------------------------------------------------
(* The operator                                                            *)

LEMMA AddKeeps ==
  ASSUME PoolInv, NEW a \in PoolActors, NEW i \in ProxyIds, NEW addr \in Addresses \cup {NoAddress},
         NEW on \in BOOLEAN, Add(a, i, addr, on)
  PROVE  PoolInv'
<1>0. PoolTypes
  BY DEF PoolInv
<1>1. a = Dashboard /\ call[a].step = "idle" /\ i \notin usedIds
  BY DEF Add, Calls
<1>2. PICK e \in ProxyEntry : e = NewEntry(addr, on) /\ e.fc = 0 /\ e.here
  BY NewEntryFields
<1>3. /\ call' \in [PoolActors -> PoolCallRecord]
      /\ call'[a].step = "hset" /\ call'[a].id = i
      /\ call'[a].entry = e /\ call'[a].op = "Add"
      /\ \A b \in PoolActors \ {a} : call'[b] = call[b]
  BY <1>0, <1>2, StepsTo DEF Add, PoolSteps, PoolOps
<1>4. usedIds' = usedIds \cup {i} /\ UNCHANGED <<entries, transports, proxyHash, enabledSet, touches, deleted, raced, late>>
  BY DEF Add
<1>5. /\ entries[i] = NoEntry /\ transports[i] = NoAddress /\ i \notin deleted
      /\ \A b \in PoolActors : call[b].step # "idle" => call[b].id # i
  BY <1>1 DEF PoolInv, FreshIds, PoolShape
<1>6. PoolTypes'
  BY <1>0, <1>1, <1>2, <1>3, <1>4, <1>5, Actors, NoEntryFields DEF PoolTypes
<1>7. PoolShape'
  <2>1. \A b \in PoolActors : call'[b].step # "idle" => call'[b].id \in usedIds'
    BY <1>0, <1>1, <1>2, <1>3, <1>4, <1>5 DEF PoolInv, PoolShape
  <2>2. ASSUME NEW c \in PoolClients PROVE ClientShape(c)'
    BY <1>0, <1>1, <1>2, <1>3, <1>4, <1>5, <2>2, Actors, NoEntryFields DEF PoolInv, PoolShape, ClientShape
  <2>3. DashboardShape(Dashboard)'
    <3>1. CASE a = Dashboard
      BY <1>0, <1>1, <1>2, <1>3, <1>4, <1>5, <3>1, NoEntryFields DEF PoolInv, PoolShape, DashboardShape
    <3>2. CASE a # Dashboard
      BY <1>0, <1>1, <1>2, <1>3, <1>4, <1>5, <3>2, Actors, NoEntryFields DEF PoolInv, PoolShape, DashboardShape, ClientShape
    <3> QED BY <3>1, <3>2
  <2>4. \A j \in ProxyIds : ~entries'[j].here => entries'[j] = NoEntry
    BY <1>0, <1>1, <1>2, <1>3, <1>4, <1>5, NoEntryFields DEF PoolInv, PoolShape
  <2> QED BY <2>1, <2>2, <2>3, <2>4 DEF PoolShape
<1>8. FreshIds'
  <2>1. \A b \in PoolActors : call[b].step # "idle" => call[b].id \in usedIds
    BY DEF PoolInv, PoolShape
  <2>2. \A j \in ProxyIds \ usedIds' : entries'[j] = NoEntry /\ proxyHash'[j] = NoEntry
                                       /\ transports'[j] = NoAddress
    BY <1>0, <1>1, <1>2, <1>3, <1>4, <1>5, <2>1 DEF PoolInv, FreshIds
  <2>3. enabledSet' \cup touches' \cup deleted' \subseteq usedIds'
    BY <1>0, <1>1, <1>2, <1>3, <1>4, <1>5, <2>1 DEF PoolInv, FreshIds
  <2>4. call'[Dashboard].op = "Add" =>
          /\ transports'[call'[Dashboard].id] = NoAddress
          /\ \A c \in PoolClients : call'[c].step # "idle" => call'[c].id # call'[Dashboard].id
    <3>0. call[Dashboard].op = "Add" => call[Dashboard].id \in ProxyIds
      BY <1>0, <1>1, <1>2, <1>3, <1>4, <1>5, <2>1, Actors DEF PoolInv, PoolShape, DashboardShape, PoolTypes
    <3>1. CASE a = Dashboard
      BY <1>0, <1>1, <1>2, <1>3, <1>4, <1>5, <2>1, <3>0, <3>1, Actors DEF PoolInv, FreshIds, PoolTypes
    <3>2. CASE a # Dashboard
      <4>1. call'[Dashboard] = call[Dashboard] /\ a \in PoolClients
        BY <1>0, <1>1, <1>2, <1>3, <1>4, <1>5, <3>2, Actors
      <4>2. call[Dashboard].op = "Add" => transports'[call[Dashboard].id] = NoAddress
        BY <1>0, <1>1, <1>2, <1>3, <1>4, <1>5, <3>0, <4>1 DEF PoolInv, FreshIds
      <4> QED BY <1>0, <1>1, <1>2, <1>3, <1>4, <1>5, <2>1, <4>1, <4>2, Actors DEF PoolInv, FreshIds
    <3> QED BY <3>1, <3>2
  <2> QED BY <2>2, <2>3, <2>4 DEF FreshIds
<1>9. PickedCurrent'
  <2>1. \A c \in PoolClients : call[c].step # "idle" => call[c].id \in ProxyIds
    BY <1>0, Actors DEF PoolInv, PoolShape, PoolTypes
  <2> QED BY <1>0, <1>1, <1>2, <1>3, <1>4, <1>5, <2>1, Actors DEF PoolInv, PickedCurrent, Calls
<1>10. TransportCurrent'
  BY <1>0, <1>1, <1>2, <1>3, <1>4, <1>5, Actors, NoEntryFields DEF PoolInv, TransportCurrent, Calls
<1>11. DeletedOff'
  BY <1>0, <1>1, <1>2, <1>3, <1>4, <1>5, Actors, NoEntryFields DEF PoolInv, DeletedOff, DeletedStaysOff, enabled
<1>12. WritesInOrder'
  <2> SUFFICES ASSUME NEW j \in ProxyIds \ late' PROVE InOrder(j)'
    BY DEF WritesInOrder
  <2>1. InOrder(j)
    BY <1>0, <1>1, <1>2, <1>3, <1>4, <1>5 DEF PoolInv, WritesInOrder
  <2>2. CASE j # i
    <3>1. ~OnEntry(a, j) /\ ~OnEntry(a, j)'
      BY <1>0, <1>1, <1>2, <1>3, <1>4, <1>5, <2>2, Actors DEF OnEntry, Writing, Calls, PoolInv, PoolShape, ClientShape, DashboardShape
    <3> QED BY <1>0, <1>1, <1>2, <1>3, <1>4, <1>5, <2>1, <2>2, <3>1, InOrderFrame
  <2>3. CASE j = i
    <3>1. \A b \in PoolActors : call'[b].id = i /\ call'[b].step # "idle" => b = a
      BY <1>0, <1>1, <1>2, <1>3, <1>4, <1>5
    <3>2. Saving(a, i)' /\ \A b \in PoolActors : Writing(b, i)' => b = a
      BY <1>0, <1>1, <1>2, <1>3, <1>4, <1>5, <3>1 DEF Saving, Writing
    <3>3. \A b \in PoolActors : call'[b].op = "Delete" => call'[b].step # "idle"
      BY <1>0, <1>1, <1>2, <1>3, <1>4, <1>5, Actors DEF PoolInv, PoolShape, ClientShape, DashboardShape
    <3> QED BY <1>0, <1>1, <1>2, <1>3, <1>4, <1>5, <2>1, <2>3, <3>1, <3>2, <3>3, NoEntryFields DEF InOrder, Calls
  <2> QED BY <2>2, <2>3
<1> QED BY <1>6, <1>7, <1>8, <1>9, <1>10, <1>11, <1>12 DEF PoolInv

LEMMA AddAppendsKeeps ==
  ASSUME PoolInv, NEW a \in PoolActors, AddAppends(a)
  PROVE  PoolInv'
<1>0. PoolTypes
  BY DEF PoolInv
<1>1. PICK i \in ProxyIds : i = call[a].id /\ call[a].step = "append"
  BY <1>0 DEF PoolInv, PoolShape, PoolTypes, AddAppends, Calls
<1>2. a = Dashboard /\ call[a].op = "Add" /\ i \in usedIds
  BY <1>1, Actors DEF PoolInv, PoolShape, ClientShape, DashboardShape
<1>3. PICK e \in ProxyEntry : e = call[a].entry /\ e.fc = 0 /\ e.here
  BY <1>0, <1>1, <1>2 DEF PoolInv, PoolShape, DashboardShape, PoolTypes, PoolCallRecord
<1>4. /\ call' \in [PoolActors -> PoolCallRecord]
      /\ call'[a].step = "idle" /\ call'[a].op = "none"
      /\ \A b \in PoolActors \ {a} : call'[b] = call[b]
  BY <1>0, ReturnsIdle DEF AddAppends
<1>5. /\ entries' \in [ProxyIds -> ProxyEntry] /\ entries'[i] = e
      /\ \A j \in ProxyIds \ {i} : entries'[j] = entries[j]
      /\ raced \subseteq raced' /\ raced' \subseteq raced \cup {i}
      /\ \A c \in PoolClients : Calls(c, "picked") /\ call[c].id = i => i \in raced'
      /\ late \subseteq late' /\ late' \subseteq late \cup {i}
      /\ \A b \in PoolActors : Writing(b, i) => i \in late'
      /\ UNCHANGED <<transports, proxyHash, enabledSet, touches, usedIds, deleted>>
  BY <1>0, <1>1, <1>3, EntrySet DEF AddAppends
<1>6. /\ transports[i] = NoAddress /\ i \notin deleted
      /\ \A b \in PoolActors \ {a} : call[b].step # "idle" => call[b].id # i
  BY <1>1, <1>2, AppendAlone DEF PoolInv, FreshIds, DeletedOff
<1>7. PoolTypes'
  BY <1>0, <1>1, <1>2, <1>3, <1>4, <1>5, <1>6, Actors, NoEntryFields DEF PoolTypes
<1>8. PoolShape'
  <2>1. \A b \in PoolActors : call'[b].step # "idle" => call'[b].id \in usedIds'
    BY <1>0, <1>1, <1>2, <1>3, <1>4, <1>5, <1>6 DEF PoolInv, PoolShape
  <2>2. ASSUME NEW c \in PoolClients PROVE ClientShape(c)'
    BY <1>0, <1>1, <1>2, <1>3, <1>4, <1>5, <1>6, <2>2, Actors, NoEntryFields DEF PoolInv, PoolShape, ClientShape
  <2>3. DashboardShape(Dashboard)'
    <3>1. CASE a = Dashboard
      BY <1>0, <1>1, <1>2, <1>3, <1>4, <1>5, <1>6, <3>1, NoEntryFields DEF PoolInv, PoolShape, DashboardShape
    <3>2. CASE a # Dashboard
      BY <1>0, <1>1, <1>2, <1>3, <1>4, <1>5, <1>6, <3>2, Actors, NoEntryFields DEF PoolInv, PoolShape, DashboardShape, ClientShape
    <3> QED BY <3>1, <3>2
  <2>4. \A j \in ProxyIds : ~entries'[j].here => entries'[j] = NoEntry
    BY <1>0, <1>1, <1>2, <1>3, <1>4, <1>5, <1>6, NoEntryFields DEF PoolInv, PoolShape
  <2> QED BY <2>1, <2>2, <2>3, <2>4 DEF PoolShape
<1>9. FreshIds'
  <2>1. \A b \in PoolActors : call[b].step # "idle" => call[b].id \in usedIds
    BY DEF PoolInv, PoolShape
  <2>2. \A j \in ProxyIds \ usedIds' : entries'[j] = NoEntry /\ proxyHash'[j] = NoEntry
                                       /\ transports'[j] = NoAddress
    BY <1>0, <1>1, <1>2, <1>3, <1>4, <1>5, <1>6, <2>1 DEF PoolInv, FreshIds
  <2>3. enabledSet' \cup touches' \cup deleted' \subseteq usedIds'
    BY <1>0, <1>1, <1>2, <1>3, <1>4, <1>5, <1>6, <2>1 DEF PoolInv, FreshIds
  <2>4. call'[Dashboard].op = "Add" =>
          /\ transports'[call'[Dashboard].id] = NoAddress
          /\ \A c \in PoolClients : call'[c].step # "idle" => call'[c].id # call'[Dashboard].id
    <3>0. call[Dashboard].op = "Add" => call[Dashboard].id \in ProxyIds
      BY <1>0, <1>1, <1>2, <1>3, <1>4, <1>5, <1>6, <2>1, Actors DEF PoolInv, PoolShape, DashboardShape, PoolTypes
    <3>1. CASE a = Dashboard
      BY <1>0, <1>1, <1>2, <1>3, <1>4, <1>5, <1>6, <2>1, <3>0, <3>1, Actors DEF PoolInv, FreshIds, PoolTypes
    <3>2. CASE a # Dashboard
      <4>1. call'[Dashboard] = call[Dashboard] /\ a \in PoolClients
        BY <1>0, <1>1, <1>2, <1>3, <1>4, <1>5, <1>6, <3>2, Actors
      <4>2. call[Dashboard].op = "Add" => transports'[call[Dashboard].id] = NoAddress
        BY <1>0, <1>1, <1>2, <1>3, <1>4, <1>5, <1>6, <3>0, <4>1 DEF PoolInv, FreshIds
      <4> QED BY <1>0, <1>1, <1>2, <1>3, <1>4, <1>5, <1>6, <2>1, <4>1, <4>2, Actors DEF PoolInv, FreshIds
    <3> QED BY <3>1, <3>2
  <2> QED BY <2>2, <2>3, <2>4 DEF FreshIds
<1>10. PickedCurrent'
  <2>1. \A c \in PoolClients : call[c].step # "idle" => call[c].id \in ProxyIds
    BY <1>0, Actors DEF PoolInv, PoolShape, PoolTypes
  <2> QED BY <1>0, <1>1, <1>2, <1>3, <1>4, <1>5, <1>6, <2>1, Actors DEF PoolInv, PickedCurrent, Calls
<1>11. TransportCurrent'
  BY <1>0, <1>1, <1>2, <1>3, <1>4, <1>5, <1>6, Actors, NoEntryFields DEF PoolInv, TransportCurrent, Calls
<1>12. DeletedOff'
  BY <1>0, <1>1, <1>2, <1>3, <1>4, <1>5, <1>6, Actors, NoEntryFields DEF PoolInv, DeletedOff, DeletedStaysOff, enabled
<1>13. WritesInOrder'
  <2> SUFFICES ASSUME NEW j \in ProxyIds \ late' PROVE InOrder(j)'
    BY DEF WritesInOrder
  <2>1. InOrder(j)
    BY <1>0, <1>1, <1>2, <1>3, <1>4, <1>5, <1>6 DEF PoolInv, WritesInOrder
  <2>2. CASE j # i
    <3>1. ~OnEntry(a, j) /\ ~OnEntry(a, j)'
      BY <1>0, <1>1, <1>2, <1>3, <1>4, <1>5, <1>6, <2>2, Actors DEF OnEntry, Writing, Calls, PoolInv, PoolShape, ClientShape, DashboardShape
    <3> QED BY <1>0, <1>1, <1>2, <1>3, <1>4, <1>5, <1>6, <2>1, <2>2, <3>1, InOrderFrame
  <2>3. CASE j = i
    <3>1. \A b \in PoolActors : ~Saving(b, i) /\ ~Saving(b, i)' /\ ~Writing(b, i)'
      BY <1>0, <1>1, <1>2, <1>3, <1>4, <1>5, <1>6 DEF Saving, Writing
    <3>2. \A b \in PoolActors : call'[b].id = i =>
            /\ call'[b].step # "count" /\ call'[b].step # "member" /\ call'[b].step # "append"
      BY <1>0, <1>1, <1>2, <1>3, <1>4, <1>5, <1>6
    <3> QED BY <1>0, <1>1, <1>2, <1>3, <1>4, <1>5, <1>6, <2>1, <2>3, <3>1, <3>2, PoolAssumption DEF InOrder, Calls
  <2> QED BY <2>2, <2>3
<1> QED BY <1>7, <1>8, <1>9, <1>10, <1>11, <1>12, <1>13 DEF PoolInv

LEMMA HandleUpdateProxyKeeps ==
  ASSUME PoolInv, NEW a \in PoolActors, NEW i \in ProxyIds, NEW addr \in Addresses \cup {NoAddress},
         HandleUpdateProxy(a, i, addr)
  PROVE  PoolInv'
<1>0. PoolTypes
  BY DEF PoolInv
<1>1. a = Dashboard /\ call[a].step = "idle" /\ entries[i].here /\ i \in usedIds
  BY NoEntryFields DEF HandleUpdateProxy, Calls, PoolInv, FreshIds
<1>2. PICK on \in BOOLEAN : call' = Step(a, "update", i, NewEntry(addr, on), "Update")
  BY <1>0 DEF HandleUpdateProxy, PoolTypes, ProxyEntry
<1>3. PICK e \in ProxyEntry : e = NewEntry(addr, on) /\ e.fc = 0 /\ e.here
  BY NewEntryFields
<1>4. /\ call' \in [PoolActors -> PoolCallRecord]
      /\ call'[a].step = "update" /\ call'[a].id = i
      /\ call'[a].entry = e /\ call'[a].op = "Update"
      /\ \A b \in PoolActors \ {a} : call'[b] = call[b]
  <2>1. PICK s \in PoolSteps, o \in PoolOps : s = "update" /\ o = "Update"
    BY DEF PoolSteps, PoolOps
  <2>2. call' = Step(a, s, i, e, o)
    BY <1>2, <1>3, <2>1
  <2> QED BY <1>0, <2>1, <2>2, StepsTo
<1>5. UNCHANGED <<entries, transports, proxyHash, enabledSet, touches, usedIds, deleted, raced, late>>
  BY DEF HandleUpdateProxy
<1>6. PoolTypes'
  BY <1>0, <1>1, <1>2, <1>3, <1>4, <1>5, Actors, NoEntryFields DEF PoolTypes
<1>7. PoolShape'
  <2>1. \A b \in PoolActors : call'[b].step # "idle" => call'[b].id \in usedIds'
    BY <1>0, <1>1, <1>2, <1>3, <1>4, <1>5 DEF PoolInv, PoolShape
  <2>2. ASSUME NEW c \in PoolClients PROVE ClientShape(c)'
    BY <1>0, <1>1, <1>2, <1>3, <1>4, <1>5, <2>2, Actors, NoEntryFields DEF PoolInv, PoolShape, ClientShape
  <2>3. DashboardShape(Dashboard)'
    <3>1. CASE a = Dashboard
      BY <1>0, <1>1, <1>2, <1>3, <1>4, <1>5, <3>1, NoEntryFields DEF PoolInv, PoolShape, DashboardShape
    <3>2. CASE a # Dashboard
      BY <1>0, <1>1, <1>2, <1>3, <1>4, <1>5, <3>2, Actors, NoEntryFields DEF PoolInv, PoolShape, DashboardShape, ClientShape
    <3> QED BY <3>1, <3>2
  <2>4. \A j \in ProxyIds : ~entries'[j].here => entries'[j] = NoEntry
    BY <1>0, <1>1, <1>2, <1>3, <1>4, <1>5, NoEntryFields DEF PoolInv, PoolShape
  <2> QED BY <2>1, <2>2, <2>3, <2>4 DEF PoolShape
<1>8. FreshIds'
  <2>1. \A b \in PoolActors : call[b].step # "idle" => call[b].id \in usedIds
    BY DEF PoolInv, PoolShape
  <2>2. \A j \in ProxyIds \ usedIds' : entries'[j] = NoEntry /\ proxyHash'[j] = NoEntry
                                       /\ transports'[j] = NoAddress
    BY <1>0, <1>1, <1>2, <1>3, <1>4, <1>5, <2>1 DEF PoolInv, FreshIds
  <2>3. enabledSet' \cup touches' \cup deleted' \subseteq usedIds'
    BY <1>0, <1>1, <1>2, <1>3, <1>4, <1>5, <2>1 DEF PoolInv, FreshIds
  <2>4. call'[Dashboard].op = "Add" =>
          /\ transports'[call'[Dashboard].id] = NoAddress
          /\ \A c \in PoolClients : call'[c].step # "idle" => call'[c].id # call'[Dashboard].id
    <3>0. call[Dashboard].op = "Add" => call[Dashboard].id \in ProxyIds
      BY <1>0, <1>1, <1>2, <1>3, <1>4, <1>5, <2>1, Actors DEF PoolInv, PoolShape, DashboardShape, PoolTypes
    <3>1. CASE a = Dashboard
      BY <1>0, <1>1, <1>2, <1>3, <1>4, <1>5, <2>1, <3>0, <3>1, Actors DEF PoolInv, FreshIds, PoolTypes
    <3>2. CASE a # Dashboard
      <4>1. call'[Dashboard] = call[Dashboard] /\ a \in PoolClients
        BY <1>0, <1>1, <1>2, <1>3, <1>4, <1>5, <3>2, Actors
      <4>2. call[Dashboard].op = "Add" => transports'[call[Dashboard].id] = NoAddress
        BY <1>0, <1>1, <1>2, <1>3, <1>4, <1>5, <3>0, <4>1 DEF PoolInv, FreshIds
      <4> QED BY <1>0, <1>1, <1>2, <1>3, <1>4, <1>5, <2>1, <4>1, <4>2, Actors DEF PoolInv, FreshIds
    <3> QED BY <3>1, <3>2
  <2> QED BY <2>2, <2>3, <2>4 DEF FreshIds
<1>9. PickedCurrent'
  <2>1. \A c \in PoolClients : call[c].step # "idle" => call[c].id \in ProxyIds
    BY <1>0, Actors DEF PoolInv, PoolShape, PoolTypes
  <2> QED BY <1>0, <1>1, <1>2, <1>3, <1>4, <1>5, <2>1, Actors DEF PoolInv, PickedCurrent, Calls
<1>10. TransportCurrent'
  BY <1>0, <1>1, <1>2, <1>3, <1>4, <1>5, Actors, NoEntryFields DEF PoolInv, TransportCurrent, Calls
<1>11. DeletedOff'
  BY <1>0, <1>1, <1>2, <1>3, <1>4, <1>5, Actors, NoEntryFields DEF PoolInv, DeletedOff, DeletedStaysOff, enabled
<1>12. WritesInOrder'
  <2> SUFFICES ASSUME NEW j \in ProxyIds \ late' PROVE InOrder(j)'
    BY DEF WritesInOrder
  <2>1. InOrder(j)
    BY <1>0, <1>1, <1>2, <1>3, <1>4, <1>5 DEF PoolInv, WritesInOrder
  <2>2. ~OnEntry(a, j) /\ ~OnEntry(a, j)'
    BY <1>0, <1>1, <1>2, <1>3, <1>4, <1>5, Actors DEF OnEntry, Writing, Calls, PoolInv, PoolShape, ClientShape, DashboardShape
  <2> QED BY <1>0, <1>1, <1>2, <1>3, <1>4, <1>5, <2>1, <2>2, InOrderFrame
<1> QED BY <1>6, <1>7, <1>8, <1>9, <1>10, <1>11, <1>12 DEF PoolInv

LEMMA UpdateKeeps ==
  ASSUME PoolInv, NEW a \in PoolActors, Update(a)
  PROVE  PoolInv'
<1>0. PoolTypes
  BY DEF PoolInv
<1>1. PICK i \in ProxyIds : i = call[a].id /\ call[a].step = "update"
  BY <1>0 DEF PoolInv, PoolShape, PoolTypes, Update, Calls
<1>2. /\ a = Dashboard /\ call[a].op = "Update" /\ i \in usedIds
      /\ entries[i].here
  BY <1>1, Actors DEF PoolInv, PoolShape, ClientShape, DashboardShape
<1>3. PICK e \in ProxyEntry : e = call[a].entry /\ e.fc = 0 /\ e.here
  BY <1>0, <1>1, <1>2 DEF PoolInv, PoolShape, DashboardShape, PoolTypes, PoolCallRecord
<1>4. /\ call' \in [PoolActors -> PoolCallRecord]
      /\ call'[a].step = "forget" /\ call'[a].id = i
      /\ call'[a].entry = e /\ call'[a].op = "Update"
      /\ \A b \in PoolActors \ {a} : call'[b] = call[b]
  BY <1>0, <1>1, <1>2, <1>3, ThenGoes DEF Update, PoolSteps
<1>5. /\ entries' \in [ProxyIds -> ProxyEntry] /\ entries'[i] = e
      /\ \A j \in ProxyIds \ {i} : entries'[j] = entries[j]
      /\ raced \subseteq raced' /\ raced' \subseteq raced \cup {i}
      /\ \A c \in PoolClients : Calls(c, "picked") /\ call[c].id = i => i \in raced'
      /\ late \subseteq late' /\ late' \subseteq late \cup {i}
      /\ \A b \in PoolActors : Writing(b, i) => i \in late'
      /\ deleted' = deleted \ {i}
      /\ UNCHANGED <<transports, proxyHash, enabledSet, touches, usedIds>>
  BY <1>0, <1>1, <1>3, EntrySet DEF Update
<1>6. PoolTypes'
  BY <1>0, <1>1, <1>2, <1>3, <1>4, <1>5, Actors, NoEntryFields DEF PoolTypes
<1>7. PoolShape'
  <2>1. \A b \in PoolActors : call'[b].step # "idle" => call'[b].id \in usedIds'
    BY <1>0, <1>1, <1>2, <1>3, <1>4, <1>5 DEF PoolInv, PoolShape
  <2>2. ASSUME NEW c \in PoolClients PROVE ClientShape(c)'
    BY <1>0, <1>1, <1>2, <1>3, <1>4, <1>5, <2>2, Actors, NoEntryFields DEF PoolInv, PoolShape, ClientShape
  <2>3. DashboardShape(Dashboard)'
    <3>1. CASE a = Dashboard
      BY <1>0, <1>1, <1>2, <1>3, <1>4, <1>5, <3>1, NoEntryFields DEF PoolInv, PoolShape, DashboardShape
    <3>2. CASE a # Dashboard
      BY <1>0, <1>1, <1>2, <1>3, <1>4, <1>5, <3>2, Actors, NoEntryFields DEF PoolInv, PoolShape, DashboardShape, ClientShape
    <3> QED BY <3>1, <3>2
  <2>4. \A j \in ProxyIds : ~entries'[j].here => entries'[j] = NoEntry
    BY <1>0, <1>1, <1>2, <1>3, <1>4, <1>5, NoEntryFields DEF PoolInv, PoolShape
  <2> QED BY <2>1, <2>2, <2>3, <2>4 DEF PoolShape
<1>8. FreshIds'
  <2>1. \A b \in PoolActors : call[b].step # "idle" => call[b].id \in usedIds
    BY DEF PoolInv, PoolShape
  <2>2. \A j \in ProxyIds \ usedIds' : entries'[j] = NoEntry /\ proxyHash'[j] = NoEntry
                                       /\ transports'[j] = NoAddress
    BY <1>0, <1>1, <1>2, <1>3, <1>4, <1>5, <2>1 DEF PoolInv, FreshIds
  <2>3. enabledSet' \cup touches' \cup deleted' \subseteq usedIds'
    BY <1>0, <1>1, <1>2, <1>3, <1>4, <1>5, <2>1 DEF PoolInv, FreshIds
  <2>4. call'[Dashboard].op = "Add" =>
          /\ transports'[call'[Dashboard].id] = NoAddress
          /\ \A c \in PoolClients : call'[c].step # "idle" => call'[c].id # call'[Dashboard].id
    <3>0. call[Dashboard].op = "Add" => call[Dashboard].id \in ProxyIds
      BY <1>0, <1>1, <1>2, <1>3, <1>4, <1>5, <2>1, Actors DEF PoolInv, PoolShape, DashboardShape, PoolTypes
    <3>1. CASE a = Dashboard
      BY <1>0, <1>1, <1>2, <1>3, <1>4, <1>5, <2>1, <3>0, <3>1, Actors DEF PoolInv, FreshIds, PoolTypes
    <3>2. CASE a # Dashboard
      <4>1. call'[Dashboard] = call[Dashboard] /\ a \in PoolClients
        BY <1>0, <1>1, <1>2, <1>3, <1>4, <1>5, <3>2, Actors
      <4>2. call[Dashboard].op = "Add" => transports'[call[Dashboard].id] = NoAddress
        BY <1>0, <1>1, <1>2, <1>3, <1>4, <1>5, <3>0, <4>1 DEF PoolInv, FreshIds
      <4> QED BY <1>0, <1>1, <1>2, <1>3, <1>4, <1>5, <2>1, <4>1, <4>2, Actors DEF PoolInv, FreshIds
    <3> QED BY <3>1, <3>2
  <2> QED BY <2>2, <2>3, <2>4 DEF FreshIds
<1>9. PickedCurrent'
  <2>1. \A c \in PoolClients : call[c].step # "idle" => call[c].id \in ProxyIds
    BY <1>0, Actors DEF PoolInv, PoolShape, PoolTypes
  <2> QED BY <1>0, <1>1, <1>2, <1>3, <1>4, <1>5, <2>1, Actors DEF PoolInv, PickedCurrent, Calls
<1>10. TransportCurrent'
  BY <1>0, <1>1, <1>2, <1>3, <1>4, <1>5, Actors, NoEntryFields DEF PoolInv, TransportCurrent, Calls
<1>11. DeletedOff'
  BY <1>0, <1>1, <1>2, <1>3, <1>4, <1>5, Actors, NoEntryFields DEF PoolInv, DeletedOff, DeletedStaysOff, enabled
<1>12. WritesInOrder'
  <2> SUFFICES ASSUME NEW j \in ProxyIds \ late' PROVE InOrder(j)'
    BY DEF WritesInOrder
  <2>1. InOrder(j)
    BY <1>0, <1>1, <1>2, <1>3, <1>4, <1>5 DEF PoolInv, WritesInOrder
  <2>2. CASE j # i
    <3>1. ~OnEntry(a, j) /\ ~OnEntry(a, j)'
      BY <1>0, <1>1, <1>2, <1>3, <1>4, <1>5, <2>2, Actors DEF OnEntry, Writing, Calls, PoolInv, PoolShape, ClientShape, DashboardShape
    <3> QED BY <1>0, <1>1, <1>2, <1>3, <1>4, <1>5, <2>1, <2>2, <3>1, InOrderFrame
  <2>3. CASE j = i
    <3>1. \A b \in PoolActors : ~Writing(b, i) /\ ~Saving(b, i)
      BY <1>0, <1>1, <1>2, <1>3, <1>4, <1>5, <2>3 DEF Saving
    <3>2. Saving(a, i)' /\ \A b \in PoolActors : Writing(b, i)' => b = a
      BY <1>0, <1>1, <1>2, <1>3, <1>4, <1>5, <3>1 DEF Saving, Writing
    <3>3. \A b \in PoolActors : call'[b].id = i =>
            /\ call'[b].step # "count" /\ call'[b].step # "member" /\ call'[b].step # "append"
            /\ call'[b].op # "Delete"
      BY <1>0, <1>1, <1>2, <1>3, <1>4, <1>5, <3>1, Actors DEF Writing, PoolInv, PoolShape, ClientShape
    <3> QED BY <1>0, <1>1, <1>2, <1>3, <1>4, <1>5, <2>1, <2>3, <3>2, <3>3, PoolAssumption DEF InOrder, Calls
  <2> QED BY <2>2, <2>3
<1> QED BY <1>6, <1>7, <1>8, <1>9, <1>10, <1>11, <1>12 DEF PoolInv

LEMMA DeleteKeeps ==
  ASSUME PoolInv, NEW a \in PoolActors, NEW i \in ProxyIds, Delete(a, i)
  PROVE  PoolInv'
<1>0. PoolTypes
  BY DEF PoolInv
<1>1. a = Dashboard /\ call[a].step = "idle" /\ entries[i].here /\ i \in usedIds
  BY NoEntryFields DEF Delete, Calls, PoolInv, FreshIds
<1>2. PICK e \in ProxyEntry : e = NoEntry
  BY NoEntryFields
<1>3. /\ call' \in [PoolActors -> PoolCallRecord]
      /\ call'[a].step = "forget" /\ call'[a].id = i
      /\ call'[a].entry = e /\ call'[a].op = "Delete"
      /\ \A b \in PoolActors \ {a} : call'[b] = call[b]
  BY <1>0, <1>2, StepsTo DEF Delete, PoolSteps, PoolOps
<1>4. /\ entries' \in [ProxyIds -> ProxyEntry] /\ entries'[i] = e
      /\ \A j \in ProxyIds \ {i} : entries'[j] = entries[j]
      /\ raced \subseteq raced' /\ raced' \subseteq raced \cup {i}
      /\ \A c \in PoolClients : Calls(c, "picked") /\ call[c].id = i => i \in raced'
      /\ late \subseteq late' /\ late' \subseteq late \cup {i}
      /\ \A b \in PoolActors : Writing(b, i) => i \in late'
      /\ UNCHANGED <<transports, proxyHash, enabledSet, touches, usedIds, deleted>>
  BY <1>0, <1>2, EntrySet DEF Delete
<1>5. PoolTypes'
  BY <1>0, <1>1, <1>2, <1>3, <1>4, Actors, NoEntryFields DEF PoolTypes
<1>6. PoolShape'
  <2>1. \A b \in PoolActors : call'[b].step # "idle" => call'[b].id \in usedIds'
    BY <1>0, <1>1, <1>2, <1>3, <1>4 DEF PoolInv, PoolShape
  <2>2. ASSUME NEW c \in PoolClients PROVE ClientShape(c)'
    BY <1>0, <1>1, <1>2, <1>3, <1>4, <2>2, Actors, NoEntryFields DEF PoolInv, PoolShape, ClientShape
  <2>3. DashboardShape(Dashboard)'
    <3>1. CASE a = Dashboard
      BY <1>0, <1>1, <1>2, <1>3, <1>4, <3>1, NoEntryFields DEF PoolInv, PoolShape, DashboardShape
    <3>2. CASE a # Dashboard
      BY <1>0, <1>1, <1>2, <1>3, <1>4, <3>2, Actors, NoEntryFields DEF PoolInv, PoolShape, DashboardShape, ClientShape
    <3> QED BY <3>1, <3>2
  <2>4. \A j \in ProxyIds : ~entries'[j].here => entries'[j] = NoEntry
    BY <1>0, <1>1, <1>2, <1>3, <1>4, NoEntryFields DEF PoolInv, PoolShape
  <2> QED BY <2>1, <2>2, <2>3, <2>4 DEF PoolShape
<1>7. FreshIds'
  <2>1. \A b \in PoolActors : call[b].step # "idle" => call[b].id \in usedIds
    BY DEF PoolInv, PoolShape
  <2>2. \A j \in ProxyIds \ usedIds' : entries'[j] = NoEntry /\ proxyHash'[j] = NoEntry
                                       /\ transports'[j] = NoAddress
    BY <1>0, <1>1, <1>2, <1>3, <1>4, <2>1 DEF PoolInv, FreshIds
  <2>3. enabledSet' \cup touches' \cup deleted' \subseteq usedIds'
    BY <1>0, <1>1, <1>2, <1>3, <1>4, <2>1 DEF PoolInv, FreshIds
  <2>4. call'[Dashboard].op = "Add" =>
          /\ transports'[call'[Dashboard].id] = NoAddress
          /\ \A c \in PoolClients : call'[c].step # "idle" => call'[c].id # call'[Dashboard].id
    <3>0. call[Dashboard].op = "Add" => call[Dashboard].id \in ProxyIds
      BY <1>0, <1>1, <1>2, <1>3, <1>4, <2>1, Actors DEF PoolInv, PoolShape, DashboardShape, PoolTypes
    <3>1. CASE a = Dashboard
      BY <1>0, <1>1, <1>2, <1>3, <1>4, <2>1, <3>0, <3>1, Actors DEF PoolInv, FreshIds, PoolTypes
    <3>2. CASE a # Dashboard
      <4>1. call'[Dashboard] = call[Dashboard] /\ a \in PoolClients
        BY <1>0, <1>1, <1>2, <1>3, <1>4, <3>2, Actors
      <4>2. call[Dashboard].op = "Add" => transports'[call[Dashboard].id] = NoAddress
        BY <1>0, <1>1, <1>2, <1>3, <1>4, <3>0, <4>1 DEF PoolInv, FreshIds
      <4> QED BY <1>0, <1>1, <1>2, <1>3, <1>4, <2>1, <4>1, <4>2, Actors DEF PoolInv, FreshIds
    <3> QED BY <3>1, <3>2
  <2> QED BY <2>2, <2>3, <2>4 DEF FreshIds
<1>8. PickedCurrent'
  <2>1. \A c \in PoolClients : call[c].step # "idle" => call[c].id \in ProxyIds
    BY <1>0, Actors DEF PoolInv, PoolShape, PoolTypes
  <2> QED BY <1>0, <1>1, <1>2, <1>3, <1>4, <2>1, Actors DEF PoolInv, PickedCurrent, Calls
<1>9. TransportCurrent'
  BY <1>0, <1>1, <1>2, <1>3, <1>4, Actors, NoEntryFields DEF PoolInv, TransportCurrent, Calls
<1>10. DeletedOff'
  BY <1>0, <1>1, <1>2, <1>3, <1>4, Actors, NoEntryFields DEF PoolInv, DeletedOff, DeletedStaysOff, enabled
<1>11. WritesInOrder'
  <2> SUFFICES ASSUME NEW j \in ProxyIds \ late' PROVE InOrder(j)'
    BY DEF WritesInOrder
  <2>1. InOrder(j)
    BY <1>0, <1>1, <1>2, <1>3, <1>4 DEF PoolInv, WritesInOrder
  <2>2. CASE j # i
    <3>1. ~OnEntry(a, j) /\ ~OnEntry(a, j)'
      BY <1>0, <1>1, <1>2, <1>3, <1>4, <2>2, Actors DEF OnEntry, Writing, Calls, PoolInv, PoolShape, ClientShape, DashboardShape
    <3> QED BY <1>0, <1>1, <1>2, <1>3, <1>4, <2>1, <2>2, <3>1, InOrderFrame
  <2>3. CASE j = i
    <3>1. \A b \in PoolActors : ~Writing(b, i) /\ ~Saving(b, i)
      BY <1>0, <1>1, <1>2, <1>3, <1>4, <2>3 DEF Saving
    <3>2. \A b \in PoolActors : ~Saving(b, i)' /\ (Writing(b, i)' => b = a)
      BY <1>0, <1>1, <1>2, <1>3, <1>4, <3>1 DEF Saving, Writing
    <3>3. \A b \in PoolActors : call'[b].id = i =>
            /\ call'[b].step # "count" /\ call'[b].step # "member" /\ call'[b].step # "append"
      BY <1>0, <1>1, <1>2, <1>3, <1>4, <3>1, Actors DEF Writing, PoolInv, PoolShape, ClientShape
    <3> QED BY <1>0, <1>1, <1>2, <1>3, <1>4, <2>1, <2>3, <3>1, <3>2, <3>3, NoEntryFields DEF InOrder, Calls
  <2> QED BY <2>2, <2>3
<1> QED BY <1>5, <1>6, <1>7, <1>8, <1>9, <1>10, <1>11 DEF PoolInv

LEMMA ToggleKeeps ==
  ASSUME PoolInv, NEW a \in PoolActors, NEW i \in ProxyIds, Toggle(a, i)
  PROVE  PoolInv'
<1>0. PoolTypes
  BY DEF PoolInv
<1>1. a = Dashboard /\ call[a].step = "idle" /\ entries[i].here /\ i \in usedIds
  BY NoEntryFields DEF Toggle, Calls, PoolInv, FreshIds
<1>2. PICK e \in ProxyEntry :
        /\ SetEntry(i, e) /\ call' = Step(a, "hset", i, e, "Toggle")
        /\ e.addr = entries[i].addr /\ e.here /\ (e.enabled => e.fc = 0)
  <2> DEFINE on == ~entries[i].enabled
             x == [entries[i] EXCEPT !.enabled = on, !.fc = IF on THEN 0 ELSE @]
  <2>1. entries[i] \in ProxyEntry
    BY <1>0 DEF PoolTypes
  <2>2. x \in ProxyEntry /\ x.addr = entries[i].addr /\ x.here /\ (x.enabled => x.fc = 0)
    BY <1>1, <2>1 DEF ProxyEntry
  <2>3. SetEntry(i, x) /\ call' = Step(a, "hset", i, x, "Toggle")
    BY DEF Toggle
  <2> HIDE DEF x
  <2> QED BY <2>2, <2>3
<1>3. /\ call' \in [PoolActors -> PoolCallRecord]
      /\ call'[a].step = "hset" /\ call'[a].id = i
      /\ call'[a].entry = e /\ call'[a].op = "Toggle"
      /\ \A b \in PoolActors \ {a} : call'[b] = call[b]
  BY <1>0, <1>2, StepsTo DEF PoolSteps, PoolOps
<1>4. /\ entries' \in [ProxyIds -> ProxyEntry] /\ entries'[i] = e
      /\ \A j \in ProxyIds \ {i} : entries'[j] = entries[j]
      /\ raced \subseteq raced' /\ raced' \subseteq raced \cup {i}
      /\ \A c \in PoolClients : Calls(c, "picked") /\ call[c].id = i => i \in raced'
      /\ late \subseteq late' /\ late' \subseteq late \cup {i}
      /\ \A b \in PoolActors : Writing(b, i) => i \in late'
      /\ deleted' = deleted \ {i}
      /\ UNCHANGED <<transports, proxyHash, enabledSet, touches, usedIds>>
  BY <1>0, <1>2, EntrySet DEF Toggle
<1>5. PoolTypes'
  BY <1>0, <1>1, <1>2, <1>3, <1>4, Actors, NoEntryFields DEF PoolTypes
<1>6. PoolShape'
  <2>1. \A b \in PoolActors : call'[b].step # "idle" => call'[b].id \in usedIds'
    BY <1>0, <1>1, <1>2, <1>3, <1>4 DEF PoolInv, PoolShape
  <2>2. ASSUME NEW c \in PoolClients PROVE ClientShape(c)'
    BY <1>0, <1>1, <1>2, <1>3, <1>4, <2>2, Actors, NoEntryFields DEF PoolInv, PoolShape, ClientShape
  <2>3. DashboardShape(Dashboard)'
    <3>1. CASE a = Dashboard
      BY <1>0, <1>1, <1>2, <1>3, <1>4, <3>1, NoEntryFields DEF PoolInv, PoolShape, DashboardShape
    <3>2. CASE a # Dashboard
      BY <1>0, <1>1, <1>2, <1>3, <1>4, <3>2, Actors, NoEntryFields DEF PoolInv, PoolShape, DashboardShape, ClientShape
    <3> QED BY <3>1, <3>2
  <2>4. \A j \in ProxyIds : ~entries'[j].here => entries'[j] = NoEntry
    BY <1>0, <1>1, <1>2, <1>3, <1>4, NoEntryFields DEF PoolInv, PoolShape
  <2> QED BY <2>1, <2>2, <2>3, <2>4 DEF PoolShape
<1>7. FreshIds'
  <2>1. \A b \in PoolActors : call[b].step # "idle" => call[b].id \in usedIds
    BY DEF PoolInv, PoolShape
  <2>2. \A j \in ProxyIds \ usedIds' : entries'[j] = NoEntry /\ proxyHash'[j] = NoEntry
                                       /\ transports'[j] = NoAddress
    BY <1>0, <1>1, <1>2, <1>3, <1>4, <2>1 DEF PoolInv, FreshIds
  <2>3. enabledSet' \cup touches' \cup deleted' \subseteq usedIds'
    BY <1>0, <1>1, <1>2, <1>3, <1>4, <2>1 DEF PoolInv, FreshIds
  <2>4. call'[Dashboard].op = "Add" =>
          /\ transports'[call'[Dashboard].id] = NoAddress
          /\ \A c \in PoolClients : call'[c].step # "idle" => call'[c].id # call'[Dashboard].id
    <3>0. call[Dashboard].op = "Add" => call[Dashboard].id \in ProxyIds
      BY <1>0, <1>1, <1>2, <1>3, <1>4, <2>1, Actors DEF PoolInv, PoolShape, DashboardShape, PoolTypes
    <3>1. CASE a = Dashboard
      BY <1>0, <1>1, <1>2, <1>3, <1>4, <2>1, <3>0, <3>1, Actors DEF PoolInv, FreshIds, PoolTypes
    <3>2. CASE a # Dashboard
      <4>1. call'[Dashboard] = call[Dashboard] /\ a \in PoolClients
        BY <1>0, <1>1, <1>2, <1>3, <1>4, <3>2, Actors
      <4>2. call[Dashboard].op = "Add" => transports'[call[Dashboard].id] = NoAddress
        BY <1>0, <1>1, <1>2, <1>3, <1>4, <3>0, <4>1 DEF PoolInv, FreshIds
      <4> QED BY <1>0, <1>1, <1>2, <1>3, <1>4, <2>1, <4>1, <4>2, Actors DEF PoolInv, FreshIds
    <3> QED BY <3>1, <3>2
  <2> QED BY <2>2, <2>3, <2>4 DEF FreshIds
<1>8. PickedCurrent'
  <2>1. \A c \in PoolClients : call[c].step # "idle" => call[c].id \in ProxyIds
    BY <1>0, Actors DEF PoolInv, PoolShape, PoolTypes
  <2> QED BY <1>0, <1>1, <1>2, <1>3, <1>4, <2>1, Actors DEF PoolInv, PickedCurrent, Calls
<1>9. TransportCurrent'
  BY <1>0, <1>1, <1>2, <1>3, <1>4, Actors, NoEntryFields DEF PoolInv, TransportCurrent, Calls
<1>10. DeletedOff'
  BY <1>0, <1>1, <1>2, <1>3, <1>4, Actors, NoEntryFields DEF PoolInv, DeletedOff, DeletedStaysOff, enabled
<1>11. WritesInOrder'
  <2> SUFFICES ASSUME NEW j \in ProxyIds \ late' PROVE InOrder(j)'
    BY DEF WritesInOrder
  <2>1. InOrder(j)
    BY <1>0, <1>1, <1>2, <1>3, <1>4 DEF PoolInv, WritesInOrder
  <2>2. CASE j # i
    <3>1. ~OnEntry(a, j) /\ ~OnEntry(a, j)'
      BY <1>0, <1>1, <1>2, <1>3, <1>4, <2>2, Actors DEF OnEntry, Writing, Calls, PoolInv, PoolShape, ClientShape, DashboardShape
    <3> QED BY <1>0, <1>1, <1>2, <1>3, <1>4, <2>1, <2>2, <3>1, InOrderFrame
  <2>3. CASE j = i
    <3>1. \A b \in PoolActors : ~Writing(b, i) /\ ~Saving(b, i)
      BY <1>0, <1>1, <1>2, <1>3, <1>4, <2>3 DEF Saving
    <3>2. Saving(a, i)' /\ \A b \in PoolActors : Writing(b, i)' => b = a
      BY <1>0, <1>1, <1>2, <1>3, <1>4, <3>1 DEF Saving, Writing
    <3>3. \A b \in PoolActors : call'[b].id = i =>
            /\ call'[b].step # "count" /\ call'[b].step # "member" /\ call'[b].step # "append"
            /\ call'[b].op # "Delete"
      BY <1>0, <1>1, <1>2, <1>3, <1>4, <3>1, Actors DEF Writing, PoolInv, PoolShape, ClientShape
    <3>4. call'[a].step # "count"
      BY <1>0, <1>1, <1>2, <1>3, <1>4
    <3> QED BY <1>0, <1>1, <1>2, <1>3, <1>4, <2>1, <2>3, <3>2, <3>3, <3>4, PoolAssumption DEF InOrder, Calls
  <2> QED BY <2>2, <2>3
<1> QED BY <1>5, <1>6, <1>7, <1>8, <1>9, <1>10, <1>11 DEF PoolInv

-----------------------------------------------------------------------------
(* Requests                                                                *)

LEMMA NextKeeps ==
  ASSUME PoolInv, NEW a \in PoolActors, NEW i \in ProxyIds, Next(a, i)
  PROVE  PoolInv'
<1>0. PoolTypes
  BY DEF PoolInv
<1>1. a \in PoolClients /\ a # Dashboard /\ call[a].step = "idle" /\ entries[i].enabled
  BY Actors DEF Next, Calls, enabled
<1>2. /\ i \in usedIds
      /\ call[Dashboard].op = "Add" => call[Dashboard].id # i
  BY <1>1, NoEntryFields DEF PoolInv, FreshIds, PoolShape, DashboardShape
<1>3. entries[i] \in ProxyEntry
  BY <1>0 DEF PoolTypes
<1>4. /\ call' \in [PoolActors -> PoolCallRecord]
      /\ call'[a].step = "picked" /\ call'[a].id = i
      /\ call'[a].entry = entries[i] /\ call'[a].op = "none"
      /\ \A b \in PoolActors \ {a} : call'[b] = call[b]
  <2>1. PICK s \in PoolSteps, o \in PoolOps : s = "picked" /\ o = "none"
    BY DEF PoolSteps, PoolOps
  <2>2. call' = Step(a, s, i, entries[i], o)
    BY <2>1 DEF Next
  <2> QED BY <1>0, <1>3, <2>1, <2>2, StepsTo
<1>5. touches' = touches \cup {i} /\ UNCHANGED <<entries, transports, proxyHash, enabledSet, usedIds, deleted, raced, late>>
  BY DEF Next
<1>6. PoolTypes'
  BY <1>0, <1>1, <1>2, <1>3, <1>4, <1>5, Actors, NoEntryFields DEF PoolTypes
<1>7. PoolShape'
  <2>1. \A b \in PoolActors : call'[b].step # "idle" => call'[b].id \in usedIds'
    BY <1>0, <1>1, <1>2, <1>3, <1>4, <1>5 DEF PoolInv, PoolShape
  <2>2. ASSUME NEW c \in PoolClients PROVE ClientShape(c)'
    BY <1>0, <1>1, <1>2, <1>3, <1>4, <1>5, <2>2, Actors, NoEntryFields DEF PoolInv, PoolShape, ClientShape
  <2>3. DashboardShape(Dashboard)'
    <3>1. CASE a = Dashboard
      BY <1>0, <1>1, <1>2, <1>3, <1>4, <1>5, <3>1, NoEntryFields DEF PoolInv, PoolShape, DashboardShape
    <3>2. CASE a # Dashboard
      BY <1>0, <1>1, <1>2, <1>3, <1>4, <1>5, <3>2, Actors, NoEntryFields DEF PoolInv, PoolShape, DashboardShape, ClientShape
    <3> QED BY <3>1, <3>2
  <2>4. \A j \in ProxyIds : ~entries'[j].here => entries'[j] = NoEntry
    BY <1>0, <1>1, <1>2, <1>3, <1>4, <1>5, NoEntryFields DEF PoolInv, PoolShape
  <2> QED BY <2>1, <2>2, <2>3, <2>4 DEF PoolShape
<1>8. FreshIds'
  <2>1. \A b \in PoolActors : call[b].step # "idle" => call[b].id \in usedIds
    BY DEF PoolInv, PoolShape
  <2>2. \A j \in ProxyIds \ usedIds' : entries'[j] = NoEntry /\ proxyHash'[j] = NoEntry
                                       /\ transports'[j] = NoAddress
    BY <1>0, <1>1, <1>2, <1>3, <1>4, <1>5, <2>1 DEF PoolInv, FreshIds
  <2>3. enabledSet' \cup touches' \cup deleted' \subseteq usedIds'
    BY <1>0, <1>1, <1>2, <1>3, <1>4, <1>5, <2>1 DEF PoolInv, FreshIds
  <2>4. call'[Dashboard].op = "Add" =>
          /\ transports'[call'[Dashboard].id] = NoAddress
          /\ \A c \in PoolClients : call'[c].step # "idle" => call'[c].id # call'[Dashboard].id
    <3>0. call[Dashboard].op = "Add" => call[Dashboard].id \in ProxyIds
      BY <1>0, <1>1, <1>2, <1>3, <1>4, <1>5, <2>1, Actors DEF PoolInv, PoolShape, DashboardShape, PoolTypes
    <3>1. CASE a = Dashboard
      BY <1>0, <1>1, <1>2, <1>3, <1>4, <1>5, <2>1, <3>0, <3>1, Actors DEF PoolInv, FreshIds, PoolTypes
    <3>2. CASE a # Dashboard
      <4>1. call'[Dashboard] = call[Dashboard] /\ a \in PoolClients
        BY <1>0, <1>1, <1>2, <1>3, <1>4, <1>5, <3>2, Actors
      <4>2. call[Dashboard].op = "Add" => transports'[call[Dashboard].id] = NoAddress
        BY <1>0, <1>1, <1>2, <1>3, <1>4, <1>5, <3>0, <4>1 DEF PoolInv, FreshIds
      <4> QED BY <1>0, <1>1, <1>2, <1>3, <1>4, <1>5, <2>1, <4>1, <4>2, Actors DEF PoolInv, FreshIds
    <3> QED BY <3>1, <3>2
  <2> QED BY <2>2, <2>3, <2>4 DEF FreshIds
<1>9. PickedCurrent'
  <2>1. \A c \in PoolClients : call[c].step # "idle" => call[c].id \in ProxyIds
    BY <1>0, Actors DEF PoolInv, PoolShape, PoolTypes
  <2> QED BY <1>0, <1>1, <1>2, <1>3, <1>4, <1>5, <2>1, Actors DEF PoolInv, PickedCurrent, Calls
<1>10. TransportCurrent'
  BY <1>0, <1>1, <1>2, <1>3, <1>4, <1>5, Actors, NoEntryFields DEF PoolInv, TransportCurrent, Calls
<1>11. DeletedOff'
  BY <1>0, <1>1, <1>2, <1>3, <1>4, <1>5, Actors, NoEntryFields DEF PoolInv, DeletedOff, DeletedStaysOff, enabled
<1>12. WritesInOrder'
  <2> SUFFICES ASSUME NEW j \in ProxyIds \ late' PROVE InOrder(j)'
    BY DEF WritesInOrder
  <2>1. InOrder(j)
    BY <1>0, <1>1, <1>2, <1>3, <1>4, <1>5 DEF PoolInv, WritesInOrder
  <2>2. ~OnEntry(a, j) /\ ~OnEntry(a, j)'
    BY <1>0, <1>1, <1>2, <1>3, <1>4, <1>5, Actors DEF OnEntry, Writing, Calls, PoolInv, PoolShape, ClientShape, DashboardShape
  <2> QED BY <1>0, <1>1, <1>2, <1>3, <1>4, <1>5, <2>1, <2>2, InOrderFrame
<1> QED BY <1>6, <1>7, <1>8, <1>9, <1>10, <1>11, <1>12 DEF PoolInv

LEMMA TransportKeeps ==
  ASSUME PoolInv, NEW a \in PoolActors, Transport(a)
  PROVE  PoolInv'
<1>0. PoolTypes
  BY DEF PoolInv
<1>1. PICK i \in ProxyIds : i = call[a].id /\ call[a].step = "picked"
  BY <1>0 DEF PoolInv, PoolShape, PoolTypes, Transport, Calls
<1>2. a \in PoolClients /\ a # Dashboard /\ i \in usedIds /\ call[a].entry.addr \in Addresses \cup {NoAddress}
  BY <1>0, <1>1, Actors DEF PoolInv, PoolShape, DashboardShape, PoolTypes, PoolCallRecord, ProxyEntry
<1>3. PICK s \in {"failed", "sent"} : call' = Step(a, s, i, NoEntry, "none")
  BY <1>1 DEF Transport
<1>4. /\ call' \in [PoolActors -> PoolCallRecord]
      /\ call'[a].step = s /\ call'[a].id = i
      /\ call'[a].entry = NoEntry /\ call'[a].op = "none"
      /\ \A b \in PoolActors \ {a} : call'[b] = call[b]
  BY <1>0, <1>3, NoEntryFields, StepsTo DEF PoolSteps, PoolOps
<1>5. /\ transports' \in [ProxyIds -> Addresses \cup {NoAddress}]
      /\ transports[i] # NoAddress => transports'[i] = transports[i]
      /\ transports[i] = NoAddress => transports'[i] = call[a].entry.addr
      /\ \A j \in ProxyIds \ {i} : transports'[j] = transports[j]
      /\ UNCHANGED <<entries, proxyHash, enabledSet, touches, usedIds, deleted, raced, late>>
  BY <1>0, <1>1, <1>2 DEF Transport, buildTransport, PoolTypes
<1>6. call[Dashboard].op = "Add" => call[Dashboard].id # i
  BY <1>1, <1>2 DEF PoolInv, FreshIds
<1>7. PoolTypes'
  BY <1>0, <1>1, <1>2, <1>3, <1>4, <1>5, <1>6, Actors, NoEntryFields DEF PoolTypes
<1>8. PoolShape'
  <2>1. \A b \in PoolActors : call'[b].step # "idle" => call'[b].id \in usedIds'
    BY <1>0, <1>1, <1>2, <1>3, <1>4, <1>5, <1>6 DEF PoolInv, PoolShape
  <2>2. ASSUME NEW c \in PoolClients PROVE ClientShape(c)'
    BY <1>0, <1>1, <1>2, <1>3, <1>4, <1>5, <1>6, <2>2, Actors, NoEntryFields DEF PoolInv, PoolShape, ClientShape
  <2>3. DashboardShape(Dashboard)'
    <3>1. CASE a = Dashboard
      BY <1>0, <1>1, <1>2, <1>3, <1>4, <1>5, <1>6, <3>1, NoEntryFields DEF PoolInv, PoolShape, DashboardShape
    <3>2. CASE a # Dashboard
      BY <1>0, <1>1, <1>2, <1>3, <1>4, <1>5, <1>6, <3>2, Actors, NoEntryFields DEF PoolInv, PoolShape, DashboardShape, ClientShape
    <3> QED BY <3>1, <3>2
  <2>4. \A j \in ProxyIds : ~entries'[j].here => entries'[j] = NoEntry
    BY <1>0, <1>1, <1>2, <1>3, <1>4, <1>5, <1>6, NoEntryFields DEF PoolInv, PoolShape
  <2> QED BY <2>1, <2>2, <2>3, <2>4 DEF PoolShape
<1>9. FreshIds'
  <2>1. \A b \in PoolActors : call[b].step # "idle" => call[b].id \in usedIds
    BY DEF PoolInv, PoolShape
  <2>2. \A j \in ProxyIds \ usedIds' : entries'[j] = NoEntry /\ proxyHash'[j] = NoEntry
                                       /\ transports'[j] = NoAddress
    BY <1>0, <1>1, <1>2, <1>3, <1>4, <1>5, <1>6, <2>1 DEF PoolInv, FreshIds
  <2>3. enabledSet' \cup touches' \cup deleted' \subseteq usedIds'
    BY <1>0, <1>1, <1>2, <1>3, <1>4, <1>5, <1>6, <2>1 DEF PoolInv, FreshIds
  <2>4. call'[Dashboard].op = "Add" =>
          /\ transports'[call'[Dashboard].id] = NoAddress
          /\ \A c \in PoolClients : call'[c].step # "idle" => call'[c].id # call'[Dashboard].id
    <3>0. call[Dashboard].op = "Add" => call[Dashboard].id \in ProxyIds
      BY <1>0, <1>1, <1>2, <1>3, <1>4, <1>5, <1>6, <2>1, Actors DEF PoolInv, PoolShape, DashboardShape, PoolTypes
    <3>1. CASE a = Dashboard
      BY <1>0, <1>1, <1>2, <1>3, <1>4, <1>5, <1>6, <2>1, <3>0, <3>1, Actors DEF PoolInv, FreshIds, PoolTypes
    <3>2. CASE a # Dashboard
      <4>1. call'[Dashboard] = call[Dashboard] /\ a \in PoolClients
        BY <1>0, <1>1, <1>2, <1>3, <1>4, <1>5, <1>6, <3>2, Actors
      <4>2. call[Dashboard].op = "Add" => transports'[call[Dashboard].id] = NoAddress
        BY <1>0, <1>1, <1>2, <1>3, <1>4, <1>5, <1>6, <3>0, <4>1 DEF PoolInv, FreshIds
      <4> QED BY <1>0, <1>1, <1>2, <1>3, <1>4, <1>5, <1>6, <2>1, <4>1, <4>2, Actors DEF PoolInv, FreshIds
    <3> QED BY <3>1, <3>2
  <2> QED BY <2>2, <2>3, <2>4 DEF FreshIds
<1>10. PickedCurrent'
  <2>1. \A c \in PoolClients : call[c].step # "idle" => call[c].id \in ProxyIds
    BY <1>0, Actors DEF PoolInv, PoolShape, PoolTypes
  <2> QED BY <1>0, <1>1, <1>2, <1>3, <1>4, <1>5, <1>6, <2>1, Actors DEF PoolInv, PickedCurrent, Calls
<1>11. TransportCurrent'
  <2>1. i \notin raced => call[a].entry.addr = entries[i].addr
    BY <1>1, <1>2 DEF PoolInv, PickedCurrent, Calls
  <2> QED BY <1>0, <1>1, <1>2, <1>3, <1>4, <1>5, <1>6, <2>1, Actors DEF PoolInv, TransportCurrent, Calls
<1>12. DeletedOff'
  BY <1>0, <1>1, <1>2, <1>3, <1>4, <1>5, <1>6, Actors, NoEntryFields DEF PoolInv, DeletedOff, DeletedStaysOff, enabled
<1>13. WritesInOrder'
  <2> SUFFICES ASSUME NEW j \in ProxyIds \ late' PROVE InOrder(j)'
    BY DEF WritesInOrder
  <2>1. InOrder(j)
    BY <1>0, <1>1, <1>2, <1>3, <1>4, <1>5, <1>6 DEF PoolInv, WritesInOrder
  <2>2. ~OnEntry(a, j) /\ ~OnEntry(a, j)'
    BY <1>0, <1>1, <1>2, <1>3, <1>4, <1>5, <1>6, Actors DEF OnEntry, Writing, Calls, PoolInv, PoolShape, ClientShape, DashboardShape
  <2> QED BY <1>0, <1>1, <1>2, <1>3, <1>4, <1>5, <1>6, <2>1, <2>2, InOrderFrame
<1> QED BY <1>7, <1>8, <1>9, <1>10, <1>11, <1>12, <1>13 DEF PoolInv

LEMMA markProxyResultKeeps ==
  ASSUME PoolInv, NEW a \in PoolActors, markProxyResult(a)
  PROVE  PoolInv'
<1>0. PoolTypes
  BY DEF PoolInv
<1>1. PICK i \in ProxyIds : i = call[a].id /\ call[a].step = "sent"
  BY <1>0 DEF PoolInv, PoolShape, PoolTypes, markProxyResult, Calls
<1>2. a \in PoolClients /\ a # Dashboard
  BY <1>1, Actors DEF PoolInv, PoolShape, DashboardShape
<1>3. PICK s \in {"failed", "succeeded"} : Then(a, s)
  BY DEF markProxyResult
<1>4. /\ call' \in [PoolActors -> PoolCallRecord]
      /\ call'[a].step = s
      /\ call'[a].id = i /\ call'[a].entry = call[a].entry /\ call'[a].op = call[a].op
      /\ \A b \in PoolActors \ {a} : call'[b] = call[b]
  BY <1>0, <1>1, <1>3, ThenGoes DEF PoolSteps
<1>5. UNCHANGED <<entries, transports, proxyHash, enabledSet, touches, usedIds, deleted, raced, late>>
  BY DEF markProxyResult
<1>6. PoolTypes'
  BY <1>0, <1>1, <1>2, <1>3, <1>4, <1>5, Actors, NoEntryFields DEF PoolTypes
<1>7. PoolShape'
  <2>1. \A b \in PoolActors : call'[b].step # "idle" => call'[b].id \in usedIds'
    BY <1>0, <1>1, <1>2, <1>3, <1>4, <1>5 DEF PoolInv, PoolShape
  <2>2. ASSUME NEW c \in PoolClients PROVE ClientShape(c)'
    BY <1>0, <1>1, <1>2, <1>3, <1>4, <1>5, <2>2, Actors, NoEntryFields DEF PoolInv, PoolShape, ClientShape
  <2>3. DashboardShape(Dashboard)'
    <3>1. CASE a = Dashboard
      BY <1>0, <1>1, <1>2, <1>3, <1>4, <1>5, <3>1, NoEntryFields DEF PoolInv, PoolShape, DashboardShape
    <3>2. CASE a # Dashboard
      BY <1>0, <1>1, <1>2, <1>3, <1>4, <1>5, <3>2, Actors, NoEntryFields DEF PoolInv, PoolShape, DashboardShape, ClientShape
    <3> QED BY <3>1, <3>2
  <2>4. \A j \in ProxyIds : ~entries'[j].here => entries'[j] = NoEntry
    BY <1>0, <1>1, <1>2, <1>3, <1>4, <1>5, NoEntryFields DEF PoolInv, PoolShape
  <2> QED BY <2>1, <2>2, <2>3, <2>4 DEF PoolShape
<1>8. FreshIds'
  <2>1. \A b \in PoolActors : call[b].step # "idle" => call[b].id \in usedIds
    BY DEF PoolInv, PoolShape
  <2>2. \A j \in ProxyIds \ usedIds' : entries'[j] = NoEntry /\ proxyHash'[j] = NoEntry
                                       /\ transports'[j] = NoAddress
    BY <1>0, <1>1, <1>2, <1>3, <1>4, <1>5, <2>1 DEF PoolInv, FreshIds
  <2>3. enabledSet' \cup touches' \cup deleted' \subseteq usedIds'
    BY <1>0, <1>1, <1>2, <1>3, <1>4, <1>5, <2>1 DEF PoolInv, FreshIds
  <2>4. call'[Dashboard].op = "Add" =>
          /\ transports'[call'[Dashboard].id] = NoAddress
          /\ \A c \in PoolClients : call'[c].step # "idle" => call'[c].id # call'[Dashboard].id
    <3>0. call[Dashboard].op = "Add" => call[Dashboard].id \in ProxyIds
      BY <1>0, <1>1, <1>2, <1>3, <1>4, <1>5, <2>1, Actors DEF PoolInv, PoolShape, DashboardShape, PoolTypes
    <3>1. CASE a = Dashboard
      BY <1>0, <1>1, <1>2, <1>3, <1>4, <1>5, <2>1, <3>0, <3>1, Actors DEF PoolInv, FreshIds, PoolTypes
    <3>2. CASE a # Dashboard
      <4>1. call'[Dashboard] = call[Dashboard] /\ a \in PoolClients
        BY <1>0, <1>1, <1>2, <1>3, <1>4, <1>5, <3>2, Actors
      <4>2. call[Dashboard].op = "Add" => transports'[call[Dashboard].id] = NoAddress
        BY <1>0, <1>1, <1>2, <1>3, <1>4, <1>5, <3>0, <4>1 DEF PoolInv, FreshIds
      <4> QED BY <1>0, <1>1, <1>2, <1>3, <1>4, <1>5, <2>1, <4>1, <4>2, Actors DEF PoolInv, FreshIds
    <3> QED BY <3>1, <3>2
  <2> QED BY <2>2, <2>3, <2>4 DEF FreshIds
<1>9. PickedCurrent'
  <2>1. \A c \in PoolClients : call[c].step # "idle" => call[c].id \in ProxyIds
    BY <1>0, Actors DEF PoolInv, PoolShape, PoolTypes
  <2> QED BY <1>0, <1>1, <1>2, <1>3, <1>4, <1>5, <2>1, Actors DEF PoolInv, PickedCurrent, Calls
<1>10. TransportCurrent'
  BY <1>0, <1>1, <1>2, <1>3, <1>4, <1>5, Actors, NoEntryFields DEF PoolInv, TransportCurrent, Calls
<1>11. DeletedOff'
  BY <1>0, <1>1, <1>2, <1>3, <1>4, <1>5, Actors, NoEntryFields DEF PoolInv, DeletedOff, DeletedStaysOff, enabled
<1>12. WritesInOrder'
  <2> SUFFICES ASSUME NEW j \in ProxyIds \ late' PROVE InOrder(j)'
    BY DEF WritesInOrder
  <2>1. InOrder(j)
    BY <1>0, <1>1, <1>2, <1>3, <1>4, <1>5 DEF PoolInv, WritesInOrder
  <2>2. ~OnEntry(a, j) /\ ~OnEntry(a, j)'
    BY <1>0, <1>1, <1>2, <1>3, <1>4, <1>5, Actors DEF OnEntry, Writing, Calls, PoolInv, PoolShape, ClientShape, DashboardShape
  <2> QED BY <1>0, <1>1, <1>2, <1>3, <1>4, <1>5, <2>1, <2>2, InOrderFrame
<1> QED BY <1>6, <1>7, <1>8, <1>9, <1>10, <1>11, <1>12 DEF PoolInv

(* MarkFailed of an entry that is there; one that is gone is left alone. *)
LEMMA MarkFailedKeeps ==
  ASSUME PoolInv, NEW a \in PoolActors, MarkFailed(a), entries[call[a].id].here
  PROVE  PoolInv'
<1>0. PoolTypes
  BY DEF PoolInv
<1>1. PICK i \in ProxyIds : i = call[a].id /\ call[a].step = "failed"
  BY <1>0 DEF PoolInv, PoolShape, PoolTypes, MarkFailed, Calls
<1>2. a \in PoolClients /\ a # Dashboard /\ i \in usedIds /\ entries[i].here
  BY <1>1, Actors DEF PoolInv, PoolShape, DashboardShape
<1>3. PICK e \in ProxyEntry, s \in {"forget", "count"} :
        /\ SetEntry(i, e) /\ call' = Step(a, s, i, e, "MarkFailed")
        /\ e.addr = entries[i].addr /\ e.here
        /\ e.enabled => entries[i].enabled /\ e.fc < FailThreshold
        /\ s = "forget" => ~e.enabled
        /\ s = "count" => (e.enabled <=> entries[i].enabled)
  <2> DEFINE fc == entries[i].fc + 1
             disable == Exhausted(fc) /\ entries[i].enabled
             x == [entries[i] EXCEPT !.fc = fc, !.enabled = @ /\ ~disable]
  <2>1. entries[i] \in ProxyEntry
    BY <1>0 DEF PoolTypes
  <2>2. fc \in Nat
    BY <2>1 DEF ProxyEntry
  <2>3. /\ x \in ProxyEntry /\ x.addr = entries[i].addr /\ x.here
        /\ x.fc = fc /\ (x.enabled <=> entries[i].enabled /\ ~disable)
    BY <1>2, <2>1, <2>2 DEF ProxyEntry
  <2>4. SetEntry(i, x) /\ call' = Step(a, IF disable THEN "forget" ELSE "count", i, x, "MarkFailed")
    BY <1>1, <1>2 DEF MarkFailed
  <2>5. x.enabled => fc < FailThreshold
    BY <2>2, <2>3, PoolAssumption DEF Exhausted
  <2> HIDE DEF x, fc
  <2> QED BY <2>3, <2>4, <2>5
<1>4. /\ call' \in [PoolActors -> PoolCallRecord]
      /\ call'[a].step = s /\ call'[a].id = i
      /\ call'[a].entry = e /\ call'[a].op = "MarkFailed"
      /\ \A b \in PoolActors \ {a} : call'[b] = call[b]
  BY <1>0, <1>3, StepsTo DEF PoolSteps, PoolOps
<1>5. /\ entries' \in [ProxyIds -> ProxyEntry] /\ entries'[i] = e
      /\ \A j \in ProxyIds \ {i} : entries'[j] = entries[j]
      /\ raced \subseteq raced' /\ raced' \subseteq raced \cup {i}
      /\ \A c \in PoolClients : Calls(c, "picked") /\ call[c].id = i => i \in raced'
      /\ late \subseteq late' /\ late' \subseteq late \cup {i}
      /\ \A b \in PoolActors : Writing(b, i) => i \in late'
      /\ UNCHANGED <<transports, proxyHash, enabledSet, touches, usedIds, deleted>>
  BY <1>0, <1>3, EntrySet DEF MarkFailed
<1>6. PoolTypes'
  BY <1>0, <1>1, <1>2, <1>3, <1>4, <1>5, Actors, NoEntryFields DEF PoolTypes
<1>7. PoolShape'
  <2>1. \A b \in PoolActors : call'[b].step # "idle" => call'[b].id \in usedIds'
    BY <1>0, <1>1, <1>2, <1>3, <1>4, <1>5 DEF PoolInv, PoolShape
  <2>2. ASSUME NEW c \in PoolClients PROVE ClientShape(c)'
    BY <1>0, <1>1, <1>2, <1>3, <1>4, <1>5, <2>2, Actors, NoEntryFields DEF PoolInv, PoolShape, ClientShape
  <2>3. DashboardShape(Dashboard)'
    <3>1. CASE a = Dashboard
      BY <1>0, <1>1, <1>2, <1>3, <1>4, <1>5, <3>1, NoEntryFields DEF PoolInv, PoolShape, DashboardShape
    <3>2. CASE a # Dashboard
      <4>1. call'[Dashboard] = call[Dashboard]
        BY <1>0, <1>1, <1>2, <1>3, <1>4, <1>5, Actors
      <4>2. call[Dashboard].step # "idle" => call[Dashboard].id \in ProxyIds
        BY <1>0, <1>1, <1>2, <1>3, <1>4, <1>5, Actors DEF PoolInv, PoolShape, PoolTypes
      <4>3. DashboardShape(Dashboard)
        BY DEF PoolInv, PoolShape
      <4>4. call[Dashboard].op \in {"Add", "Delete"} => call[Dashboard].id # i
        BY <1>0, <1>1, <1>2, <1>3, <1>4, <1>5, <4>3, NoEntryFields DEF DashboardShape
      <4> QED BY <1>0, <1>1, <1>2, <1>3, <1>4, <1>5, <4>1, <4>2, <4>3, <4>4 DEF DashboardShape
    <3> QED BY <3>1, <3>2
  <2>4. \A j \in ProxyIds : ~entries'[j].here => entries'[j] = NoEntry
    BY <1>0, <1>1, <1>2, <1>3, <1>4, <1>5, NoEntryFields DEF PoolInv, PoolShape
  <2> QED BY <2>1, <2>2, <2>3, <2>4 DEF PoolShape
<1>8. FreshIds'
  <2>1. \A b \in PoolActors : call[b].step # "idle" => call[b].id \in usedIds
    BY DEF PoolInv, PoolShape
  <2>2. \A j \in ProxyIds \ usedIds' : entries'[j] = NoEntry /\ proxyHash'[j] = NoEntry
                                       /\ transports'[j] = NoAddress
    BY <1>0, <1>1, <1>2, <1>3, <1>4, <1>5, <2>1 DEF PoolInv, FreshIds
  <2>3. enabledSet' \cup touches' \cup deleted' \subseteq usedIds'
    BY <1>0, <1>1, <1>2, <1>3, <1>4, <1>5, <2>1 DEF PoolInv, FreshIds
  <2>4. call'[Dashboard].op = "Add" =>
          /\ transports'[call'[Dashboard].id] = NoAddress
          /\ \A c \in PoolClients : call'[c].step # "idle" => call'[c].id # call'[Dashboard].id
    <3>0. call[Dashboard].op = "Add" => call[Dashboard].id \in ProxyIds
      BY <1>0, <1>1, <1>2, <1>3, <1>4, <1>5, <2>1, Actors DEF PoolInv, PoolShape, DashboardShape, PoolTypes
    <3>1. CASE a = Dashboard
      BY <1>0, <1>1, <1>2, <1>3, <1>4, <1>5, <2>1, <3>0, <3>1, Actors DEF PoolInv, FreshIds, PoolTypes
    <3>2. CASE a # Dashboard
      <4>1. call'[Dashboard] = call[Dashboard] /\ a \in PoolClients
        BY <1>0, <1>1, <1>2, <1>3, <1>4, <1>5, <3>2, Actors
      <4>2. call[Dashboard].op = "Add" => transports'[call[Dashboard].id] = NoAddress
        BY <1>0, <1>1, <1>2, <1>3, <1>4, <1>5, <3>0, <4>1 DEF PoolInv, FreshIds
      <4> QED BY <1>0, <1>1, <1>2, <1>3, <1>4, <1>5, <2>1, <4>1, <4>2, Actors DEF PoolInv, FreshIds
    <3> QED BY <3>1, <3>2
  <2> QED BY <2>2, <2>3, <2>4 DEF FreshIds
<1>9. PickedCurrent'
  <2>1. \A c \in PoolClients : call[c].step # "idle" => call[c].id \in ProxyIds
    BY <1>0, Actors DEF PoolInv, PoolShape, PoolTypes
  <2> QED BY <1>0, <1>1, <1>2, <1>3, <1>4, <1>5, <2>1, Actors DEF PoolInv, PickedCurrent, Calls
<1>10. TransportCurrent'
  BY <1>0, <1>1, <1>2, <1>3, <1>4, <1>5, Actors, NoEntryFields DEF PoolInv, TransportCurrent, Calls
<1>11. DeletedOff'
  BY <1>0, <1>1, <1>2, <1>3, <1>4, <1>5, Actors, NoEntryFields DEF PoolInv, DeletedOff, DeletedStaysOff, enabled
<1>12. WritesInOrder'
  <2> SUFFICES ASSUME NEW j \in ProxyIds \ late' PROVE InOrder(j)'
    BY DEF WritesInOrder
  <2>1. InOrder(j)
    BY <1>0, <1>1, <1>2, <1>3, <1>4, <1>5 DEF PoolInv, WritesInOrder
  <2>2. CASE j # i
    <3>1. ~OnEntry(a, j) /\ ~OnEntry(a, j)'
      BY <1>0, <1>1, <1>2, <1>3, <1>4, <1>5, <2>2, Actors DEF OnEntry, Writing, Calls, PoolInv, PoolShape, ClientShape, DashboardShape
    <3> QED BY <1>0, <1>1, <1>2, <1>3, <1>4, <1>5, <2>1, <2>2, <3>1, InOrderFrame
  <2>3. CASE j = i
    <3>1. \A b \in PoolActors : ~Writing(b, i) /\ ~Saving(b, i)
      BY <1>0, <1>1, <1>2, <1>3, <1>4, <1>5, <2>3 DEF Saving
    <3>2. Saving(a, i)' /\ \A b \in PoolActors : Writing(b, i)' => b = a
      BY <1>0, <1>1, <1>2, <1>3, <1>4, <1>5, <3>1 DEF Saving, Writing
    <3>3. \A b \in PoolActors : call'[b].id = i =>
            /\ call'[b].step = "count" => b = a
            /\ call'[b].step # "member" /\ call'[b].step # "append"
      BY <1>0, <1>1, <1>2, <1>3, <1>4, <1>5, <3>1, AppendAlone DEF Writing
    <3>4. \A b \in PoolActors : call'[b].id = i => call'[b].op # "Delete"
      BY <1>0, <1>1, <1>2, <1>3, <1>4, <1>5, NoEntryFields, Actors DEF PoolInv, PoolShape, ClientShape, DashboardShape
    <3>5. i \in enabledSet => entries[i].enabled
      BY <1>0, <1>1, <1>2, <1>3, <1>4, <1>5, <2>1, <2>3, <3>1 DEF InOrder
    <3>6. \A b, c \in PoolActors : Writing(b, i)' /\ Writing(c, i)' => b = c
      BY <3>2
    <3>7. entries'[i].enabled => entries'[i].fc < FailThreshold
      BY <1>0, <1>1, <1>2, <1>3, <1>4, <1>5, <2>1, <2>3 DEF InOrder
    <3>8. \A b \in PoolActors : Writing(b, i)' => call'[b].op = "Add" \/ call'[b].entry = entries'[i]
      BY <1>0, <1>1, <1>2, <1>3, <1>4, <1>5, <3>2
    <3>9. ~(\A b \in PoolActors : ~Saving(b, i)')
      BY <3>2
    <3>10. (\A b \in PoolActors : Saving(b, i)' => call'[b].step = "count") =>
             (i \in enabledSet' /\ entries'[i].here => entries'[i].enabled)
      BY <1>0, <1>1, <1>2, <1>3, <1>4, <1>5, <3>2, <3>5
    <3>11. \A b \in PoolActors : call'[b].id = i =>
             /\ call'[b].step # "member" /\ call'[b].step # "append" /\ call'[b].op # "Delete"
             /\ call'[b].step = "count" => entries'[i].here
      BY <1>0, <1>1, <1>2, <1>3, <1>4, <1>5, <3>3, <3>4
    <3> QED BY <2>3, <3>6, <3>7, <3>8, <3>9, <3>10, <3>11 DEF InOrder, Calls
  <2> QED BY <2>2, <2>3
<1> QED BY <1>6, <1>7, <1>8, <1>9, <1>10, <1>11, <1>12 DEF PoolInv

(* MarkSuccess of an entry with failures. *)
LEMMA MarkSuccessKeeps ==
  ASSUME PoolInv, NEW a \in PoolActors, MarkSuccess(a), entries[call[a].id].fc # 0
  PROVE  PoolInv'
<1>0. PoolTypes
  BY DEF PoolInv
<1>1. PICK i \in ProxyIds : i = call[a].id /\ call[a].step = "succeeded"
  BY <1>0 DEF PoolInv, PoolShape, PoolTypes, MarkSuccess, Calls
<1>2. a \in PoolClients /\ a # Dashboard /\ i \in usedIds /\ entries[i].here
  BY <1>1, Actors, NoEntryFields DEF PoolInv, PoolShape, DashboardShape
<1>3. PICK e \in ProxyEntry :
        /\ SetEntry(i, e) /\ call' = Step(a, "count", i, e, "MarkSuccess")
        /\ e.addr = entries[i].addr /\ e.here /\ e.fc = 0
        /\ e.enabled <=> entries[i].enabled
  <2> DEFINE x == [entries[i] EXCEPT !.fc = 0]
  <2>1. entries[i] \in ProxyEntry
    BY <1>0 DEF PoolTypes
  <2>2. /\ x \in ProxyEntry /\ x.addr = entries[i].addr /\ x.here
        /\ x.fc = 0 /\ (x.enabled <=> entries[i].enabled)
    BY <1>2, <2>1 DEF ProxyEntry
  <2>3. SetEntry(i, x) /\ call' = Step(a, "count", i, x, "MarkSuccess")
    BY <1>1 DEF MarkSuccess
  <2> HIDE DEF x
  <2> QED BY <2>2, <2>3
<1>4. /\ call' \in [PoolActors -> PoolCallRecord]
      /\ call'[a].step = "count" /\ call'[a].id = i
      /\ call'[a].entry = e /\ call'[a].op = "MarkSuccess"
      /\ \A b \in PoolActors \ {a} : call'[b] = call[b]
  BY <1>0, <1>3, StepsTo DEF PoolSteps, PoolOps
<1>5. /\ entries' \in [ProxyIds -> ProxyEntry] /\ entries'[i] = e
      /\ \A j \in ProxyIds \ {i} : entries'[j] = entries[j]
      /\ raced \subseteq raced' /\ raced' \subseteq raced \cup {i}
      /\ \A c \in PoolClients : Calls(c, "picked") /\ call[c].id = i => i \in raced'
      /\ late \subseteq late' /\ late' \subseteq late \cup {i}
      /\ \A b \in PoolActors : Writing(b, i) => i \in late'
      /\ UNCHANGED <<transports, proxyHash, enabledSet, touches, usedIds, deleted>>
  BY <1>0, <1>3, EntrySet DEF MarkSuccess
<1>6. PoolTypes'
  BY <1>0, <1>1, <1>2, <1>3, <1>4, <1>5, Actors, NoEntryFields DEF PoolTypes
<1>7. PoolShape'
  <2>1. \A b \in PoolActors : call'[b].step # "idle" => call'[b].id \in usedIds'
    BY <1>0, <1>1, <1>2, <1>3, <1>4, <1>5 DEF PoolInv, PoolShape
  <2>2. ASSUME NEW c \in PoolClients PROVE ClientShape(c)'
    BY <1>0, <1>1, <1>2, <1>3, <1>4, <1>5, <2>2, Actors, NoEntryFields DEF PoolInv, PoolShape, ClientShape
  <2>3. DashboardShape(Dashboard)'
    <3>1. CASE a = Dashboard
      BY <1>0, <1>1, <1>2, <1>3, <1>4, <1>5, <3>1, NoEntryFields DEF PoolInv, PoolShape, DashboardShape
    <3>2. CASE a # Dashboard
      <4>1. call'[Dashboard] = call[Dashboard]
        BY <1>0, <1>1, <1>2, <1>3, <1>4, <1>5, Actors
      <4>2. call[Dashboard].step # "idle" => call[Dashboard].id \in ProxyIds
        BY <1>0, <1>1, <1>2, <1>3, <1>4, <1>5, Actors DEF PoolInv, PoolShape, PoolTypes
      <4>3. DashboardShape(Dashboard)
        BY DEF PoolInv, PoolShape
      <4>4. call[Dashboard].op \in {"Add", "Delete"} => call[Dashboard].id # i
        BY <1>0, <1>1, <1>2, <1>3, <1>4, <1>5, <4>3, NoEntryFields DEF DashboardShape
      <4> QED BY <1>0, <1>1, <1>2, <1>3, <1>4, <1>5, <4>1, <4>2, <4>3, <4>4 DEF DashboardShape
    <3> QED BY <3>1, <3>2
  <2>4. \A j \in ProxyIds : ~entries'[j].here => entries'[j] = NoEntry
    BY <1>0, <1>1, <1>2, <1>3, <1>4, <1>5, NoEntryFields DEF PoolInv, PoolShape
  <2> QED BY <2>1, <2>2, <2>3, <2>4 DEF PoolShape
<1>8. FreshIds'
  <2>1. \A b \in PoolActors : call[b].step # "idle" => call[b].id \in usedIds
    BY DEF PoolInv, PoolShape
  <2>2. \A j \in ProxyIds \ usedIds' : entries'[j] = NoEntry /\ proxyHash'[j] = NoEntry
                                       /\ transports'[j] = NoAddress
    BY <1>0, <1>1, <1>2, <1>3, <1>4, <1>5, <2>1 DEF PoolInv, FreshIds
  <2>3. enabledSet' \cup touches' \cup deleted' \subseteq usedIds'
    BY <1>0, <1>1, <1>2, <1>3, <1>4, <1>5, <2>1 DEF PoolInv, FreshIds
  <2>4. call'[Dashboard].op = "Add" =>
          /\ transports'[call'[Dashboard].id] = NoAddress
          /\ \A c \in PoolClients : call'[c].step # "idle" => call'[c].id # call'[Dashboard].id
    <3>0. call[Dashboard].op = "Add" => call[Dashboard].id \in ProxyIds
      BY <1>0, <1>1, <1>2, <1>3, <1>4, <1>5, <2>1, Actors DEF PoolInv, PoolShape, DashboardShape, PoolTypes
    <3>1. CASE a = Dashboard
      BY <1>0, <1>1, <1>2, <1>3, <1>4, <1>5, <2>1, <3>0, <3>1, Actors DEF PoolInv, FreshIds, PoolTypes
    <3>2. CASE a # Dashboard
      <4>1. call'[Dashboard] = call[Dashboard] /\ a \in PoolClients
        BY <1>0, <1>1, <1>2, <1>3, <1>4, <1>5, <3>2, Actors
      <4>2. call[Dashboard].op = "Add" => transports'[call[Dashboard].id] = NoAddress
        BY <1>0, <1>1, <1>2, <1>3, <1>4, <1>5, <3>0, <4>1 DEF PoolInv, FreshIds
      <4> QED BY <1>0, <1>1, <1>2, <1>3, <1>4, <1>5, <2>1, <4>1, <4>2, Actors DEF PoolInv, FreshIds
    <3> QED BY <3>1, <3>2
  <2> QED BY <2>2, <2>3, <2>4 DEF FreshIds
<1>9. PickedCurrent'
  <2>1. \A c \in PoolClients : call[c].step # "idle" => call[c].id \in ProxyIds
    BY <1>0, Actors DEF PoolInv, PoolShape, PoolTypes
  <2> QED BY <1>0, <1>1, <1>2, <1>3, <1>4, <1>5, <2>1, Actors DEF PoolInv, PickedCurrent, Calls
<1>10. TransportCurrent'
  BY <1>0, <1>1, <1>2, <1>3, <1>4, <1>5, Actors, NoEntryFields DEF PoolInv, TransportCurrent, Calls
<1>11. DeletedOff'
  BY <1>0, <1>1, <1>2, <1>3, <1>4, <1>5, Actors, NoEntryFields DEF PoolInv, DeletedOff, DeletedStaysOff, enabled
<1>12. WritesInOrder'
  <2> SUFFICES ASSUME NEW j \in ProxyIds \ late' PROVE InOrder(j)'
    BY DEF WritesInOrder
  <2>1. InOrder(j)
    BY <1>0, <1>1, <1>2, <1>3, <1>4, <1>5 DEF PoolInv, WritesInOrder
  <2>2. CASE j # i
    <3>1. ~OnEntry(a, j) /\ ~OnEntry(a, j)'
      BY <1>0, <1>1, <1>2, <1>3, <1>4, <1>5, <2>2, Actors DEF OnEntry, Writing, Calls, PoolInv, PoolShape, ClientShape, DashboardShape
    <3> QED BY <1>0, <1>1, <1>2, <1>3, <1>4, <1>5, <2>1, <2>2, <3>1, InOrderFrame
  <2>3. CASE j = i
    <3>1. \A b \in PoolActors : ~Writing(b, i) /\ ~Saving(b, i)
      BY <1>0, <1>1, <1>2, <1>3, <1>4, <1>5, <2>3 DEF Saving
    <3>2. Saving(a, i)' /\ \A b \in PoolActors : Writing(b, i)' => b = a
      BY <1>0, <1>1, <1>2, <1>3, <1>4, <1>5, <3>1 DEF Saving, Writing
    <3>3. \A b \in PoolActors : call'[b].id = i =>
            /\ call'[b].step = "count" => b = a
            /\ call'[b].step # "member" /\ call'[b].step # "append"
      BY <1>0, <1>1, <1>2, <1>3, <1>4, <1>5, <3>1, AppendAlone DEF Writing
    <3>4. \A b \in PoolActors : call'[b].id = i => call'[b].op # "Delete"
      BY <1>0, <1>1, <1>2, <1>3, <1>4, <1>5, NoEntryFields, Actors DEF PoolInv, PoolShape, ClientShape, DashboardShape
    <3>5. i \in enabledSet => entries[i].enabled
      BY <1>0, <1>1, <1>2, <1>3, <1>4, <1>5, <2>1, <2>3, <3>1 DEF InOrder
    <3>6. \A b, c \in PoolActors : Writing(b, i)' /\ Writing(c, i)' => b = c
      BY <3>2
    <3>7. entries'[i].enabled => entries'[i].fc < FailThreshold
      BY <1>0, <1>1, <1>2, <1>3, <1>4, <1>5, <2>1, <2>3, PoolAssumption DEF InOrder
    <3>8. \A b \in PoolActors : Writing(b, i)' => call'[b].op = "Add" \/ call'[b].entry = entries'[i]
      BY <1>0, <1>1, <1>2, <1>3, <1>4, <1>5, <3>2
    <3>9. ~(\A b \in PoolActors : ~Saving(b, i)')
      BY <3>2
    <3>10. (\A b \in PoolActors : Saving(b, i)' => call'[b].step = "count") =>
             (i \in enabledSet' /\ entries'[i].here => entries'[i].enabled)
      BY <1>0, <1>1, <1>2, <1>3, <1>4, <1>5, <3>2, <3>5
    <3>11. \A b \in PoolActors : call'[b].id = i =>
             /\ call'[b].step # "member" /\ call'[b].step # "append" /\ call'[b].op # "Delete"
             /\ call'[b].step = "count" => entries'[i].here
      BY <1>0, <1>1, <1>2, <1>3, <1>4, <1>5, <3>3, <3>4
    <3> QED BY <2>3, <3>6, <3>7, <3>8, <3>9, <3>10, <3>11 DEF InOrder, Calls
  <2> QED BY <2>2, <2>3
<1> QED BY <1>6, <1>7, <1>8, <1>9, <1>10, <1>11, <1>12 DEF PoolInv

(* The request's entry is gone, or has no failures to forget. *)
LEMMA NothingMarkedKeeps ==
  ASSUME PoolInv, NEW a \in PoolActors, Returns(a), call[a].step \in {"failed", "succeeded"},
         UNCHANGED <<entries, transports, proxyHash, enabledSet, touches, usedIds, deleted, raced, late>>
  PROVE  PoolInv'
<1>0. PoolTypes
  BY DEF PoolInv
<1>1. PICK i \in ProxyIds : i = call[a].id
  BY <1>0 DEF PoolInv, PoolShape, PoolTypes
<1>2. a \in PoolClients /\ a # Dashboard
  BY <1>1, Actors DEF PoolInv, PoolShape, DashboardShape
<1>3. /\ call' \in [PoolActors -> PoolCallRecord]
      /\ call'[a].step = "idle" /\ call'[a].op = "none"
      /\ \A b \in PoolActors \ {a} : call'[b] = call[b]
  BY <1>0, ReturnsIdle
<1>4. UNCHANGED <<entries, transports, proxyHash, enabledSet, touches, usedIds, deleted, raced, late>>
  OBVIOUS
<1>5. PoolTypes'
  BY <1>0, <1>1, <1>2, <1>3, <1>4, Actors, NoEntryFields DEF PoolTypes
<1>6. PoolShape'
  <2>1. \A b \in PoolActors : call'[b].step # "idle" => call'[b].id \in usedIds'
    BY <1>0, <1>1, <1>2, <1>3, <1>4 DEF PoolInv, PoolShape
  <2>2. ASSUME NEW c \in PoolClients PROVE ClientShape(c)'
    BY <1>0, <1>1, <1>2, <1>3, <1>4, <2>2, Actors, NoEntryFields DEF PoolInv, PoolShape, ClientShape
  <2>3. DashboardShape(Dashboard)'
    <3>1. CASE a = Dashboard
      BY <1>0, <1>1, <1>2, <1>3, <1>4, <3>1, NoEntryFields DEF PoolInv, PoolShape, DashboardShape
    <3>2. CASE a # Dashboard
      BY <1>0, <1>1, <1>2, <1>3, <1>4, <3>2, Actors, NoEntryFields DEF PoolInv, PoolShape, DashboardShape, ClientShape
    <3> QED BY <3>1, <3>2
  <2>4. \A j \in ProxyIds : ~entries'[j].here => entries'[j] = NoEntry
    BY <1>0, <1>1, <1>2, <1>3, <1>4, NoEntryFields DEF PoolInv, PoolShape
  <2> QED BY <2>1, <2>2, <2>3, <2>4 DEF PoolShape
<1>7. FreshIds'
  <2>1. \A b \in PoolActors : call[b].step # "idle" => call[b].id \in usedIds
    BY DEF PoolInv, PoolShape
  <2>2. \A j \in ProxyIds \ usedIds' : entries'[j] = NoEntry /\ proxyHash'[j] = NoEntry
                                       /\ transports'[j] = NoAddress
    BY <1>0, <1>1, <1>2, <1>3, <1>4, <2>1 DEF PoolInv, FreshIds
  <2>3. enabledSet' \cup touches' \cup deleted' \subseteq usedIds'
    BY <1>0, <1>1, <1>2, <1>3, <1>4, <2>1 DEF PoolInv, FreshIds
  <2>4. call'[Dashboard].op = "Add" =>
          /\ transports'[call'[Dashboard].id] = NoAddress
          /\ \A c \in PoolClients : call'[c].step # "idle" => call'[c].id # call'[Dashboard].id
    <3>0. call[Dashboard].op = "Add" => call[Dashboard].id \in ProxyIds
      BY <1>0, <1>1, <1>2, <1>3, <1>4, <2>1, Actors DEF PoolInv, PoolShape, DashboardShape, PoolTypes
    <3>1. CASE a = Dashboard
      BY <1>0, <1>1, <1>2, <1>3, <1>4, <2>1, <3>0, <3>1, Actors DEF PoolInv, FreshIds, PoolTypes
    <3>2. CASE a # Dashboard
      <4>1. call'[Dashboard] = call[Dashboard] /\ a \in PoolClients
        BY <1>0, <1>1, <1>2, <1>3, <1>4, <3>2, Actors
      <4>2. call[Dashboard].op = "Add" => transports'[call[Dashboard].id] = NoAddress
        BY <1>0, <1>1, <1>2, <1>3, <1>4, <3>0, <4>1 DEF PoolInv, FreshIds
      <4> QED BY <1>0, <1>1, <1>2, <1>3, <1>4, <2>1, <4>1, <4>2, Actors DEF PoolInv, FreshIds
    <3> QED BY <3>1, <3>2
  <2> QED BY <2>2, <2>3, <2>4 DEF FreshIds
<1>8. PickedCurrent'
  <2>1. \A c \in PoolClients : call[c].step # "idle" => call[c].id \in ProxyIds
    BY <1>0, Actors DEF PoolInv, PoolShape, PoolTypes
  <2> QED BY <1>0, <1>1, <1>2, <1>3, <1>4, <2>1, Actors DEF PoolInv, PickedCurrent, Calls
<1>9. TransportCurrent'
  BY <1>0, <1>1, <1>2, <1>3, <1>4, Actors, NoEntryFields DEF PoolInv, TransportCurrent, Calls
<1>10. DeletedOff'
  BY <1>0, <1>1, <1>2, <1>3, <1>4, Actors, NoEntryFields DEF PoolInv, DeletedOff, DeletedStaysOff, enabled
<1>11. WritesInOrder'
  <2> SUFFICES ASSUME NEW j \in ProxyIds \ late' PROVE InOrder(j)'
    BY DEF WritesInOrder
  <2>1. InOrder(j)
    BY <1>0, <1>1, <1>2, <1>3, <1>4 DEF PoolInv, WritesInOrder
  <2>2. ~OnEntry(a, j) /\ ~OnEntry(a, j)'
    BY <1>0, <1>1, <1>2, <1>3, <1>4, Actors DEF OnEntry, Writing, Calls, PoolInv, PoolShape, ClientShape, DashboardShape
  <2> QED BY <1>0, <1>1, <1>2, <1>3, <1>4, <2>1, <2>2, InOrderFrame
<1> QED BY <1>5, <1>6, <1>7, <1>8, <1>9, <1>10, <1>11 DEF PoolInv

-----------------------------------------------------------------------------
(* A touch of a request, and a restart                                     *)

LEMMA UpdateProxyLastUsedKeeps ==
  ASSUME PoolInv, NEW i \in ProxyIds, UpdateProxyLastUsed(i)
  PROVE  PoolInv'
<1>0. PoolTypes /\ i \in usedIds
  BY DEF PoolInv, FreshIds, UpdateProxyLastUsed
<1>1. /\ touches' = touches \ {i}
      /\ UNCHANGED <<entries, transports, enabledSet, call, usedIds, deleted, raced, late>>
  BY DEF UpdateProxyLastUsed
<1>2. /\ proxyHash' \in [ProxyIds -> ProxyEntry]
      /\ proxyHash'[i].fc = proxyHash[i].fc
      /\ \A j \in ProxyIds \ {i} : proxyHash'[j] = proxyHash[j]
  <2> DEFINE h == [proxyHash[i] EXCEPT !.here = TRUE]
  <2>0. proxyHash[i] \in ProxyEntry
    BY <1>0 DEF PoolTypes
  <2>1. h \in ProxyEntry /\ h.fc = proxyHash[i].fc
    BY <2>0 DEF ProxyEntry
  <2>2. proxyHash' \in {proxyHash, [proxyHash EXCEPT ![i] = h]}
    BY <1>0 DEF UpdateProxyLastUsed, PoolTypes
  <2> HIDE DEF h
  <2> QED BY <1>0, <2>1, <2>2 DEF PoolTypes
<1>3. PoolTypes'
  BY <1>0, <1>1, <1>2 DEF PoolTypes
<1>4. PoolShape'
  BY <1>1 DEF PoolInv, PoolShape, ClientShape, DashboardShape
<1>5. FreshIds'
  BY <1>0, <1>1, <1>2 DEF PoolInv, FreshIds
<1>6. PickedCurrent' /\ TransportCurrent'
  BY <1>1 DEF PoolInv, PickedCurrent, TransportCurrent, Calls
<1>7. DeletedOff'
  BY <1>1 DEF PoolInv, DeletedOff, DeletedStaysOff, enabled
<1>8. WritesInOrder'
  <2> SUFFICES ASSUME NEW j \in ProxyIds \ late' PROVE InOrder(j)'
    BY DEF WritesInOrder
  <2>1. InOrder(j) /\ proxyHash'[j].fc = proxyHash[j].fc
    BY <1>1, <1>2 DEF PoolInv, WritesInOrder
  <2> QED BY <1>1, <2>1, InOrderFrame
<1> QED BY <1>3, <1>4, <1>5, <1>6, <1>7, <1>8 DEF PoolInv

LEMMA LoadKeeps ==
  ASSUME PoolInv, Load
  PROVE  PoolInv'
<1>0. PoolTypes
  BY DEF PoolInv
<1>1. /\ \A a \in PoolActors : call'[a].step = "idle" /\ call'[a].op = "none"
      /\ call' \in [PoolActors -> PoolCallRecord]
  BY NoCallFields DEF Load
<1>11. PICK answered \in SUBSET ProxyIds, members \in {enabledSet, {}} :
         /\ entries' = LoadProxies(answered, members)
         /\ late' = late \cup {i \in ProxyIds : \E a \in PoolActors : Writing(a, i)}
                        \cup (enabledSet \ members)
  BY DEF Load
<1>2. /\ UNCHANGED <<proxyHash, enabledSet, usedIds, deleted>>
      /\ raced' = {} /\ touches' = {}
      /\ late \subseteq late' /\ late' \subseteq ProxyIds
      /\ \A i \in ProxyIds \ late' : \A a \in PoolActors : ~Writing(a, i)
      /\ members \subseteq enabledSet /\ \A i \in ProxyIds \ late' : i \in enabledSet => i \in members
      /\ transports' \in [ProxyIds -> Addresses \cup {NoAddress}]
      /\ \A i \in ProxyIds : transports'[i] = NoAddress
  <2>1. /\ UNCHANGED <<proxyHash, enabledSet, usedIds, deleted>> /\ raced' = {} /\ touches' = {}
        /\ transports' \in [ProxyIds -> Addresses \cup {NoAddress}]
        /\ \A i \in ProxyIds : transports'[i] = NoAddress
    BY DEF Load
  <2> QED BY <1>0, <1>11, <2>1 DEF PoolTypes
<1>3. ASSUME NEW i \in ProxyIds
      PROVE  /\ entries'[i] \in ProxyEntry
             /\ ~proxyHash[i].here => entries'[i] = NoEntry
             /\ \/ entries'[i] = NoEntry
                \/ /\ entries'[i].here /\ entries'[i].fc = proxyHash[i].fc
                   /\ entries'[i].enabled <=> i \in members
  <2>1. proxyHash[i] \in ProxyEntry
    BY <1>0 DEF PoolTypes
  <2>2. /\ dtoToEntry(i, members) \in ProxyEntry
        /\ proxyHash[i].here => dtoToEntry(i, members).here
        /\ dtoToEntry(i, members).fc = proxyHash[i].fc
        /\ dtoToEntry(i, members).enabled <=> i \in members
    <3>1. PICK on \in BOOLEAN : on <=> i \in members
      OBVIOUS
    <3>2. on = (i \in members)
      BY <3>1, Zenon
    <3>3. dtoToEntry(i, members) = [proxyHash[i] EXCEPT !.enabled = on]
      BY <3>2, Zenon DEF dtoToEntry
    <3>4. PICK e \in ProxyEntry : e = proxyHash[i]
      BY <2>1
    <3>5. /\ [e EXCEPT !.enabled = on] \in ProxyEntry
          /\ [e EXCEPT !.enabled = on].here = e.here
          /\ [e EXCEPT !.enabled = on].fc = e.fc
          /\ [e EXCEPT !.enabled = on].enabled = on
      BY DEF ProxyEntry
    <3> QED BY <3>1, <3>3, <3>4, <3>5
  <2>3. entries'[i] = IF proxyHash[i].here /\ i \in answered THEN dtoToEntry(i, members) ELSE NoEntry
    BY <1>11 DEF LoadProxies
  <2> QED BY <2>2, <2>3, NoEntryFields
<1>4. entries' \in [ProxyIds -> ProxyEntry]
  <2>1. entries' = [i \in ProxyIds |-> entries'[i]]
    BY <1>11 DEF LoadProxies
  <2> QED BY <1>3, <2>1
<1>5. PoolTypes'
  BY <1>0, <1>1, <1>2, <1>4 DEF PoolTypes
<1>6. PoolShape'
  BY <1>1, <1>3, Actors, NoEntryFields DEF PoolShape, ClientShape, DashboardShape
<1>7. FreshIds'
  BY <1>1, <1>2, <1>3, Actors, NoEntryFields DEF PoolInv, FreshIds
<1>8. PickedCurrent' /\ TransportCurrent'
  BY <1>1, <1>2, Actors DEF PickedCurrent, TransportCurrent, Calls
<1>9. DeletedOff'
  BY <1>1, <1>2, <1>3, Actors, NoEntryFields DEF PoolInv, DeletedOff, DeletedStaysOff, enabled
<1>10. WritesInOrder'
  <2> SUFFICES ASSUME NEW j \in ProxyIds \ late' PROVE InOrder(j)'
    BY DEF WritesInOrder
  <2>1. InOrder(j) /\ \A a \in PoolActors : ~Writing(a, j) /\ ~Saving(a, j)
    BY <1>2 DEF PoolInv, WritesInOrder, Saving
  <2>2. \A a \in PoolActors : ~Writing(a, j)' /\ ~Saving(a, j)'
    BY <1>1 DEF Writing, Saving
  <2>3. j \in enabledSet => proxyHash[j].fc < FailThreshold
    BY <2>1 DEF InOrder
  <2> QED BY <1>1, <1>2, <1>3, <2>2, <2>3, NoEntryFields DEF InOrder, Calls
<1> QED BY <1>5, <1>6, <1>7, <1>8, <1>9, <1>10 DEF PoolInv

-----------------------------------------------------------------------------
LEMMA PoolInvInit == PoolInit => PoolInv
<1> SUFFICES ASSUME PoolInit PROVE PoolInv
  OBVIOUS
<1>1. /\ \A a \in PoolActors : call[a].step = "idle" /\ call[a].op = "none"
      /\ call \in [PoolActors -> PoolCallRecord]
  BY NoCallFields DEF PoolInit
<1>2. /\ \A i \in ProxyIds : entries[i] = NoEntry /\ proxyHash[i] = NoEntry
                             /\ transports[i] = NoAddress
      /\ enabledSet = {} /\ touches = {} /\ usedIds = {} /\ deleted = {}
      /\ raced = {} /\ late = {}
  BY DEF PoolInit
<1>3. PoolTypes
  BY <1>1, NoEntryFields DEF PoolInit, PoolTypes
<1>4. PoolShape
  BY <1>1, <1>2, Actors DEF PoolShape, ClientShape, DashboardShape
<1>5. FreshIds /\ PickedCurrent /\ TransportCurrent
  BY <1>1, <1>2, Actors DEF FreshIds, PickedCurrent, TransportCurrent, Calls
<1>6. DeletedOff
  BY <1>1, <1>2 DEF DeletedOff, DeletedStaysOff
<1>7. WritesInOrder
  BY <1>1, <1>2, NoEntryFields DEF WritesInOrder, InOrder, Writing, Saving, Calls
<1> QED BY <1>3, <1>4, <1>5, <1>6, <1>7 DEF PoolInv

LEMMA PoolInvStep == PoolInv /\ [PoolNext]_poolVars => PoolInv'
<1> SUFFICES ASSUME PoolInv, [PoolNext]_poolVars PROVE PoolInv'
  OBVIOUS
<1>1. ASSUME NEW a \in PoolActors, PoolStep(a) PROVE PoolInv'
  <2>1. CASE ForgetTransport(a) \/ SaveProxyHash(a) \/ SaveProxyMember(a) \/ SaveProxyMemberFails(a)
    BY <2>1, ForgetTransportKeeps, SaveProxyHashKeeps, SaveProxyMemberKeeps
  <2>2. CASE \/ UpdateProxyFailCount(a) \/ DeleteProxyHash(a)
             \/ DeleteProxyMember(a) \/ DeleteProxyMemberFails(a) \/ RedisRefuses(a)
    BY <2>2, UpdateProxyFailCountKeeps, DeleteProxyHashKeeps, DeleteProxyMemberKeeps,
       RedisRefusesKeeps
  <2>3. CASE AddAppends(a) \/ Update(a)
    BY <2>3, AddAppendsKeeps, UpdateKeeps
  <2>4. CASE getClient(a)
    BY <2>4, NextKeeps, TransportKeeps DEF getClient
  <2>5. CASE markProxyResult(a)
    BY <2>5, markProxyResultKeeps
  <2>6. CASE MarkFailed(a)
    <3>1. CASE entries[call[a].id].here
      BY <2>6, <3>1, MarkFailedKeeps
    <3>2. CASE ~entries[call[a].id].here
      <4>1. /\ Returns(a) /\ call[a].step = "failed"
            /\ UNCHANGED <<entries, transports, proxyHash, enabledSet, touches, usedIds, deleted,
                           raced, late>>
        BY <2>6, <3>2 DEF MarkFailed, Calls
      <4> QED BY <4>1, NothingMarkedKeeps
    <3> QED BY <3>1, <3>2
  <2>7. CASE MarkSuccess(a)
    <3>1. CASE entries[call[a].id].fc # 0
      BY <2>7, <3>1, MarkSuccessKeeps
    <3>2. CASE entries[call[a].id].fc = 0
      <4>1. /\ Returns(a) /\ call[a].step = "succeeded"
            /\ UNCHANGED <<entries, transports, proxyHash, enabledSet, touches, usedIds, deleted,
                           raced, late>>
        BY <2>7, <3>2 DEF MarkSuccess, Calls
      <4> QED BY <4>1, NothingMarkedKeeps
    <3> QED BY <3>1, <3>2
  <2> QED BY <1>1, <2>1, <2>2, <2>3, <2>4, <2>5, <2>6, <2>7 DEF PoolStep
<1>2. ASSUME NEW a \in PoolActors, NEW i \in ProxyIds, PoolCall(a, i) PROVE PoolInv'
  BY <1>2, AddKeeps, DeleteKeeps, ToggleKeeps, HandleUpdateProxyKeeps
     DEF PoolCall, HandleAddProxy, HandleDeleteProxy, HandleToggleProxy
<1>3. CASE UNCHANGED poolVars
  <2>1. UNCHANGED <<entries, transports, proxyHash, enabledSet, touches, call, usedIds, deleted,
                    raced, late>>
    BY <1>3 DEF poolVars
  <2>2. PoolTypes' /\ PoolShape' /\ FreshIds' /\ PickedCurrent' /\ TransportCurrent' /\ DeletedOff'
    BY <2>1 DEF PoolInv, PoolTypes, PoolShape, ClientShape, DashboardShape, FreshIds,
                PickedCurrent, TransportCurrent, DeletedOff, DeletedStaysOff, enabled, Calls
  <2>3. WritesInOrder'
    BY <2>1, InOrderFrame DEF PoolInv, WritesInOrder
  <2> QED BY <2>2, <2>3 DEF PoolInv
<1> QED BY <1>1, <1>2, <1>3, UpdateProxyLastUsedKeeps, LoadKeeps DEF PoolNext

LEMMA PoolInvHolds == PoolSpec => []PoolInv
  BY PoolInvInit, PoolInvStep, PTL DEF PoolSpec

(* Requests go through the proxy the operator configured: a cached         *)
(* transport dials the address of its entry, through updates, deletions,   *)
(* counts and restarts, unless a request was between Next and Transport    *)
(* when the entry was changed (SetEntry under p.mu, forgetTransport).      *)
THEOREM TransportCurrentHolds == PoolSpec => []TransportCurrent
<1>1. PoolInv => TransportCurrent
  BY DEF PoolInv
<1> QED BY <1>1, PoolInvHolds, PTL

(* A proxy whose hash and membership were deleted carries no request       *)
(* again, whatever late writes of requests leave in Redis, whichever other *)
(* commands fail and however often the process restarts, until the         *)
(* operator enables it (DeleteProxy, MarkFailed, LoadProxies).             *)
THEOREM DeletedStaysOffHolds == PoolSpec => []DeletedStaysOff
<1>1. PoolInv => DeletedStaysOff
  BY DEF PoolInv, DeletedOff
<1> QED BY <1>1, PoolInvHolds, PTL

(* An enabled proxy has failures left before MarkFailed disables it, after *)
(* a restart too, unless its writes crossed, failed or were cut off        *)
(* (MarkFailed, MarkSuccess, SaveProxy, UpdateProxyFailCount).             *)
THEOREM EnabledBelowThresholdHolds == PoolSpec => []EnabledBelowThreshold
<1>1. PoolInv => EnabledBelowThreshold
  BY DEF PoolInv, WritesInOrder, InOrder, EnabledBelowThreshold, enabled
<1> QED BY <1>1, PoolInvHolds, PTL
=============================================================================
