----------------------- MODULE AnthropicStreamProofs -----------------------
(***************************************************************************)
(* Proofs about the answer side of POST /v1/messages, for every set of     *)
(* tool indexes, every set of chunks and every length of the answer: the   *)
(* events streamWriter emits follow the protocol of MessageStream, and     *)
(* every request is answered once.                                         *)
(*                                                                         *)
(* The invariant compares the writer with the client: the events not yet   *)
(* flushed are accepted one after the other and lead the client from the   *)
(* picture it has to the one the flags of the writer describe.  Each       *)
(* method of streamWriter keeps that, and Flush moves one event across.    *)
(***************************************************************************)
EXTENDS AnthropicStream, SequenceTheorems, FiniteSetTheorems, WellFoundedInduction, TLAPS

(* A non-empty set of naturals has a least member. *)
LEMMA LeastBelow ==
  ASSUME NEW D, D \subseteq Nat, D # {}
  PROVE  \E x \in D : \A y \in D : x <= y
<1>1. PICK x \in D : \A y \in D : ~ (<<y, x>> \in OpToRel(<, Nat))
  BY NatLessThanWellFounded, WFMin
<1>2. ASSUME NEW y \in D PROVE x <= y
  <2>1. <<y, x>> \in OpToRel(<, Nat) <=> <<y, x>> \in {p \in Nat \X Nat : p[1] < p[2]}
    BY Zenon DEF OpToRel
  <2>2. y < x => <<y, x>> \in {p \in Nat \X Nat : p[1] < p[2]}
    OBVIOUS
  <2>3. ~ (y < x)
    BY <1>1, <2>1, <2>2, Zenon
  <2> QED BY <2>3
<1> QED BY <1>2

-----------------------------------------------------------------------------
(* The answer to POST /v1/messages.  The picture the client has of the     *)
(* message, what it accepts as the next event, and what it makes of it.    *)

Phases == {"idle", "message", "summed", "ended"}
BlockStates == {"absent", "open", "closed"}
Pictures == [phase : Phases, block : [Indexes -> BlockStates]]

EventNames == {"message_start", "content_block_start", "content_block_delta",
               "content_block_stop", "message_delta", "message_stop"}
Events == [event : EventNames, index : Indexes, data : Nat \cup {"tool_use", "end_turn"}]

IsLate(b) == b[0] = "closed" /\ \E j \in Indexes \ {0} : b[j] = "open"

Accepts(s, e) ==
  \/ e.event = "message_start" /\ e.index = 0 /\ s.phase = "idle"
  \/ e.event = "content_block_start" /\ s.phase = "message" /\ s.block[e.index] = "absent"
  \/ /\ e.event = "content_block_delta" /\ s.phase = "message"
     /\ s.block[e.index] = "open" \/ (e.index = 0 /\ IsLate(s.block))
  \/ e.event = "content_block_stop" /\ s.phase = "message" /\ s.block[e.index] = "open"
  \/ /\ e.event = "message_delta" /\ e.index = 0 /\ s.phase = "message"
     /\ \A i \in Indexes : s.block[i] # "open"
  \/ e.event = "message_stop" /\ e.index = 0 /\ s.phase = "summed"

NextPhase(p, e) ==
  IF e.event = "message_start" THEN "message"
  ELSE IF e.event = "message_delta" THEN "summed"
  ELSE IF e.event = "message_stop" THEN "ended" ELSE p

NextBlocks(b, e) ==
  IF e.event = "content_block_start" THEN [b EXCEPT ![e.index] = "open"]
  ELSE IF e.event = "content_block_stop" THEN [b EXCEPT ![e.index] = "closed"] ELSE b

After(s, e) == [phase |-> NextPhase(s.phase, e), block |-> NextBlocks(s.block, e)]

(* The events of q, one after the other, are accepted and lead from        *)
(* picture s to picture z.                                                 *)
Leads(s, q, z) ==
  \E st \in [1 .. (Len(q) + 1) -> Pictures] :
    /\ st[1] = s /\ st[Len(q) + 1] = z
    /\ \A k \in 1 .. Len(q) : Accepts(st[k], q[k]) /\ st[k + 1] = After(st[k], q[k])

LEMMA AfterType ==
  ASSUME NEW s \in Pictures, NEW e \in Events
  PROVE  After(s, e) \in Pictures
<1>1. s.phase \in Phases /\ s.block \in [Indexes -> BlockStates] /\ e.index \in Indexes
  BY DEF Pictures, Events
<1>2. NextPhase(s.phase, e) \in Phases
  BY <1>1 DEF NextPhase, Phases
<1>3. NextBlocks(s.block, e) \in [Indexes -> BlockStates]
  BY <1>1 DEF NextBlocks, BlockStates
<1> QED BY <1>2, <1>3 DEF After, Pictures

LEMMA LeadsNowhere ==
  ASSUME NEW s \in Pictures, NEW q, q = <<>>
  PROVE  Leads(s, q, s)
<1>1. Len(q) = 0
  OBVIOUS
<1>2. PICK st : st = [k \in 1 .. 1 |-> s]
  OBVIOUS
<1>3. st \in [1 .. (Len(q) + 1) -> Pictures] /\ st[1] = s /\ st[Len(q) + 1] = s
  BY <1>1, <1>2
<1>4. \A k \in 1 .. Len(q) : Accepts(st[k], q[k]) /\ st[k + 1] = After(st[k], q[k])
  BY <1>1
<1> QED BY <1>3, <1>4 DEF Leads

LEMMA LeadsOn ==
  ASSUME NEW s, NEW q \in Seq(Events), NEW z, Leads(s, q, z), NEW e \in Events, Accepts(z, e),
         NEW r, r = Append(q, e)
  PROVE  Leads(s, r, After(z, e))
<1>1. PICK st \in [1 .. (Len(q) + 1) -> Pictures] :
        /\ st[1] = s /\ st[Len(q) + 1] = z
        /\ \A k \in 1 .. Len(q) : Accepts(st[k], q[k]) /\ st[k + 1] = After(st[k], q[k])
  BY DEF Leads
<1>2. PICK n \in Nat : n = Len(q)
  OBVIOUS
<1>3. Len(r) = n + 1 /\ r[n + 1] = e /\ \A k \in 1 .. n : r[k] = q[k]
  BY <1>2
<1>4. PICK a \in Pictures : a = After(z, e)
  <2>1. z \in Pictures
    BY <1>1, <1>2
  <2> QED BY <2>1, AfterType
<1>5. PICK tt : tt = [k \in 1 .. (n + 2) |-> IF k = n + 2 THEN a ELSE st[k]]
  OBVIOUS
<1>6. \A k \in 1 .. (n + 2) : k = n + 2 \/ k \in 1 .. (n + 1)
  OBVIOUS
<1>7. /\ tt \in [1 .. (Len(r) + 1) -> Pictures]
      /\ tt[n + 2] = a /\ \A k \in 1 .. (n + 1) : tt[k] = st[k]
  <2>1. ASSUME NEW k \in 1 .. (n + 1) PROVE k \in 1 .. (n + 2) /\ k # n + 2 /\ tt[k] = st[k]
    BY <1>5
  <2>2. n + 2 \in 1 .. (n + 2) /\ tt[n + 2] = a
    BY <1>5
  <2>3. \A k \in 1 .. (n + 2) : tt[k] \in Pictures
    BY <1>1, <1>2, <1>6, <2>1, <2>2
  <2>4. Len(r) + 1 = n + 2
    BY <1>3
  <2> QED BY <1>5, <2>1, <2>2, <2>3, <2>4
<1>8. tt[1] = s /\ tt[Len(r) + 1] = After(z, e)
  <2>1. 1 \in 1 .. (n + 1) /\ Len(r) + 1 = n + 2
    BY <1>3
  <2> QED BY <1>1, <1>4, <1>7, <2>1
<1>9. ASSUME NEW k \in 1 .. Len(r)
      PROVE  Accepts(tt[k], r[k]) /\ tt[k + 1] = After(tt[k], r[k])
  <2>1. CASE k = n + 1
    <3>1. tt[k] = z /\ r[k] = e /\ tt[k + 1] = a
      <4>1. n + 1 \in 1 .. (n + 1) /\ (n + 1) + 1 = n + 2
        OBVIOUS
      <4> QED BY <1>1, <1>2, <1>3, <1>7, <2>1, <4>1
    <3> QED BY <1>4, <3>1
  <2>2. CASE k # n + 1
    <3>1. k \in 1 .. n /\ k \in 1 .. (n + 1) /\ k + 1 \in 1 .. (n + 1)
      BY <1>3, <2>2
    <3>2. tt[k] = st[k] /\ tt[k + 1] = st[k + 1] /\ r[k] = q[k]
      BY <1>3, <1>7, <3>1
    <3> QED BY <1>1, <1>2, <3>1, <3>2
  <2> QED BY <2>1, <2>2
<1> QED BY <1>7, <1>8, <1>9 DEF Leads

LEMMA LeadsFrom ==
  ASSUME NEW s, NEW q \in Seq(Events), q # <<>>, NEW z, Leads(s, q, z),
         NEW e, e = Head(q), NEW r, r = Tail(q)
  PROVE  Accepts(s, e) /\ Leads(After(s, e), r, z)
<1>1. PICK st \in [1 .. (Len(q) + 1) -> Pictures] :
        /\ st[1] = s /\ st[Len(q) + 1] = z
        /\ \A k \in 1 .. Len(q) : Accepts(st[k], q[k]) /\ st[k + 1] = After(st[k], q[k])
  BY DEF Leads
<1>2. PICK n \in Nat : Len(q) = n + 1
  <2>1. Len(q) \in Nat /\ Len(q) # 0
    OBVIOUS
  <2>2. Len(q) - 1 \in Nat /\ Len(q) = (Len(q) - 1) + 1
    BY <2>1
  <2> QED BY <2>2
<1>3. e = q[1] /\ Len(r) = n /\ \A k \in 1 .. n : r[k] = q[k + 1]
  BY <1>2
<1>4. Accepts(s, e) /\ st[1 + 1] = After(s, e)
  <2>1. 1 \in 1 .. Len(q)
    BY <1>2
  <2> QED BY <1>1, <1>3, <2>1
<1>5. PICK tt : tt = [k \in 1 .. (n + 1) |-> st[k + 1]]
  OBVIOUS
<1>6. \A k \in 1 .. (n + 1) : k + 1 \in 1 .. (Len(q) + 1)
  BY <1>2
<1>7. tt \in [1 .. (Len(r) + 1) -> Pictures] /\ \A k \in 1 .. (n + 1) : tt[k] = st[k + 1]
  BY <1>1, <1>3, <1>5, <1>6
<1>8. tt[1] = After(s, e) /\ tt[Len(r) + 1] = z
  <2>1. 1 \in 1 .. (n + 1) /\ n + 1 \in 1 .. (n + 1) /\ (n + 1) + 1 = Len(q) + 1
    BY <1>2
  <2> QED BY <1>1, <1>3, <1>4, <1>7, <2>1
<1>9. ASSUME NEW k \in 1 .. Len(r)
      PROVE  Accepts(tt[k], r[k]) /\ tt[k + 1] = After(tt[k], r[k])
  <2>1. k \in 1 .. n /\ k \in 1 .. (n + 1) /\ k + 1 \in 1 .. (n + 1) /\ k + 1 \in 1 .. Len(q)
    BY <1>2, <1>3
  <2>2. tt[k] = st[k + 1] /\ tt[k + 1] = st[(k + 1) + 1] /\ r[k] = q[k + 1]
    BY <1>3, <1>7, <2>1
  <2> QED BY <1>1, <2>1, <2>2
<1> QED BY <1>4, <1>7, <1>8, <1>9 DEF Leads

-----------------------------------------------------------------------------
(* The writer: its type, the shape of its tool blocks, and the picture the *)
(* client has once every event of it has been received.                    *)

Finishes == {"", "stop", "tool_calls"}
ToolBlocks == [idx : Nat, name : Nat, started : BOOLEAN, closed : BOOLEAN]
Writers == [started : BOOLEAN, textOpen : BOOLEAN, textClosed : BOOLEAN, stopped : BOOLEAN,
            finish : Finishes, tools : [ToolIndexes -> ToolBlocks], nextBlockIdx : Nat,
            errBuf : BOOLEAN, out : Seq(Events)]

Known(w) == {t \in ToolIndexes : w.tools[t].idx # 0}

(* The indexes given out are 1 .. nextBlockIdx - 1, one for each tool call *)
(* seen; no tool block is closed before the stream is.                     *)
Shape(w) ==
  /\ w.textClosed => w.textOpen
  /\ w.nextBlockIdx = Cardinality(Known(w)) + 1
  /\ \A t \in ToolIndexes : w.tools[t].idx < w.nextBlockIdx
  /\ \A t \in ToolIndexes : w.tools[t].started => w.tools[t].idx # 0
  /\ \A t \in ToolIndexes : w.tools[t].closed => (w.tools[t].started /\ w.stopped)
  /\ \A t, u \in ToolIndexes :
       (w.tools[t].idx = w.tools[u].idx /\ w.tools[t].idx # 0) => t = u
  /\ \A k \in 1 .. (w.nextBlockIdx - 1) : \E t \in ToolIndexes : w.tools[t].idx = k

TextState(w) == IF w.textClosed THEN "closed" ELSE IF w.textOpen THEN "open" ELSE "absent"
ToolState(tb) == IF tb.closed THEN "closed" ELSE IF tb.started THEN "open" ELSE "absent"

Shows(b, w) ==
  /\ b[0] = TextState(w)
  /\ \A t \in ToolIndexes : w.tools[t].idx # 0 => b[w.tools[t].idx] = ToolState(w.tools[t])
  /\ \A i \in Indexes : i >= w.nextBlockIdx => b[i] = "absent"

(* A client at picture s that receives the events of w is in phase ph and  *)
(* sees the blocks as w has them.                                          *)
Fits(w, s, ph) ==
  /\ w \in Writers /\ Shape(w)
  /\ \E z \in Pictures : Leads(s, w.out, z) /\ z.phase = ph /\ Shows(z.block, w)

(* Text after the text block was closed: some tool block is open.          *)
Late(w) == w.textClosed => \E t \in ToolIndexes : w.tools[t].started

LEMMA KnownBound ==
  ASSUME NEW w \in Writers, Shape(w)
  PROVE  /\ w.nextBlockIdx \in Nat \ {0} /\ 0 \in Indexes
         /\ \A i \in Indexes : i \in Nat
         /\ \A i \in 0 .. (w.nextBlockIdx - 1) : i \in Indexes
<1>1. IsFiniteSet(ToolIndexes) /\ Known(w) \subseteq ToolIndexes
  BY ChunkAssumption DEF Known
<1>2. /\ Cardinality(ToolIndexes) \in Nat /\ Cardinality(Known(w)) \in Nat
      /\ Cardinality(Known(w)) <= Cardinality(ToolIndexes)
  BY <1>1, FS_Subset, FS_CardinalityType
<1>3. w.nextBlockIdx = Cardinality(Known(w)) + 1
  BY DEF Shape
<1> QED BY <1>2, <1>3 DEF Indexes

LEMMA ToolFields ==
  ASSUME NEW w \in Writers, NEW t \in ToolIndexes
  PROVE  /\ w.tools \in [ToolIndexes -> ToolBlocks] /\ w.tools[t] \in ToolBlocks
         /\ w.tools[t].idx \in Nat /\ w.tools[t].name \in Nat
         /\ w.tools[t].started \in BOOLEAN /\ w.tools[t].closed \in BOOLEAN
  BY DEF Writers, ToolBlocks

LEMMA Emitted ==
  ASSUME NEW v \in Writers, NEW e \in Events, NEW x, x = emitEvent(v, e)
  PROVE  /\ x \in Writers /\ x.out = Append(v.out, e)
         /\ x.started = v.started /\ x.textOpen = v.textOpen /\ x.textClosed = v.textClosed
         /\ x.stopped = v.stopped /\ x.finish = v.finish /\ x.tools = v.tools
         /\ x.nextBlockIdx = v.nextBlockIdx /\ x.errBuf = v.errBuf
<1>1. v.out \in Seq(Events)
  BY DEF Writers
<1>2. PICK q \in Seq(Events) : q = Append(v.out, e)
  <2>1. Append(v.out, e) \in Seq(Events)
    BY <1>1, AppendProperties
  <2> QED BY <2>1, Zenon
<1>3. x = [v EXCEPT !.out = q]
  BY <1>2 DEF emitEvent
<1>4. x \in Writers
  BY <1>3 DEF Writers
<1>5. /\ x.out = q
      /\ x.started = v.started /\ x.textOpen = v.textOpen /\ x.textClosed = v.textClosed
      /\ x.stopped = v.stopped /\ x.finish = v.finish /\ x.tools = v.tools
      /\ x.nextBlockIdx = v.nextBlockIdx /\ x.errBuf = v.errBuf
  BY <1>3 DEF Writers
<1> QED BY <1>2, <1>4, <1>5

LEMMA SameFlags ==
  ASSUME NEW v, NEW x,
         /\ x.textOpen = v.textOpen /\ x.textClosed = v.textClosed
         /\ x.stopped = v.stopped /\ x.tools = v.tools /\ x.nextBlockIdx = v.nextBlockIdx
  PROVE  (Shape(v) => Shape(x)) /\ (Late(v) => Late(x)) /\ \A b : Shows(b, v) => Shows(b, x)
<1>1. Known(x) = Known(v)
  BY DEF Known
<1>2. Shape(v) => Shape(x)
  BY <1>1 DEF Shape
<1>3. ASSUME NEW b, Shows(b, v) PROVE Shows(b, x)
  <2>1. TextState(x) = TextState(v)
    BY DEF TextState
  <2> QED BY <1>3, <2>1 DEF Shows
<1>4. Late(v) => Late(x)
  BY DEF Late
<1> QED BY <1>2, <1>3, <1>4

LEMMA EmitFits ==
  ASSUME NEW w, NEW s, NEW ph, Fits(w, s, ph), NEW v \in Writers, Shape(v), v.out = w.out,
         NEW e \in Events, NEW nph,
         \A z \in Pictures : (z.phase = ph /\ Shows(z.block, w)) =>
           /\ Accepts(z, e) /\ NextPhase(ph, e) = nph /\ Shows(NextBlocks(z.block, e), v),
         NEW x, x = emitEvent(v, e)
  PROVE  /\ Fits(x, s, nph) /\ (Late(v) => Late(x))
         /\ x.started = v.started /\ x.textOpen = v.textOpen /\ x.textClosed = v.textClosed
         /\ x.stopped = v.stopped /\ x.finish = v.finish /\ x.tools = v.tools
         /\ x.nextBlockIdx = v.nextBlockIdx /\ x.errBuf = v.errBuf
<1>1. PICK z \in Pictures : Leads(s, w.out, z) /\ z.phase = ph /\ Shows(z.block, w)
  BY DEF Fits
<1>2. Accepts(z, e) /\ NextPhase(ph, e) = nph /\ Shows(NextBlocks(z.block, e), v)
  BY <1>1
<1>3. /\ x \in Writers /\ x.out = Append(v.out, e)
      /\ x.started = v.started /\ x.textOpen = v.textOpen /\ x.textClosed = v.textClosed
      /\ x.stopped = v.stopped /\ x.finish = v.finish /\ x.tools = v.tools
      /\ x.nextBlockIdx = v.nextBlockIdx /\ x.errBuf = v.errBuf
  BY Emitted
<1>4. Shape(x) /\ (Late(v) => Late(x)) /\ \A b : Shows(b, v) => Shows(b, x)
  BY <1>3, SameFlags
<1>5. PICK a \in Pictures : a = After(z, e)
  BY <1>1, AfterType
<1>6. a.phase = nph /\ a.block = NextBlocks(z.block, e)
  BY <1>1, <1>2, <1>5 DEF After
<1>7. w.out \in Seq(Events)
  BY DEF Fits, Writers
<1>8. PICK q \in Seq(Events) : q = w.out
  BY <1>7
<1>9. Leads(s, x.out, a)
  BY <1>1, <1>2, <1>3, <1>5, <1>8, LeadsOn
<1> QED BY <1>2, <1>3, <1>4, <1>6, <1>9 DEF Fits

LEMMA PlainFits ==
  ASSUME NEW w, NEW s, NEW ph, Fits(w, s, ph), NEW v \in Writers, Shape(v), v.out = w.out,
         \A b \in [Indexes -> BlockStates] : Shows(b, w) => Shows(b, v)
  PROVE  Fits(v, s, ph)
  BY DEF Fits, Pictures

-----------------------------------------------------------------------------
(* The methods of the writer.                                              *)

LEMMA EventType ==
  ASSUME NEW name \in EventNames, NEW i \in Indexes,
         NEW x \in Nat \cup {"tool_use", "end_turn"}, NEW e, e = Event(name, i, x)
  PROVE  e \in Events /\ e.event = name /\ e.index = i
  BY DEF Event, Events

LEMMA ensureStartFits ==
  ASSUME NEW w, NEW s, Fits(w, s, IF w.started THEN "message" ELSE "idle"), NEW x, x = ensureStart(w)
  PROVE  /\ Fits(x, s, "message") /\ (Late(w) => Late(x)) /\ x.started
         /\ x.textOpen = w.textOpen /\ x.textClosed = w.textClosed /\ x.stopped = w.stopped
         /\ x.finish = w.finish /\ x.tools = w.tools /\ x.nextBlockIdx = w.nextBlockIdx
<1>1. CASE w.started
  BY <1>1 DEF ensureStart
<1>2. CASE ~w.started
  <2>1. Fits(w, s, "idle") /\ w \in Writers /\ Shape(w)
    BY <1>2 DEF Fits
  <2>2. PICK v : v = [w EXCEPT !.started = TRUE]
    OBVIOUS
  <2>3. v \in Writers /\ v.started = TRUE
    BY <2>1, <2>2 DEF Writers
  <2>4. /\ v.textOpen = w.textOpen /\ v.textClosed = w.textClosed /\ v.stopped = w.stopped
        /\ v.finish = w.finish /\ v.tools = w.tools /\ v.nextBlockIdx = w.nextBlockIdx
        /\ v.out = w.out
    BY <2>1, <2>2 DEF Writers
  <2>5. Shape(v) /\ (Late(w) => Late(v)) /\ \A b : Shows(b, w) => Shows(b, v)
    BY <2>1, <2>4, SameFlags
  <2>6. PICK e \in Events : e = Event("message_start", 0, 0) /\ e.event = "message_start" /\ e.index = 0
    <3>1. "message_start" \in EventNames /\ 0 \in Indexes /\ 0 \in Nat \cup {"tool_use", "end_turn"}
      BY <2>1, KnownBound DEF EventNames
    <3> QED BY <3>1, EventType
  <2>7. \A z \in Pictures : (z.phase = "idle" /\ Shows(z.block, w)) =>
          Accepts(z, e) /\ NextPhase("idle", e) = "message" /\ Shows(NextBlocks(z.block, e), v)
    BY <2>5, <2>6 DEF Accepts, NextPhase, NextBlocks
  <2>8. x = emitEvent(v, e)
    BY <1>2, <2>2, <2>6 DEF ensureStart
  <2>9. /\ Fits(x, s, "message") /\ (Late(v) => Late(x))
        /\ x.started = v.started /\ x.textOpen = v.textOpen /\ x.textClosed = v.textClosed
        /\ x.stopped = v.stopped /\ x.finish = v.finish /\ x.tools = v.tools
        /\ x.nextBlockIdx = v.nextBlockIdx
    BY <2>1, <2>3, <2>4, <2>5, <2>7, <2>8, EmitFits
  <2> QED BY <2>3, <2>4, <2>5, <2>9
<1> QED BY <1>1, <1>2

LEMMA ensureTextBlockFits ==
  ASSUME NEW w, NEW s, Fits(w, s, "message"), NEW x, x = ensureTextBlock(w)
  PROVE  /\ Fits(x, s, "message") /\ (Late(w) => Late(x)) /\ x.textOpen
         /\ x.started = w.started /\ x.textClosed = w.textClosed /\ x.stopped = w.stopped
         /\ x.finish = w.finish /\ x.tools = w.tools /\ x.nextBlockIdx = w.nextBlockIdx
<1>1. CASE w.textOpen
  BY <1>1 DEF ensureTextBlock
<1>2. CASE ~w.textOpen
  <2>1. w \in Writers /\ Shape(w)
    BY DEF Fits
  <2>2. PICK v : v = [w EXCEPT !.textOpen = TRUE]
    OBVIOUS
  <2>3. v \in Writers /\ v.textOpen = TRUE
    BY <2>1, <2>2 DEF Writers
  <2>4. /\ v.started = w.started /\ v.textClosed = w.textClosed /\ v.stopped = w.stopped
        /\ v.finish = w.finish /\ v.tools = w.tools /\ v.nextBlockIdx = w.nextBlockIdx
        /\ v.out = w.out
    BY <2>1, <2>2 DEF Writers
  <2>5. Shape(v)
    <3>1. Known(v) = Known(w)
      BY <2>4 DEF Known
    <3> QED BY <2>1, <2>3, <2>4, <3>1 DEF Shape
  <2>6. ~w.textClosed
    BY <1>2, <2>1 DEF Shape
  <2>7. 0 \in Indexes /\ (\A i \in Indexes : i \in Nat) /\ w.nextBlockIdx \in Nat \ {0}
    BY <2>1, KnownBound
  <2>8. PICK e \in Events : /\ e = Event("content_block_start", 0, 0)
                            /\ e.event = "content_block_start" /\ e.index = 0
    <3>1. "content_block_start" \in EventNames /\ 0 \in Nat \cup {"tool_use", "end_turn"}
      BY DEF EventNames
    <3> QED BY <2>7, <3>1, EventType
  <2>9. ASSUME NEW z \in Pictures, z.phase = "message", Shows(z.block, w)
        PROVE  Accepts(z, e) /\ NextPhase("message", e) = "message" /\ Shows(NextBlocks(z.block, e), v)
    <3>1. PICK b \in [Indexes -> BlockStates] : b = z.block
      BY DEF Pictures
    <3>2. b[0] = "absent"
      BY <1>2, <2>6, <2>9, <3>1 DEF Shows, TextState
    <3>3. PICK c : c = NextBlocks(b, e)
      OBVIOUS
    <3>4. c = [b EXCEPT ![0] = "open"]
      BY <2>8, <3>3 DEF NextBlocks
    <3>5. c[0] = "open" /\ \A i \in Indexes : i # 0 => c[i] = b[i]
      BY <2>7, <3>4
    <3>6. c[0] = TextState(v)
      BY <2>3, <2>4, <2>6, <3>5 DEF TextState
    <3>7. \A i \in Indexes : i >= v.nextBlockIdx => c[i] = "absent"
      <4>1. \A i \in Indexes : i >= v.nextBlockIdx => i # 0 /\ b[i] = "absent"
        BY <2>4, <2>7, <2>9, <3>1 DEF Shows
      <4> QED BY <3>5, <4>1
    <3>8. ASSUME NEW t \in ToolIndexes, v.tools[t].idx # 0
          PROVE  c[v.tools[t].idx] = ToolState(v.tools[t])
      <4>1. b[w.tools[t].idx] = ToolState(w.tools[t])
        BY <2>4, <2>9, <3>1, <3>8 DEF Shows
      <4>2. w.tools[t].idx \in Indexes
        BY <2>1, KnownBound, ToolFields DEF Shape
      <4> QED BY <2>4, <3>5, <3>8, <4>1, <4>2
    <3>9. Shows(c, v)
      BY <3>6, <3>7, <3>8 DEF Shows
    <3> QED BY <2>8, <2>9, <3>1, <3>2, <3>3, <3>9 DEF Accepts, NextPhase
  <2>10. x = emitEvent(v, e)
    BY <1>2, <2>2, <2>8 DEF ensureTextBlock
  <2>11. /\ Fits(x, s, "message")
         /\ x.started = v.started /\ x.textOpen = v.textOpen /\ x.textClosed = v.textClosed
         /\ x.stopped = v.stopped /\ x.finish = v.finish /\ x.tools = v.tools
         /\ x.nextBlockIdx = v.nextBlockIdx
    BY <2>3, <2>4, <2>5, <2>9, <2>10, EmitFits
  <2>12. Late(w) => Late(x)
    BY <2>4, <2>11 DEF Late
  <2> QED BY <2>3, <2>4, <2>11, <2>12
<1> QED BY <1>1, <1>2

LEMMA closeTextBlockFits ==
  ASSUME NEW w, NEW s, Fits(w, s, "message"), NEW x, x = closeTextBlock(w)
  PROVE  /\ Fits(x, s, "message") /\ (x.textOpen => x.textClosed)
         /\ x.started = w.started /\ x.textOpen = w.textOpen /\ x.stopped = w.stopped
         /\ x.finish = w.finish /\ x.tools = w.tools /\ x.nextBlockIdx = w.nextBlockIdx
<1>1. CASE ~w.textOpen \/ w.textClosed
  BY <1>1 DEF closeTextBlock
<1>2. CASE w.textOpen /\ ~w.textClosed
  <2>1. w \in Writers /\ Shape(w)
    BY DEF Fits
  <2>2. PICK v : v = [w EXCEPT !.textClosed = TRUE]
    OBVIOUS
  <2>3. v \in Writers /\ v.textClosed = TRUE
    BY <2>1, <2>2 DEF Writers
  <2>4. /\ v.started = w.started /\ v.textOpen = w.textOpen /\ v.stopped = w.stopped
        /\ v.finish = w.finish /\ v.tools = w.tools /\ v.nextBlockIdx = w.nextBlockIdx
        /\ v.out = w.out
    BY <2>1, <2>2 DEF Writers
  <2>5. Shape(v)
    <3>1. Known(v) = Known(w)
      BY <2>4 DEF Known
    <3> QED BY <1>2, <2>1, <2>3, <2>4, <3>1 DEF Shape
  <2>7. 0 \in Indexes /\ (\A i \in Indexes : i \in Nat) /\ w.nextBlockIdx \in Nat \ {0}
    BY <2>1, KnownBound
  <2>8. PICK e \in Events : /\ e = Event("content_block_stop", 0, 0)
                            /\ e.event = "content_block_stop" /\ e.index = 0
    <3>1. "content_block_stop" \in EventNames /\ 0 \in Nat \cup {"tool_use", "end_turn"}
      BY DEF EventNames
    <3> QED BY <2>7, <3>1, EventType
  <2>9. ASSUME NEW z \in Pictures, z.phase = "message", Shows(z.block, w)
        PROVE  Accepts(z, e) /\ NextPhase("message", e) = "message" /\ Shows(NextBlocks(z.block, e), v)
    <3>1. PICK b \in [Indexes -> BlockStates] : b = z.block
      BY DEF Pictures
    <3>2. b[0] = "open"
      BY <1>2, <2>9, <3>1 DEF Shows, TextState
    <3>3. PICK c : c = NextBlocks(b, e)
      OBVIOUS
    <3>4. c = [b EXCEPT ![0] = "closed"]
      BY <2>8, <3>3 DEF NextBlocks
    <3>5. c[0] = "closed" /\ \A i \in Indexes : i # 0 => c[i] = b[i]
      BY <2>7, <3>4
    <3>6. c[0] = TextState(v)
      BY <2>3, <3>5 DEF TextState
    <3>7. \A i \in Indexes : i >= v.nextBlockIdx => c[i] = "absent"
      <4>1. \A i \in Indexes : i >= v.nextBlockIdx => i # 0 /\ b[i] = "absent"
        BY <2>4, <2>7, <2>9, <3>1 DEF Shows
      <4> QED BY <3>5, <4>1
    <3>8. ASSUME NEW t \in ToolIndexes, v.tools[t].idx # 0
          PROVE  c[v.tools[t].idx] = ToolState(v.tools[t])
      <4>1. b[w.tools[t].idx] = ToolState(w.tools[t])
        BY <2>4, <2>9, <3>1, <3>8 DEF Shows
      <4>2. w.tools[t].idx \in Indexes
        BY <2>1, KnownBound, ToolFields DEF Shape
      <4> QED BY <2>4, <3>5, <3>8, <4>1, <4>2
    <3>9. Shows(c, v)
      BY <3>6, <3>7, <3>8 DEF Shows
    <3> QED BY <2>8, <2>9, <3>1, <3>2, <3>3, <3>9 DEF Accepts, NextPhase
  <2>10. x = emitEvent(v, e)
    BY <1>2, <2>2, <2>8 DEF closeTextBlock
  <2>11. /\ Fits(x, s, "message")
         /\ x.started = v.started /\ x.textOpen = v.textOpen /\ x.textClosed = v.textClosed
         /\ x.stopped = v.stopped /\ x.finish = v.finish /\ x.tools = v.tools
         /\ x.nextBlockIdx = v.nextBlockIdx
    BY <2>3, <2>4, <2>5, <2>9, <2>10, EmitFits
  <2> QED BY <2>3, <2>4, <2>11
<1> QED BY <1>1, <1>2

LEMMA TextDeltaFits ==
  ASSUME NEW w, NEW s, Fits(w, s, "message"), Late(w), w.textOpen, ~w.stopped,
         NEW n \in Nat, NEW x, x = emitEvent(w, Event("content_block_delta", 0, n))
  PROVE  /\ Fits(x, s, "message") /\ Late(x)
         /\ x.started = w.started /\ x.stopped = w.stopped /\ x.finish = w.finish
<1>1. w \in Writers /\ Shape(w)
  BY DEF Fits
<1>2. 0 \in Indexes /\ \A i \in 0 .. (w.nextBlockIdx - 1) : i \in Indexes
  BY <1>1, KnownBound
<1>3. PICK e \in Events : /\ e = Event("content_block_delta", 0, n)
                          /\ e.event = "content_block_delta" /\ e.index = 0
  <2>1. "content_block_delta" \in EventNames /\ n \in Nat \cup {"tool_use", "end_turn"}
    BY DEF EventNames
  <2> QED BY <1>2, <2>1, EventType
<1>4. ASSUME NEW z \in Pictures, z.phase = "message", Shows(z.block, w)
      PROVE  Accepts(z, e) /\ NextPhase("message", e) = "message" /\ Shows(NextBlocks(z.block, e), w)
  <2>1. NextBlocks(z.block, e) = z.block /\ NextPhase("message", e) = "message"
    BY <1>3 DEF NextBlocks, NextPhase
  <2>2. CASE ~w.textClosed
    <3>1. z.block[0] = "open"
      BY <1>4, <2>2 DEF Shows, TextState
    <3> QED BY <1>3, <1>4, <2>1, <3>1 DEF Accepts
  <2>3. CASE w.textClosed
    <3>1. z.block[0] = "closed"
      BY <1>4, <2>3 DEF Shows, TextState
    <3>2. PICK t \in ToolIndexes : w.tools[t].started
      BY <2>3 DEF Late
    <3>3. w.tools[t].idx # 0 /\ ~w.tools[t].closed /\ w.tools[t].idx < w.nextBlockIdx
      BY <1>1, <3>2 DEF Shape
    <3>4. w.tools[t].idx \in Indexes \ {0}
      BY <1>1, <1>2, <3>3, KnownBound, ToolFields
    <3>5. z.block[w.tools[t].idx] = "open"
      BY <1>4, <3>2, <3>3 DEF Shows, ToolState
    <3>6. IsLate(z.block)
      BY <3>1, <3>4, <3>5 DEF IsLate
    <3> QED BY <1>3, <1>4, <2>1, <3>6 DEF Accepts
  <2> QED BY <2>2, <2>3
<1> QED BY <1>1, <1>3, <1>4, EmitFits

LEMMA ToolDeltaFits ==
  ASSUME NEW w, NEW s, Fits(w, s, "message"), NEW t \in ToolIndexes, w.tools[t].started, ~w.stopped,
         NEW n \in Nat, NEW x, x = emitEvent(w, Event("content_block_delta", w.tools[t].idx, n))
  PROVE  /\ Fits(x, s, "message") /\ (Late(w) => Late(x))
         /\ x.started = w.started /\ x.stopped = w.stopped /\ x.finish = w.finish
<1>1. w \in Writers /\ Shape(w)
  BY DEF Fits
<1>2. w.tools[t].idx # 0 /\ ~w.tools[t].closed /\ w.tools[t].idx < w.nextBlockIdx
  BY <1>1 DEF Shape
<1>3. PICK i \in Indexes : i = w.tools[t].idx
  BY <1>1, <1>2, KnownBound, ToolFields
<1>4. PICK e \in Events : /\ e = Event("content_block_delta", i, n)
                          /\ e.event = "content_block_delta" /\ e.index = i
  <2>1. "content_block_delta" \in EventNames /\ n \in Nat \cup {"tool_use", "end_turn"}
    BY DEF EventNames
  <2> QED BY <2>1, EventType
<1>5. ASSUME NEW z \in Pictures, z.phase = "message", Shows(z.block, w)
      PROVE  Accepts(z, e) /\ NextPhase("message", e) = "message" /\ Shows(NextBlocks(z.block, e), w)
  <2>1. NextBlocks(z.block, e) = z.block /\ NextPhase("message", e) = "message"
    BY <1>4 DEF NextBlocks, NextPhase
  <2>2. z.block[i] = "open"
    BY <1>2, <1>3, <1>5 DEF Shows, ToolState
  <2> QED BY <1>4, <1>5, <2>1, <2>2 DEF Accepts
<1> QED BY <1>1, <1>3, <1>4, <1>5, EmitFits

WithTool(w, t, tb, n) == [w EXCEPT !.tools = [w.tools EXCEPT ![t] = tb], !.nextBlockIdx = n]

LEMMA ToolUpdated ==
  ASSUME NEW w \in Writers, NEW t \in ToolIndexes, NEW tb \in ToolBlocks, NEW n \in Nat,
         NEW v, v = WithTool(w, t, tb, n)
  PROVE  /\ v \in Writers /\ v.nextBlockIdx = n /\ v.tools[t] = tb
         /\ \A u \in ToolIndexes : u # t => v.tools[u] = w.tools[u]
         /\ v.started = w.started /\ v.textOpen = w.textOpen /\ v.textClosed = w.textClosed
         /\ v.stopped = w.stopped /\ v.finish = w.finish /\ v.out = w.out
<1>1. PICK f : f = [w.tools EXCEPT ![t] = tb]
  OBVIOUS
<1>2. w.tools \in [ToolIndexes -> ToolBlocks]
  BY DEF Writers
<1>3. /\ f \in [ToolIndexes -> ToolBlocks] /\ f[t] = tb
      /\ \A u \in ToolIndexes : u # t => f[u] = w.tools[u]
  BY <1>1, <1>2
<1>4. v = [w EXCEPT !.tools = f, !.nextBlockIdx = n]
  BY <1>1 DEF WithTool
<1>5. v \in Writers
  BY <1>3, <1>4 DEF Writers
<1>6. /\ v.nextBlockIdx = n /\ v.tools = f
      /\ v.started = w.started /\ v.textOpen = w.textOpen /\ v.textClosed = w.textClosed
      /\ v.stopped = w.stopped /\ v.finish = w.finish /\ v.out = w.out
  BY <1>4 DEF Writers
<1> QED BY <1>3, <1>5, <1>6

LEMMA ToolMoved ==
  ASSUME NEW w \in Writers, Shape(w), NEW t \in ToolIndexes, NEW tb \in ToolBlocks,
         tb.idx = w.tools[t].idx, tb.started => tb.idx # 0, tb.closed => (tb.started /\ w.stopped),
         NEW v, v = WithTool(w, t, tb, w.nextBlockIdx)
  PROVE  /\ v \in Writers /\ v.nextBlockIdx = w.nextBlockIdx /\ v.tools[t] = tb
         /\ \A u \in ToolIndexes : u # t => v.tools[u] = w.tools[u]
         /\ v.started = w.started /\ v.textOpen = w.textOpen /\ v.textClosed = w.textClosed
         /\ v.stopped = w.stopped /\ v.finish = w.finish /\ v.out = w.out
         /\ Shape(v)
         /\ \A b \in [Indexes -> BlockStates], c \in [Indexes -> BlockStates] :
              (/\ Shows(b, w) /\ \A i \in Indexes : (i = 0 \/ i # tb.idx) => c[i] = b[i]
               /\ tb.idx # 0 => c[tb.idx] = ToolState(tb)) => Shows(c, v)
<1>1. w.nextBlockIdx \in Nat
  BY DEF Writers
<1>2. /\ v \in Writers /\ v.nextBlockIdx = w.nextBlockIdx /\ v.tools[t] = tb
      /\ \A u \in ToolIndexes : u # t => v.tools[u] = w.tools[u]
      /\ v.started = w.started /\ v.textOpen = w.textOpen /\ v.textClosed = w.textClosed
      /\ v.stopped = w.stopped /\ v.finish = w.finish /\ v.out = w.out
  BY <1>1, ToolUpdated
<1>3. \A u \in ToolIndexes : v.tools[u].idx = w.tools[u].idx
  BY <1>2
<1>4. Known(v) = Known(w)
  BY <1>3 DEF Known
<1>5. Shape(v)
  <2>1. /\ w.textClosed => w.textOpen
        /\ w.nextBlockIdx = Cardinality(Known(w)) + 1
        /\ \A u \in ToolIndexes : w.tools[u].idx < w.nextBlockIdx
        /\ \A u \in ToolIndexes : w.tools[u].started => w.tools[u].idx # 0
        /\ \A u \in ToolIndexes : w.tools[u].closed => (w.tools[u].started /\ w.stopped)
        /\ \A p, u \in ToolIndexes :
             (w.tools[p].idx = w.tools[u].idx /\ w.tools[p].idx # 0) => p = u
        /\ \A k \in 1 .. (w.nextBlockIdx - 1) : \E u \in ToolIndexes : w.tools[u].idx = k
    BY DEF Shape
  <2>2. \A u \in ToolIndexes : v.tools[u].started => v.tools[u].idx # 0
    BY <1>2, <2>1
  <2>3. \A u \in ToolIndexes : v.tools[u].closed => (v.tools[u].started /\ v.stopped)
    BY <1>2, <2>1
  <2>4. \A k \in 1 .. (v.nextBlockIdx - 1) : \E u \in ToolIndexes : v.tools[u].idx = k
    BY <1>2, <1>3, <2>1
  <2>5. \A p, u \in ToolIndexes : (v.tools[p].idx = v.tools[u].idx /\ v.tools[p].idx # 0) => p = u
    BY <1>3, <2>1
  <2> QED BY <1>2, <1>3, <1>4, <2>1, <2>2, <2>3, <2>4, <2>5 DEF Shape
<1>6. ASSUME NEW b \in [Indexes -> BlockStates], NEW c \in [Indexes -> BlockStates], Shows(b, w),
             \A i \in Indexes : (i = 0 \/ i # tb.idx) => c[i] = b[i],
             tb.idx # 0 => c[tb.idx] = ToolState(tb)
      PROVE  Shows(c, v)
  <2>1. 0 \in Indexes /\ w.nextBlockIdx \in Nat \ {0} /\ (\A i \in Indexes : i \in Nat)
    BY KnownBound
  <2>2. c[0] = TextState(v)
    <3>1. c[0] = b[0] /\ b[0] = TextState(w)
      BY <1>6, <2>1 DEF Shows
    <3> QED BY <1>2, <3>1 DEF TextState
  <2>3. ASSUME NEW u \in ToolIndexes, v.tools[u].idx # 0
        PROVE  c[v.tools[u].idx] = ToolState(v.tools[u])
    <3>1. CASE u = t
      BY <1>2, <1>6, <2>3, <3>1
    <3>2. CASE u # t
      <4>1. w.tools[u].idx \in Indexes
        BY KnownBound, ToolFields DEF Shape
      <4>2. w.tools[u].idx # tb.idx
        BY <1>3, <2>3, <3>2 DEF Shape
      <4>3. b[w.tools[u].idx] = ToolState(w.tools[u])
        BY <1>3, <1>6, <2>3 DEF Shows
      <4> QED BY <1>2, <1>6, <3>2, <4>1, <4>2, <4>3
    <3> QED BY <3>1, <3>2
  <2>4. ASSUME NEW i \in Indexes, i >= v.nextBlockIdx PROVE c[i] = "absent"
    <3>1. tb.idx < w.nextBlockIdx /\ tb.idx \in Nat
      BY ToolFields DEF Shape
    <3>2. i # tb.idx
      BY <1>2, <2>1, <2>4, <3>1
    <3> QED BY <1>2, <1>6, <2>4, <3>2 DEF Shows
  <2> QED BY <2>2, <2>3, <2>4 DEF Shows
<1> QED BY <1>2, <1>5, <1>6

Registered(w, t) == [w EXCEPT !.tools[t].idx = w.nextBlockIdx, !.nextBlockIdx = @ + 1]

LEMMA KnownFits ==
  ASSUME NEW w, NEW s, Fits(w, s, "message"), NEW t \in ToolIndexes, w.tools[t].idx = 0,
         NEW v, v = Registered(w, t)
  PROVE  /\ Fits(v, s, "message") /\ (Late(w) => Late(v))
         /\ v.tools[t].idx # 0 /\ v.started = w.started /\ v.stopped = w.stopped
<1>1. w \in Writers /\ Shape(w)
  BY DEF Fits
<1>2. PICK n \in Nat \ {0} : n = w.nextBlockIdx
  BY <1>1, KnownBound
<1>0. PICK tb : tb = [w.tools[t] EXCEPT !.idx = n]
  OBVIOUS
<1>3. tb \in ToolBlocks /\ tb.idx = n /\ tb.started = w.tools[t].started /\ tb.closed = w.tools[t].closed
  <2>1. w.tools[t] \in ToolBlocks
    BY <1>1, ToolFields
  <2>2. PICK o \in ToolBlocks : o = w.tools[t]
    BY <2>1, Zenon
  <2>3. tb = [o EXCEPT !.idx = n]
    BY <1>0, <2>2, Zenon
  <2>4. tb \in ToolBlocks
    BY <2>3 DEF ToolBlocks
  <2>5. tb.idx = n /\ tb.started = o.started /\ tb.closed = o.closed
    BY <2>3 DEF ToolBlocks
  <2> QED BY <2>2, <2>4, <2>5
<1>4. v = WithTool(w, t, tb, n + 1)
  BY <1>1, <1>2, <1>0 DEF Writers, WithTool, Registered
<1>5. /\ v \in Writers /\ v.nextBlockIdx = n + 1 /\ v.tools[t] = tb
      /\ \A u \in ToolIndexes : u # t => v.tools[u] = w.tools[u]
      /\ v.started = w.started /\ v.textOpen = w.textOpen /\ v.textClosed = w.textClosed
      /\ v.stopped = w.stopped /\ v.finish = w.finish /\ v.out = w.out
  <2>1. n + 1 \in Nat
    OBVIOUS
  <2> QED BY <1>1, <1>3, <1>4, <2>1, ToolUpdated
<1>6. ~tb.started /\ ~tb.closed
  BY <1>1, <1>3 DEF Shape
<1>7. /\ w.textClosed => w.textOpen
      /\ n = Cardinality(Known(w)) + 1
      /\ \A u \in ToolIndexes : w.tools[u].idx < n
      /\ \A u \in ToolIndexes : w.tools[u].started => w.tools[u].idx # 0
      /\ \A u \in ToolIndexes : w.tools[u].closed => (w.tools[u].started /\ w.stopped)
      /\ \A p, u \in ToolIndexes :
           (w.tools[p].idx = w.tools[u].idx /\ w.tools[p].idx # 0) => p = u
      /\ \A k \in 1 .. (n - 1) : \E u \in ToolIndexes : w.tools[u].idx = k
  BY <1>1, <1>2 DEF Shape
<1>8. \A u \in ToolIndexes : w.tools[u].idx \in Nat
  BY <1>1, ToolFields
<1>9. Shape(v)
  <2>1. n + 1 = Cardinality(Known(v)) + 1
    <3>1. Known(v) = Known(w) \cup {t} /\ t \notin Known(w)
      BY <1>3, <1>5 DEF Known
    <3>2. IsFiniteSet(Known(w))
      <4>1. IsFiniteSet(ToolIndexes) /\ Known(w) \subseteq ToolIndexes
        BY ChunkAssumption DEF Known
      <4> QED BY <4>1, FS_Subset
    <3>3. Cardinality(Known(v)) = Cardinality(Known(w)) + 1
      BY <3>1, <3>2, FS_AddElement
    <3> QED BY <1>7, <3>3
  <2>2. ASSUME NEW u \in ToolIndexes PROVE v.tools[u].idx < n + 1
    <3>1. CASE u = t
      BY <1>3, <1>5, <3>1
    <3>2. CASE u # t
      <4>1. v.tools[u].idx = w.tools[u].idx /\ w.tools[u].idx \in Nat /\ w.tools[u].idx < n
        BY <1>5, <1>7, <1>8, <3>2
      <4> QED BY <4>1
    <3> QED BY <3>1, <3>2
  <2>3. \A u \in ToolIndexes : v.tools[u].started => v.tools[u].idx # 0
    BY <1>5, <1>6, <1>7
  <2>4. \A u \in ToolIndexes : v.tools[u].closed => (v.tools[u].started /\ v.stopped)
    BY <1>5, <1>6, <1>7
  <2>5. ASSUME NEW p \in ToolIndexes, NEW u \in ToolIndexes,
               v.tools[p].idx = v.tools[u].idx, v.tools[p].idx # 0
        PROVE  p = u
    <3>1. \A y \in ToolIndexes : w.tools[y].idx # n
      BY <1>7, <1>8
    <3>2. \A y \in ToolIndexes : v.tools[y].idx = IF y = t THEN n ELSE w.tools[y].idx
      BY <1>3, <1>5
    <3>3. CASE p = t
      BY <2>5, <3>1, <3>2, <3>3
    <3>4. CASE p # t /\ u # t
      <4>1. v.tools[p].idx = w.tools[p].idx /\ v.tools[u].idx = w.tools[u].idx
        BY <3>2, <3>4
      <4>2. w.tools[p].idx = w.tools[u].idx /\ w.tools[p].idx # 0
        BY <2>5, <4>1
      <4>3. (w.tools[p].idx = w.tools[u].idx /\ w.tools[p].idx # 0) => p = u
        BY <1>1 DEF Shape
      <4> QED BY <4>2, <4>3
    <3>5. CASE p # t /\ u = t
      BY <2>5, <3>1, <3>2, <3>5
    <3> QED BY <3>3, <3>4, <3>5
  <2>6. ASSUME NEW k \in 1 .. ((n + 1) - 1) PROVE \E u \in ToolIndexes : v.tools[u].idx = k
    <3>1. CASE k = n
      BY <1>3, <1>5, <3>1
    <3>2. CASE k # n
      <4>1. k \in 1 .. (n - 1) /\ k # 0
        BY <3>2
      <4>2. PICK u \in ToolIndexes : w.tools[u].idx = k
        BY <1>7, <4>1
      <4>3. u # t
        BY <4>1, <4>2
      <4> QED BY <1>5, <4>2, <4>3
    <3> QED BY <3>1, <3>2
  <2> QED BY <1>5, <1>7, <2>1, <2>2, <2>3, <2>4, <2>5, <2>6 DEF Shape
<1>10. ASSUME NEW b \in [Indexes -> BlockStates], Shows(b, w) PROVE Shows(b, v)
  <2>1. b[0] = TextState(v)
    BY <1>5, <1>10 DEF Shows, TextState
  <2>2. n \in Indexes
    <3>1. n \in 0 .. (v.nextBlockIdx - 1)
      BY <1>5
    <3> QED BY <1>5, <1>9, <3>1, KnownBound
  <2>3. ASSUME NEW u \in ToolIndexes, v.tools[u].idx # 0
        PROVE  b[v.tools[u].idx] = ToolState(v.tools[u])
    <3>1. CASE u = t
      <4>1. n >= w.nextBlockIdx
        BY <1>2
      <4>2. b[n] = "absent"
        BY <1>10, <2>2, <4>1 DEF Shows
      <4> QED BY <1>3, <1>5, <1>6, <3>1, <4>2 DEF ToolState
    <3>2. CASE u # t
      BY <1>5, <1>10, <2>3, <3>2 DEF Shows
    <3> QED BY <3>1, <3>2
  <2>4. ASSUME NEW i \in Indexes, i >= v.nextBlockIdx PROVE b[i] = "absent"
    <3>1. i \in Nat
      BY <1>1, KnownBound
    <3>2. i >= w.nextBlockIdx
      BY <1>2, <1>5, <2>4, <3>1
    <3> QED BY <1>10, <3>2 DEF Shows
  <2> QED BY <2>1, <2>3, <2>4 DEF Shows
<1>11. Fits(v, s, "message")
  BY <1>5, <1>9, <1>10, PlainFits
<1>12. Late(w) => Late(v)
  BY <1>3, <1>5 DEF Late
<1> QED BY <1>3, <1>5, <1>11, <1>12

LEMMA NamedFits ==
  ASSUME NEW w, NEW s, Fits(w, s, "message"), NEW t \in ToolIndexes, NEW n \in Nat,
         NEW v, v = [w EXCEPT !.tools[t].name = n]
  PROVE  /\ Fits(v, s, "message") /\ (Late(w) => Late(v))
         /\ v.tools[t].idx = w.tools[t].idx /\ v.tools[t].started = w.tools[t].started
         /\ v.started = w.started /\ v.stopped = w.stopped
<1>1. w \in Writers /\ Shape(w)
  BY DEF Fits
<1>2. PICK o \in ToolBlocks : o = w.tools[t]
  <2>1. w.tools[t] \in ToolBlocks
    BY <1>1, ToolFields
  <2> QED BY <2>1, Zenon
<1>3. PICK tb : tb = [o EXCEPT !.name = n]
  OBVIOUS
<1>4. tb \in ToolBlocks
  BY <1>3 DEF ToolBlocks
<1>5. tb.idx = o.idx /\ tb.started = o.started /\ tb.closed = o.closed
  BY <1>3 DEF ToolBlocks
<1>6. PICK x : x = WithTool(w, t, tb, w.nextBlockIdx)
  OBVIOUS
<1>7. v = x
  BY <1>1, <1>2, <1>3, <1>6 DEF Writers, WithTool
<1>8. (tb.started => tb.idx # 0) /\ (tb.closed => (tb.started /\ w.stopped)) /\ tb.idx = w.tools[t].idx
  BY <1>1, <1>2, <1>5 DEF Shape
<1>9. /\ x \in Writers /\ x.nextBlockIdx = w.nextBlockIdx /\ x.tools[t] = tb
      /\ \A u \in ToolIndexes : u # t => x.tools[u] = w.tools[u]
      /\ x.started = w.started /\ x.textOpen = w.textOpen /\ x.textClosed = w.textClosed
      /\ x.stopped = w.stopped /\ x.finish = w.finish /\ x.out = w.out
      /\ Shape(x)
      /\ \A b \in [Indexes -> BlockStates], c \in [Indexes -> BlockStates] :
           (/\ Shows(b, w) /\ \A i \in Indexes : (i = 0 \/ i # tb.idx) => c[i] = b[i]
            /\ tb.idx # 0 => c[tb.idx] = ToolState(tb)) => Shows(c, x)
  BY <1>1, <1>4, <1>6, <1>8, ToolMoved
<1>10. ASSUME NEW b \in [Indexes -> BlockStates], Shows(b, w) PROVE Shows(b, x)
  <2>1. tb.idx # 0 => b[tb.idx] = ToolState(tb)
    <3>1. ToolState(tb) = ToolState(o)
      BY <1>5 DEF ToolState
    <3>2. o.idx # 0 => b[o.idx] = ToolState(o)
      BY <1>2, <1>10 DEF Shows
    <3> QED BY <1>5, <3>1, <3>2
  <2> QED BY <1>9, <1>10, <2>1
<1>11. Fits(x, s, "message")
  BY <1>9, <1>10, PlainFits
<1>12. Late(w) => Late(x)
  <2>1. \A u \in ToolIndexes : x.tools[u].started = w.tools[u].started
    BY <1>2, <1>5, <1>9
  <2> QED BY <1>9, <2>1 DEF Late
<1> QED BY <1>2, <1>5, <1>7, <1>9, <1>11, <1>12

StartedTool(w, t) == [w EXCEPT !.tools[t].started = TRUE]

LEMMA ToolStartFits ==
  ASSUME NEW w, NEW s, Fits(w, s, "message"), NEW t \in ToolIndexes, w.tools[t].idx # 0,
         ~w.tools[t].started, NEW n \in Nat,
         NEW y, y = emitEvent(StartedTool(w, t), Event("content_block_start", w.tools[t].idx, n))
  PROVE  /\ Fits(y, s, "message") /\ Late(y) /\ y.tools[t].started
         /\ y.started = w.started /\ y.stopped = w.stopped
<1>1. w \in Writers /\ Shape(w)
  BY DEF Fits
<1>2. PICK o \in ToolBlocks : o = w.tools[t]
  <2>1. w.tools[t] \in ToolBlocks
    BY <1>1, ToolFields
  <2> QED BY <2>1, Zenon
<1>3. PICK tb : tb = [o EXCEPT !.started = TRUE]
  OBVIOUS
<1>4. tb \in ToolBlocks
  BY <1>3 DEF ToolBlocks
<1>5. tb.idx = o.idx /\ tb.started = TRUE /\ tb.closed = o.closed
  BY <1>3 DEF ToolBlocks
<1>6. PICK x : x = WithTool(w, t, tb, w.nextBlockIdx)
  OBVIOUS
<1>7. StartedTool(w, t) = x
  BY <1>1, <1>2, <1>3, <1>6 DEF Writers, WithTool, StartedTool
<1>8. ~tb.closed /\ tb.idx = w.tools[t].idx
  BY <1>1, <1>2, <1>5 DEF Shape
<1>9. /\ x \in Writers /\ x.nextBlockIdx = w.nextBlockIdx /\ x.tools[t] = tb
      /\ x.started = w.started /\ x.stopped = w.stopped /\ x.out = w.out
      /\ Shape(x)
      /\ \A b \in [Indexes -> BlockStates], c \in [Indexes -> BlockStates] :
           (/\ Shows(b, w) /\ \A i \in Indexes : (i = 0 \/ i # tb.idx) => c[i] = b[i]
            /\ tb.idx # 0 => c[tb.idx] = ToolState(tb)) => Shows(c, x)
  BY <1>1, <1>4, <1>6, <1>8, ToolMoved
<1>10. PICK i \in Indexes : i = tb.idx /\ i # 0
  BY <1>1, <1>8, KnownBound, ToolFields DEF Shape
<1>11. PICK e \in Events : /\ e = Event("content_block_start", i, n)
                           /\ e.event = "content_block_start" /\ e.index = i
  <2>1. "content_block_start" \in EventNames /\ n \in Nat \cup {"tool_use", "end_turn"}
    BY DEF EventNames
  <2> QED BY <2>1, EventType
<1>12. ASSUME NEW z \in Pictures, z.phase = "message", Shows(z.block, w)
       PROVE  Accepts(z, e) /\ NextPhase("message", e) = "message" /\ Shows(NextBlocks(z.block, e), x)
  <2>1. PICK b \in [Indexes -> BlockStates] : b = z.block
    BY DEF Pictures
  <2>2. b[i] = "absent"
    <3>1. b[w.tools[t].idx] = ToolState(w.tools[t])
      BY <1>12, <2>1 DEF Shows
    <3>2. ~w.tools[t].closed
      BY <1>2, <1>5, <1>8
    <3> QED BY <1>8, <1>10, <3>1, <3>2 DEF ToolState
  <2>3. PICK c : c = [b EXCEPT ![i] = "open"]
    OBVIOUS
  <2>4. c \in [Indexes -> BlockStates] /\ c[i] = "open" /\ \A j \in Indexes : j # i => c[j] = b[j]
    BY <2>3 DEF BlockStates
  <2>5. ToolState(tb) = "open"
    BY <1>5, <1>8 DEF ToolState
  <2>6. Shows(c, x)
    BY <1>9, <1>10, <1>12, <2>1, <2>4, <2>5
  <2>7. NextBlocks(b, e) = c
    BY <1>11, <2>3 DEF NextBlocks
  <2> QED BY <1>11, <1>12, <2>1, <2>2, <2>6, <2>7 DEF Accepts, NextPhase
<1>13. y = emitEvent(x, e)
  BY <1>7, <1>8, <1>10, <1>11
<1>14. Fits(y, s, "message") /\ y.tools = x.tools /\ y.started = x.started /\ y.stopped = x.stopped
  BY <1>9, <1>12, <1>13, EmitFits
<1>15. y.tools[t].started
  BY <1>5, <1>9, <1>14
<1> QED BY <1>9, <1>14, <1>15 DEF Late

Halted(w) == w.stopped = TRUE

LEMMA closeToolBlockFits ==
  ASSUME NEW w, NEW s, Fits(w, s, "message"), Halted(w), NEW t \in ToolIndexes,
         NEW y, y = closeToolBlock(w, t)
  PROVE  /\ Fits(y, s, "message") /\ (y.tools[t].started => y.tools[t].closed)
         /\ \A u \in ToolIndexes : /\ y.tools[u].idx = w.tools[u].idx
                                   /\ u # t => y.tools[u] = w.tools[u]
         /\ y.nextBlockIdx = w.nextBlockIdx /\ y.textOpen = w.textOpen
         /\ y.textClosed = w.textClosed
         /\ y.started = w.started /\ Halted(y)
<1>1. w \in Writers /\ Shape(w) /\ w.stopped = TRUE
  BY DEF Fits, Halted
<1>2. CASE ~w.tools[t].started \/ w.tools[t].closed
  BY <1>2 DEF closeToolBlock
<1>3. CASE w.tools[t].started /\ ~w.tools[t].closed
  <2>2. PICK o \in ToolBlocks : o = w.tools[t]
    <3>1. w.tools[t] \in ToolBlocks
      BY <1>1, ToolFields
    <3> QED BY <3>1, Zenon
  <2>3. PICK tb : tb = [o EXCEPT !.closed = TRUE]
    OBVIOUS
  <2>4. tb \in ToolBlocks
    BY <2>3 DEF ToolBlocks
  <2>5. tb.idx = o.idx /\ tb.started = o.started /\ tb.closed = TRUE
    BY <2>3 DEF ToolBlocks
  <2>6. PICK x : x = WithTool(w, t, tb, w.nextBlockIdx)
    OBVIOUS
  <2>7. [w EXCEPT !.tools[t].closed = TRUE] = x
    BY <1>1, <2>2, <2>3, <2>6 DEF Writers, WithTool
  <2>8. /\ tb.started /\ tb.idx = w.tools[t].idx /\ tb.idx # 0
        /\ (tb.started => tb.idx # 0) /\ (tb.closed => (tb.started /\ w.stopped))
    BY <1>1, <1>3, <2>2, <2>5 DEF Shape
  <2>9. /\ x \in Writers /\ x.nextBlockIdx = w.nextBlockIdx /\ x.tools[t] = tb
        /\ \A u \in ToolIndexes : u # t => x.tools[u] = w.tools[u]
        /\ x.started = w.started /\ x.textOpen = w.textOpen /\ x.textClosed = w.textClosed
        /\ x.stopped = w.stopped /\ x.out = w.out
        /\ Shape(x)
        /\ \A b \in [Indexes -> BlockStates], c \in [Indexes -> BlockStates] :
             (/\ Shows(b, w) /\ \A i \in Indexes : (i = 0 \/ i # tb.idx) => c[i] = b[i]
              /\ tb.idx # 0 => c[tb.idx] = ToolState(tb)) => Shows(c, x)
    BY <1>1, <2>4, <2>6, <2>8, ToolMoved
  <2>10. PICK i \in Indexes : i = tb.idx
    BY <1>1, <2>8, KnownBound, ToolFields DEF Shape
  <2>11. PICK e \in Events : /\ e = Event("content_block_stop", i, 0)
                             /\ e.event = "content_block_stop" /\ e.index = i
    <3>1. "content_block_stop" \in EventNames /\ 0 \in Nat \cup {"tool_use", "end_turn"}
      BY DEF EventNames
    <3> QED BY <3>1, EventType
  <2>12. ASSUME NEW z \in Pictures, z.phase = "message", Shows(z.block, w)
         PROVE  Accepts(z, e) /\ NextPhase("message", e) = "message" /\ Shows(NextBlocks(z.block, e), x)
    <3>1. PICK b \in [Indexes -> BlockStates] : b = z.block
      BY DEF Pictures
    <3>2. b[i] = "open"
      <4>1. b[w.tools[t].idx] = ToolState(w.tools[t])
        BY <2>8, <2>12, <3>1 DEF Shows
      <4> QED BY <1>3, <2>8, <2>10, <4>1 DEF ToolState
    <3>3. PICK c : c = [b EXCEPT ![i] = "closed"]
      OBVIOUS
    <3>4. c \in [Indexes -> BlockStates] /\ c[i] = "closed" /\ \A j \in Indexes : j # i => c[j] = b[j]
      BY <3>3 DEF BlockStates
    <3>5. ToolState(tb) = "closed"
      BY <2>5 DEF ToolState
    <3>6. Shows(c, x)
      BY <2>8, <2>9, <2>10, <2>12, <3>1, <3>4, <3>5
    <3>7. NextBlocks(b, e) = c
      BY <2>11, <3>3 DEF NextBlocks
    <3> QED BY <2>11, <2>12, <3>1, <3>2, <3>6, <3>7 DEF Accepts, NextPhase
  <2>13. y = emitEvent(x, e)
    BY <1>3, <2>7, <2>8, <2>10, <2>11 DEF closeToolBlock
  <2>14. /\ Fits(y, s, "message") /\ y.tools = x.tools /\ y.started = x.started
         /\ y.stopped = x.stopped /\ y.textOpen = x.textOpen /\ y.textClosed = x.textClosed
         /\ y.nextBlockIdx = x.nextBlockIdx
    <3>1. x \in Writers /\ Shape(x) /\ x.out = w.out
      BY <2>9
    <3> QED BY <2>12, <2>13, <3>1, EmitFits
  <2>15. y.tools[t].closed
    BY <2>5, <2>9, <2>14
  <2>16. \A u \in ToolIndexes : y.tools[u].idx = w.tools[u].idx /\ (u # t => y.tools[u] = w.tools[u])
    BY <2>8, <2>9, <2>14
  <2>17. Halted(y)
    BY <1>1, <2>9, <2>14 DEF Halted
  <2> QED BY <2>9, <2>14, <2>15, <2>16, <2>17
<1> QED BY <1>2, <1>3

KnownTool(w, t) == IF w.tools[t].idx # 0 THEN w ELSE Registered(w, t)
NamedTool(w, t, n) ==
  IF n # 0 /\ w.tools[t].name = 0 THEN [w EXCEPT !.tools[t].name = n] ELSE w
Opened(w, t) ==
  IF w.tools[t].started \/ w.tools[t].name = 0 THEN w
  ELSE emitEvent(StartedTool(closeTextBlock(w), t),
                 Event("content_block_start", w.tools[t].idx, w.tools[t].name))

LEMMA ensureToolBlockFits ==
  ASSUME NEW w, NEW s, Fits(w, s, "message"), NEW t \in ToolIndexes, NEW n \in Nat,
         NEW y, y = ensureToolBlock(w, t, n)
  PROVE  /\ Fits(y, s, "message") /\ (Late(w) => Late(y))
         /\ y.started = w.started /\ y.stopped = w.stopped
<1>1. PICK known : known = IF w.tools[t].idx # 0 THEN w ELSE Registered(w, t)
  OBVIOUS
<1>2. /\ Fits(known, s, "message") /\ (Late(w) => Late(known)) /\ known.tools[t].idx # 0
      /\ known.started = w.started /\ known.stopped = w.stopped
  <2>1. CASE w.tools[t].idx # 0
    BY <1>1, <2>1
  <2>2. CASE w.tools[t].idx = 0
    BY <1>1, <2>2, KnownFits
  <2> QED BY <2>1, <2>2
<1>3. PICK named : named = IF n # 0 /\ known.tools[t].name = 0
                           THEN [known EXCEPT !.tools[t].name = n] ELSE known
  OBVIOUS
<1>4. /\ Fits(named, s, "message") /\ (Late(w) => Late(named)) /\ named.tools[t].idx # 0
      /\ named.started = w.started /\ named.stopped = w.stopped
  <2>1. CASE n # 0 /\ known.tools[t].name = 0
    <3>1. named = [known EXCEPT !.tools[t].name = n]
      BY <1>3, <2>1
    <3> QED BY <1>2, <3>1, NamedFits
  <2>2. CASE ~(n # 0 /\ known.tools[t].name = 0)
    BY <1>2, <1>3, <2>2
  <2> QED BY <2>1, <2>2
<1>5. y = IF named.tools[t].started \/ named.tools[t].name = 0 THEN named
          ELSE emitEvent(StartedTool(closeTextBlock(named), t),
                         Event("content_block_start", named.tools[t].idx, named.tools[t].name))
  <2>1. ensureToolBlock(w, t, n) = Opened(NamedTool(KnownTool(w, t), t, n), t)
    BY Zenon DEF ensureToolBlock, Opened, KnownTool, NamedTool, Registered, StartedTool
  <2>2. known = KnownTool(w, t) /\ named = NamedTool(known, t, n)
    BY <1>1, <1>3, Zenon DEF KnownTool, NamedTool
  <2>3. y = Opened(named, t)
    BY <2>1, <2>2
  <2> QED BY <2>3, Zenon DEF Opened
<1>6. CASE named.tools[t].started \/ named.tools[t].name = 0
  BY <1>4, <1>5, <1>6
<1>7. CASE ~(named.tools[t].started \/ named.tools[t].name = 0)
  <2>1. PICK c : c = closeTextBlock(named)
    OBVIOUS
  <2>2. Fits(c, s, "message") /\ c.tools = named.tools /\ c.started = named.started /\ c.stopped = named.stopped
    BY <1>4, <2>1, closeTextBlockFits
  <2>3. PICK m \in Nat : m = named.tools[t].name
    <3>1. named \in Writers
      BY <1>4 DEF Fits
    <3> QED BY <3>1, ToolFields
  <2>4. y = emitEvent(StartedTool(c, t), Event("content_block_start", c.tools[t].idx, m))
    BY <1>5, <1>7, <2>1, <2>2, <2>3
  <2>5. c.tools[t].idx # 0 /\ ~c.tools[t].started
    BY <1>4, <1>7, <2>2
  <2>6. Fits(y, s, "message") /\ Late(y) /\ y.started = c.started /\ y.stopped = c.stopped
    BY <2>2, <2>4, <2>5, ToolStartFits
  <2> QED BY <1>4, <2>2, <2>6
<1> QED BY <1>6, <1>7

-----------------------------------------------------------------------------
(* The end of the stream: the writer after k rounds of the loop over the   *)
(* tool blocks, for each k up to n.                                        *)
IsLoop(loop, n, w, order) ==
  loop = [k \in 0 .. n |-> IF k = 0 THEN w ELSE closeToolBlock(loop[k - 1], order[k])]

LEMMA LoopAt ==
  ASSUME NEW w, NEW order, NEW n, NEW loop, IsLoop(loop, n, w, order), NEW k \in 0 .. n
  PROVE  loop[k] = IF k = 0 THEN w ELSE closeToolBlock(loop[k - 1], order[k])
<1> DEFINE F(j) == IF j = 0 THEN w ELSE closeToolBlock(loop[j - 1], order[j])
<1>1. loop = [j \in 0 .. n |-> F(j)]
  BY DEF IsLoop
<1> HIDE DEF F
<1>2. loop[k] = F(k)
  BY <1>1
<1> QED BY <1>2 DEF F

LEMMA LoopExists ==
  ASSUME NEW w, NEW order, NEW n \in Nat
  PROVE  \E loop : IsLoop(loop, n, w, order)
<1> DEFINE D == {m \in Nat : ~ \E loop : IsLoop(loop, m, w, order)}
<1> SUFFICES ASSUME D # {} PROVE FALSE
  OBVIOUS
<1>1. PICK m \in D : \A k \in D : m <= k
  <2>1. D \subseteq Nat
    OBVIOUS
  <2> HIDE DEF D
  <2> QED BY <2>1, LeastBelow
<1>2. m \in Nat
  BY <1>1
<1> HIDE DEF D
<1>3. CASE m = 0
  <2>1. IsLoop([i \in 0 .. 0 |-> w], 0, w, order)
    BY DEF IsLoop
  <2> QED BY <1>1, <1>3, <2>1 DEF D
<1>4. CASE m > 0
  <2>1. m - 1 \in Nat /\ m - 1 \notin D
    BY <1>1, <1>2, <1>4
  <2>2. PICK f : IsLoop(f, m - 1, w, order)
    BY <2>1 DEF D
  <2> DEFINE h == [i \in 0 .. m |-> IF i = m THEN closeToolBlock(f[m - 1], order[m]) ELSE f[i]]
  <2>3. ASSUME NEW i \in 0 .. m
        PROVE  h[i] = IF i = 0 THEN w ELSE closeToolBlock(h[i - 1], order[i])
    <3>1. CASE i = 0
      <4>1. 0 \in 0 .. (m - 1) /\ i # m
        BY <1>2, <1>4, <3>1
      <4>2. f[0] = w
        BY <2>2, <4>1, LoopAt
      <4> QED BY <3>1, <4>1, <4>2
    <3>2. CASE i > 0
      <4>1. i - 1 \in 0 .. m /\ i - 1 # m /\ h[i - 1] = f[i - 1]
        BY <1>2, <3>2
      <4>2. CASE i = m
        BY <3>2, <4>1, <4>2
      <4>3. CASE i # m
        <5>1. i \in 0 .. (m - 1) /\ h[i] = f[i]
          BY <1>2, <4>3
        <5>2. f[i] = IF i = 0 THEN w ELSE closeToolBlock(f[i - 1], order[i])
          BY <2>2, <5>1, LoopAt
        <5> HIDE DEF h
        <5> QED BY <3>2, <4>1, <5>1, <5>2
      <4> QED BY <4>2, <4>3
    <3> QED BY <3>1, <3>2
  <2>4. DOMAIN h = 0 .. m /\ h = [i \in 0 .. m |-> h[i]]
    OBVIOUS
  <2> HIDE DEF h
  <2>5. IsLoop(h, m, w, order)
    BY <2>3, <2>4 DEF IsLoop
  <2> QED BY <1>1, <2>5 DEF D
<1> QED BY <1>2, <1>3, <1>4

(* After k rounds the first k tool blocks are closed.                      *)
LoopDone(x, w, s, k) ==
  /\ Fits(x, s, "message")
  /\ x.nextBlockIdx = w.nextBlockIdx /\ x.textOpen = w.textOpen /\ x.textClosed = w.textClosed
  /\ x.started = w.started /\ Halted(x)
  /\ \A u \in ToolIndexes : x.tools[u].idx = w.tools[u].idx
  /\ \A u \in ToolIndexes :
       (x.tools[u].idx \in 1 .. k /\ x.tools[u].started) => x.tools[u].closed

LEMMA LoopStep ==
  ASSUME NEW w, NEW s, NEW x, NEW k \in Nat, LoopDone(x, w, s, k),
         NEW t \in ToolIndexes, w.tools[t].idx = k + 1, NEW y, y = closeToolBlock(x, t)
  PROVE  LoopDone(y, w, s, k + 1)
<1>1. Fits(x, s, "message") /\ Halted(x) /\ x \in Writers
  BY DEF LoopDone, Fits
<1>2. /\ Fits(y, s, "message") /\ (y.tools[t].started => y.tools[t].closed)
      /\ \A u \in ToolIndexes : /\ y.tools[u].idx = x.tools[u].idx
                                /\ u # t => y.tools[u] = x.tools[u]
      /\ y.nextBlockIdx = x.nextBlockIdx /\ y.textOpen = x.textOpen
      /\ y.textClosed = x.textClosed
      /\ y.started = x.started /\ Halted(y)
  BY <1>1, closeToolBlockFits
<1>3. \A u \in ToolIndexes : y.tools[u].idx = w.tools[u].idx
  BY <1>2 DEF LoopDone
<1>4. ASSUME NEW u \in ToolIndexes, y.tools[u].idx \in 1 .. (k + 1), y.tools[u].started
      PROVE  y.tools[u].closed
  <2>1. CASE u = t
    BY <1>2, <1>4, <2>1
  <2>2. CASE u # t
    <3>1. Shape(x) /\ \A v \in ToolIndexes : x.tools[v].idx = w.tools[v].idx
      BY <1>1 DEF LoopDone, Fits
    <3>2. x.tools[t].idx = k + 1 /\ k + 1 # 0
      BY <3>1
    <3>3. x.tools[u].idx # k + 1
      BY <2>2, <3>1, <3>2 DEF Shape
    <3>4. y.tools[u] = x.tools[u]
      BY <1>2, <2>2
    <3>5. x.tools[u].idx \in 1 .. k
      BY <1>4, <3>3, <3>4
    <3> QED BY <1>4, <3>4, <3>5 DEF LoopDone
  <2> QED BY <2>1, <2>2
<1> QED BY <1>2, <1>3, <1>4 DEF LoopDone

LEMMA closeToolBlocksFits ==
  ASSUME NEW w, NEW s, Fits(w, s, "message"), Halted(w), NEW x, x = closeToolBlocks(w)
  PROVE  LoopDone(x, w, s, w.nextBlockIdx - 1)
<1>1. w \in Writers /\ Shape(w)
  BY DEF Fits
<1>2. PICK n \in Nat : n = w.nextBlockIdx - 1
  <2>1. w.nextBlockIdx \in Nat \ {0}
    BY <1>1, KnownBound
  <2>2. w.nextBlockIdx - 1 \in Nat
    BY <2>1
  <2> QED BY <2>2
<1>3. PICK order : order = ToolsInOrder(w)
  OBVIOUS
<1>4. ASSUME NEW k \in 1 .. n PROVE order[k] \in ToolIndexes /\ w.tools[order[k]].idx = k
  <2>1. PICK u \in ToolIndexes : w.tools[u].idx = k
    BY <1>1, <1>2 DEF Shape
  <2>2. order[k] = CHOOSE t \in ToolIndexes : w.tools[t].idx = k
    BY <1>2, <1>3 DEF ToolsInOrder
  <2> QED BY <2>1, <2>2, Zenon
<1> DEFINE f == CHOOSE loop : IsLoop(loop, n, w, order)
<1>5. IsLoop(f, n, w, order)
  BY LoopExists
<1>6. closeToolBlocks(w) = f[n]
  BY <1>2, <1>3 DEF closeToolBlocks, IsLoop
<1> HIDE DEF f
<1> DEFINE D == {m \in Nat : m <= n /\ ~LoopDone(f[m], w, s, m)}
<1>7. D = {}
  <2> SUFFICES ASSUME D # {} PROVE FALSE
    OBVIOUS
  <2>1. PICK m \in D : \A k \in D : m <= k
    <3>1. D \subseteq Nat
      OBVIOUS
    <3> HIDE DEF D
    <3> QED BY <3>1, LeastBelow
  <2>2. m \in Nat /\ m <= n /\ ~LoopDone(f[m], w, s, m)
    BY <2>1
  <2>3. CASE m = 0
    <3>1. f[0] = w
      <4>1. 0 \in 0 .. n
        OBVIOUS
      <4> QED BY <1>5, <4>1, LoopAt
    <3>2. \A i : i \notin 1 .. 0
      OBVIOUS
    <3>3. LoopDone(w, w, s, 0)
      BY <3>2 DEF LoopDone
    <3> QED BY <2>2, <2>3, <3>1, <3>3
  <2>4. CASE m > 0
    <3>1. PICK k \in Nat : m = k + 1
      <4>1. m - 1 \in Nat /\ m = (m - 1) + 1
        BY <2>2, <2>4
      <4> QED BY <4>1
    <3>2. LoopDone(f[k], w, s, k)
      <4>1. k \notin D
        BY <2>1, <2>2, <3>1
      <4> QED BY <2>2, <3>1, <4>1
    <3>3. f[m] = closeToolBlock(f[k], order[m])
      <4>1. m \in 0 .. n /\ m # 0 /\ m - 1 = k
        BY <2>2, <3>1
      <4> QED BY <1>5, <4>1, LoopAt
    <3>4. order[m] \in ToolIndexes /\ w.tools[order[m]].idx = k + 1
      <4>1. m \in 1 .. n
        BY <2>2, <2>4
      <4> QED BY <1>4, <3>1, <4>1
    <3>5. LoopDone(f[m], w, s, k + 1)
      BY <3>2, <3>3, <3>4, LoopStep
    <3> QED BY <2>2, <3>1, <3>5
  <2> QED BY <2>2, <2>3, <2>4
<1>8. LoopDone(f[n], w, s, n)
  BY <1>7
<1> QED BY <1>2, <1>6, <1>8

LEMMA finalizeFits ==
  ASSUME NEW w, NEW s, Fits(w, s, IF w.started THEN "message" ELSE "idle"), ~w.stopped,
         NEW x, x = finalize(w)
  PROVE  Fits(x, s, "ended") /\ x.started /\ x.stopped
<1>1. PICK begun : begun = ensureStart(w)
  OBVIOUS
<1>2. Fits(begun, s, "message") /\ begun.started
  BY <1>1, ensureStartFits
<1>3. PICK shell : shell = IF ~begun.textOpen /\ begun.nextBlockIdx = 1
                           THEN ensureTextBlock(begun) ELSE begun
  OBVIOUS
<1>4. Fits(shell, s, "message") /\ shell.started
  <2>1. CASE ~begun.textOpen /\ begun.nextBlockIdx = 1
    <3>1. shell = ensureTextBlock(begun)
      BY <1>3, <2>1
    <3> QED BY <1>2, <3>1, ensureTextBlockFits
  <2>2. CASE ~(~begun.textOpen /\ begun.nextBlockIdx = 1)
    BY <1>2, <1>3, <2>2
  <2> QED BY <2>1, <2>2
<1>5. PICK marked : marked = [shell EXCEPT !.stopped = TRUE]
  OBVIOUS
<1>6. Fits(marked, s, "message") /\ marked.started /\ marked.stopped = TRUE
  <2>1. shell \in Writers /\ Shape(shell)
    BY <1>4 DEF Fits
  <2>2. marked \in Writers /\ marked.stopped = TRUE
    BY <1>5, <2>1 DEF Writers
  <2>3. /\ marked.started = shell.started /\ marked.textOpen = shell.textOpen
        /\ marked.textClosed = shell.textClosed /\ marked.tools = shell.tools
        /\ marked.nextBlockIdx = shell.nextBlockIdx /\ marked.out = shell.out
    BY <1>5, <2>1 DEF Writers
  <2>4. Shape(marked)
    <3>1. Known(marked) = Known(shell)
      BY <2>3 DEF Known
    <3> QED BY <2>1, <2>2, <2>3, <3>1 DEF Shape
  <2>5. ASSUME NEW b \in [Indexes -> BlockStates], Shows(b, shell) PROVE Shows(b, marked)
    <3>1. TextState(marked) = TextState(shell)
      BY <2>3 DEF TextState
    <3> QED BY <2>3, <2>5, <3>1 DEF Shows
  <2>6. Fits(marked, s, "message")
    BY <1>4, <2>2, <2>3, <2>4, <2>5, PlainFits
  <2> QED BY <1>4, <2>2, <2>3, <2>6
<1>7. PICK text : text = closeTextBlock(marked)
  OBVIOUS
<1>8. /\ Fits(text, s, "message") /\ text.started /\ Halted(text)
      /\ text.textOpen => text.textClosed
  BY <1>6, <1>7, closeTextBlockFits DEF Halted
<1>9. PICK tools : tools = closeToolBlocks(text)
  OBVIOUS
<1>10. LoopDone(tools, text, s, text.nextBlockIdx - 1)
  BY <1>8, <1>9, closeToolBlocksFits
<1>11. /\ Fits(tools, s, "message") /\ tools.started /\ tools.stopped = TRUE
       /\ tools.textOpen => tools.textClosed
       /\ tools.nextBlockIdx = text.nextBlockIdx /\ tools \in Writers /\ Shape(tools)
  BY <1>8, <1>10 DEF LoopDone, Fits, Halted
<1>12. PICK why \in Nat \cup {"tool_use", "end_turn"} : why = mapStopReason(w.finish)
  BY DEF mapStopReason
<1>13. 0 \in Indexes /\ (\A i \in Indexes : i \in Nat) /\ tools.nextBlockIdx \in Nat \ {0}
  BY <1>11, KnownBound
<1>14. PICK e \in Events : /\ e = Event("message_delta", 0, why)
                           /\ e.event = "message_delta" /\ e.index = 0
  <2>1. "message_delta" \in EventNames
    BY DEF EventNames
  <2> QED BY <1>13, <2>1, EventType
<1>15. ASSUME NEW z \in Pictures, z.phase = "message", Shows(z.block, tools)
       PROVE  Accepts(z, e) /\ NextPhase("message", e) = "summed" /\ Shows(NextBlocks(z.block, e), tools)
  <2>1. NextBlocks(z.block, e) = z.block /\ NextPhase("message", e) = "summed"
    BY <1>14 DEF NextBlocks, NextPhase
  <2>2. ASSUME NEW i \in Indexes PROVE z.block[i] # "open"
    <3>1. CASE i = 0
      BY <1>11, <1>15, <3>1 DEF Shows, TextState
    <3>2. CASE i >= tools.nextBlockIdx
      <4>1. z.block[i] = "absent"
        BY <1>15, <3>2 DEF Shows
      <4> QED BY <4>1
    <3>3. CASE i # 0 /\ ~(i >= tools.nextBlockIdx)
      <4>1. i \in 1 .. (tools.nextBlockIdx - 1)
        BY <1>13, <3>3
      <4>2. PICK t \in ToolIndexes : tools.tools[t].idx = i
        BY <1>11, <4>1 DEF Shape
      <4>3. tools.tools[t].started => tools.tools[t].closed
        BY <1>10, <1>11, <4>1, <4>2 DEF LoopDone
      <4>4. z.block[i] = ToolState(tools.tools[t])
        BY <1>15, <3>3, <4>2 DEF Shows
      <4> QED BY <4>3, <4>4 DEF ToolState
    <3> QED BY <3>1, <3>2, <3>3
  <2> QED BY <1>14, <1>15, <2>1, <2>2 DEF Accepts
<1>16. PICK summed : summed = emitEvent(tools, e)
  OBVIOUS
<1>17. /\ Fits(summed, s, "summed") /\ summed.started = tools.started
       /\ summed.stopped = tools.stopped /\ summed \in Writers /\ Shape(summed)
  <2>0. Fits(tools, s, "message") /\ tools \in Writers /\ Shape(tools)
    BY <1>11
  <2>1. /\ Fits(summed, s, "summed") /\ summed.started = tools.started
        /\ summed.stopped = tools.stopped
    BY <1>15, <1>16, <2>0, EmitFits
  <2> QED BY <2>1 DEF Fits
<1>18. PICK d \in Events : /\ d = Event("message_stop", 0, 0)
                           /\ d.event = "message_stop" /\ d.index = 0
  <2>1. "message_stop" \in EventNames /\ 0 \in Nat \cup {"tool_use", "end_turn"}
    BY DEF EventNames
  <2> QED BY <1>13, <2>1, EventType
<1>19. \A z \in Pictures : (z.phase = "summed" /\ Shows(z.block, summed)) =>
         /\ Accepts(z, d) /\ NextPhase("summed", d) = "ended" /\ Shows(NextBlocks(z.block, d), summed)
  BY <1>18 DEF Accepts, NextPhase, NextBlocks
<1>20. x = emitEvent(summed, d)
  <2>1. finalize(w) = emitEvent(emitEvent(tools, Event("message_delta", 0, mapStopReason(w.finish))),
                                Event("message_stop", 0, 0))
    BY <1>1, <1>3, <1>5, <1>7, <1>9, Zenon DEF finalize
  <2> QED BY <1>12, <1>14, <1>16, <1>18, <2>1
<1>21. Fits(x, s, "ended") /\ x.started = summed.started /\ x.stopped = summed.stopped
  BY <1>17, <1>19, <1>20, EmitFits
<1> QED BY <1>11, <1>17, <1>21

(* A writer whose stream has not ended, and any writer.                    *)
Unended(w, s) ==
  Fits(w, s, IF w.started THEN "message" ELSE "idle") /\ Late(w) /\ ~w.stopped
Good(w, s) ==
  Unended(w, s) \/ (Fits(w, s, "ended") /\ w.started /\ w.stopped)

LEMMA ChunkFields ==
  ASSUME NEW line \in Chunks
  PROVE  /\ line.kind = "chunk" /\ line.tool \in ToolIndexes \cup {NoTool}
         /\ line.finish \in Finishes
<1>1. line \in [kind : {"chunk"}, text : BOOLEAN, tool : ToolIndexes \cup {NoTool},
                name : BOOLEAN, args : BOOLEAN, finish : Finishes]
  BY ChunkAssumption, Zenon DEF Finishes
<1> QED BY <1>1

LEMMA LineKinds ==
  ASSUME NEW line \in Chunks \cup {Noise, Done}
  PROVE  /\ line.kind = "done" <=> line = Done
         /\ line.kind = "chunk" <=> line \in Chunks
         /\ line # NoLine
<1>1. Done.kind = "done" /\ Noise.kind = "noise" /\ NoLine.kind = "none"
  BY DEF Done, Noise, NoLine
<1>2. line \in Chunks => line.kind = "chunk"
  BY ChunkFields
<1> QED BY <1>1, <1>2

TextPart(w, n) ==
  emitEvent(ensureTextBlock(ensureStart(w)), Event("content_block_delta", 0, n))

LEMMA TextPartGood ==
  ASSUME NEW w, NEW s, Unended(w, s), NEW n \in Nat, NEW x, x = TextPart(w, n)
  PROVE  Unended(x, s) /\ x.started
<1>1. PICK a : a = ensureStart(w)
  OBVIOUS
<1>2. Fits(a, s, "message") /\ Late(a) /\ a.started /\ a.stopped = w.stopped
  BY <1>1, ensureStartFits DEF Unended
<1>3. PICK b : b = ensureTextBlock(a)
  OBVIOUS
<1>4. Fits(b, s, "message") /\ Late(b) /\ b.textOpen /\ b.started = a.started /\ b.stopped = a.stopped
  BY <1>2, <1>3, ensureTextBlockFits
<1>5. ~b.stopped /\ b.started
  BY <1>2, <1>4 DEF Unended
<1>6. x = emitEvent(b, Event("content_block_delta", 0, n))
  BY <1>1, <1>3 DEF TextPart
<1>7. Fits(x, s, "message") /\ Late(x) /\ x.started = b.started /\ x.stopped = b.stopped
  BY <1>4, <1>5, <1>6, TextDeltaFits
<1> QED BY <1>5, <1>7 DEF Unended

ToolPart(w, line, n) ==
  LET b == ensureToolBlock(ensureStart(w), line.tool, IF line.name THEN n ELSE 0)
  IN  IF line.args /\ b.tools[line.tool].started
      THEN emitEvent(b, Event("content_block_delta", b.tools[line.tool].idx, n))
      ELSE b

LEMMA ToolPartGood ==
  ASSUME NEW w, NEW s, Unended(w, s), NEW n \in Nat, NEW line, line.tool \in ToolIndexes,
         NEW x, x = ToolPart(w, line, n)
  PROVE  Unended(x, s)
<1>1. PICK a : a = ensureStart(w)
  OBVIOUS
<1>2. Fits(a, s, "message") /\ Late(a) /\ a.started /\ a.stopped = w.stopped
  BY <1>1, ensureStartFits DEF Unended
<1>3. PICK t \in ToolIndexes : t = line.tool
  OBVIOUS
<1>4. PICK m \in Nat : m = IF line.name THEN n ELSE 0
  OBVIOUS
<1>5. PICK b : b = ensureToolBlock(a, t, m)
  OBVIOUS
<1>6. Fits(b, s, "message") /\ Late(b) /\ b.started = a.started /\ b.stopped = a.stopped
  BY <1>2, <1>5, ensureToolBlockFits
<1>7. ~b.stopped /\ b.started
  BY <1>2, <1>6 DEF Unended
<1>8. x = IF line.args /\ b.tools[t].started
          THEN emitEvent(b, Event("content_block_delta", b.tools[t].idx, n)) ELSE b
  BY <1>1, <1>3, <1>4, <1>5, Zenon DEF ToolPart
<1>9. CASE line.args /\ b.tools[t].started
  <2>1. x = emitEvent(b, Event("content_block_delta", b.tools[t].idx, n))
    BY <1>8, <1>9
  <2>2. Fits(x, s, "message") /\ Late(x) /\ x.started = b.started /\ x.stopped = b.stopped
    <3>1. ~b.stopped /\ b.tools[t].started
      BY <1>7, <1>9
    <3> QED BY <1>6, <2>1, <3>1, ToolDeltaFits
  <2> QED BY <1>7, <2>2 DEF Unended
<1>10. CASE ~(line.args /\ b.tools[t].started)
  BY <1>6, <1>7, <1>8, <1>10 DEF Unended
<1> QED BY <1>9, <1>10

LEMMA FinishGood ==
  ASSUME NEW w, NEW s, Unended(w, s), NEW f \in Finishes, NEW x, x = [w EXCEPT !.finish = f]
  PROVE  Unended(x, s)
<1>1. w \in Writers /\ Shape(w)
  BY DEF Unended, Fits
<1>2. x \in Writers
  BY <1>1 DEF Writers
<1>3. /\ x.started = w.started /\ x.textOpen = w.textOpen /\ x.textClosed = w.textClosed
      /\ x.stopped = w.stopped /\ x.tools = w.tools /\ x.nextBlockIdx = w.nextBlockIdx
      /\ x.out = w.out
  BY <1>1 DEF Writers
<1>4. Shape(x) /\ (Late(w) => Late(x)) /\ \A b : Shows(b, w) => Shows(b, x)
  BY <1>1, <1>3, SameFlags
<1>5. PICK ph : ph = IF w.started THEN "message" ELSE "idle"
  OBVIOUS
<1>6. Fits(w, s, ph)
  BY <1>5 DEF Unended
<1>7. Fits(x, s, ph)
  BY <1>2, <1>3, <1>4, <1>6, PlainFits
<1> QED BY <1>3, <1>4, <1>5, <1>7 DEF Unended

LEMMA processLineGood ==
  ASSUME NEW w, NEW s, Unended(w, s), NEW line \in Chunks \cup {Noise, Done}, NEW n \in Nat,
         NEW x, x = processLine(w, line, n)
  PROVE  Good(x, s) /\ (x.stopped => line = Done)
<1>1. CASE line.kind = "done"
  <2>1. x = finalize(w)
    BY <1>1 DEF processLine
  <2>2. Fits(x, s, "ended") /\ x.started /\ x.stopped
    BY <2>1, finalizeFits DEF Unended
  <2> QED BY <1>1, <2>2, LineKinds DEF Good
<1>2. CASE line.kind # "done" /\ line.kind # "chunk"
  <2>1. x = w
    BY <1>2 DEF processLine
  <2> QED BY <2>1 DEF Good, Unended
<1>3. CASE line.kind = "chunk"
  <2>1. line \in Chunks /\ line.tool \in ToolIndexes \cup {NoTool} /\ line.finish \in Finishes
    BY <1>3, LineKinds, ChunkFields
  <2>2. PICK text : text = IF ~line.text THEN w ELSE TextPart(w, n)
    OBVIOUS
  <2>3. Unended(text, s)
    BY <2>2, TextPartGood
  <2>4. PICK tool : tool = IF line.tool = NoTool THEN text ELSE ToolPart(text, line, n)
    OBVIOUS
  <2>5. Unended(tool, s)
    <3>1. CASE line.tool = NoTool
      BY <2>3, <2>4, <3>1
    <3>2. CASE line.tool # NoTool
      <4>1. line.tool \in ToolIndexes /\ tool = ToolPart(text, line, n)
        BY <2>1, <2>4, <3>2
      <4> QED BY <2>3, <4>1, ToolPartGood
    <3> QED BY <3>1, <3>2
  <2>6. x = tool \/ x = [tool EXCEPT !.finish = line.finish]
    <3>1. processLine(w, line, n) =
            IF line.kind = "done" THEN finalize(w)
            ELSE IF line.kind # "chunk" THEN w
            ELSE IF line.finish = "" THEN tool ELSE [tool EXCEPT !.finish = line.finish]
      BY <2>2, <2>4, Zenon DEF processLine, TextPart, ToolPart
    <3>2. ~(line.kind = "done")
      BY <1>3
    <3> QED BY <1>3, <3>1, <3>2, Zenon
  <2>7. PICK f \in Finishes : f = line.finish
    BY <2>1
  <2>8. Unended(x, s)
    BY <2>5, <2>6, <2>7, FinishGood
  <2> QED BY <2>8 DEF Good, Unended
<1> QED BY <1>1, <1>2, <1>3

LEMMA EndOfStreamGood ==
  ASSUME NEW w, NEW s, Good(w, s), NEW x, x = EndOfStream(w)
  PROVE  Good(x, s) /\ x.started = w.started /\ (x.started => x.stopped)
<1>1. CASE ~w.started
  BY <1>1 DEF EndOfStream, Good
<1>2. CASE w.started /\ w.stopped
  BY <1>2 DEF EndOfStream, finalize
<1>3. CASE w.started /\ ~w.stopped
  <2>1. x = finalize(w)
    BY <1>3 DEF EndOfStream
  <2>2. Fits(w, s, IF w.started THEN "message" ELSE "idle")
    BY <1>3 DEF Good, Unended
  <2>3. Fits(x, s, "ended") /\ x.started /\ x.stopped
    BY <1>3, <2>1, <2>2, finalizeFits
  <2>4. w.started = TRUE /\ x.started = TRUE
    BY <1>3, <2>2, <2>3 DEF Fits, Writers
  <2> QED BY <2>3, <2>4 DEF Good
<1> QED BY <1>1, <1>2, <1>3

-----------------------------------------------------------------------------
(* The client, and the whole of the handler.                               *)

PicOf(c) == [phase |-> c.phase, block |-> c.block]
ClientOf(p, b, v, h, nm, dt, st, su, an) ==
  [phase |-> p, block |-> b, event |-> v, heard |-> h, name |-> nm, data |-> dt, stop |-> st,
   status |-> su, answer |-> an]
IsClient(c) == \E p, b, v, h, nm, dt, st, su, an : c = ClientOf(p, b, v, h, nm, dt, st, su, an)

LEMMA ReceiveIs ==
  ASSUME NEW p, NEW b, NEW v, NEW h, NEW nm, NEW dt, NEW st, NEW su, NEW an,
         NEW c, c = ClientOf(p, b, v, h, nm, dt, st, su, an),
         NEW e \in Events, NEW d, d = Receive(c, e)
  PROVE  \E nm1, dt1, st1 :
           d = ClientOf(NextPhase(p, e), NextBlocks(b, e), <<e.event, e.index>>, h + 1, nm1, dt1,
                        st1, su, an)
<1>1. e.event \in EventNames
  BY DEF Events
<1>2. CASE e.event = "message_start"
  BY <1>2 DEF Receive, NextPhase, NextBlocks, ClientOf
<1>3. CASE e.event = "content_block_start"
  BY <1>3 DEF Receive, NextPhase, NextBlocks, ClientOf
<1>4. CASE e.event = "content_block_delta"
  BY <1>4 DEF Receive, NextPhase, NextBlocks, ClientOf
<1>5. CASE e.event = "content_block_stop"
  BY <1>5 DEF Receive, NextPhase, NextBlocks, ClientOf
<1>6. CASE e.event = "message_delta"
  BY <1>6 DEF Receive, NextPhase, NextBlocks, ClientOf
<1>7. CASE e.event = "message_stop"
  BY <1>7 DEF Receive, NextPhase, NextBlocks, ClientOf
<1> QED BY <1>1, <1>2, <1>3, <1>4, <1>5, <1>6, <1>7 DEF EventNames

LEMMA ReceiveFields ==
  ASSUME NEW c, IsClient(c), NEW e \in Events, NEW d, d = Receive(c, e)
  PROVE  /\ IsClient(d) /\ d.phase = NextPhase(c.phase, e) /\ d.block = NextBlocks(c.block, e)
         /\ d.event = <<e.event, e.index>> /\ d.heard = c.heard + 1 /\ d.status = c.status
<1>1. PICK p, b, v, h, nm, dt, st, su, an : c = ClientOf(p, b, v, h, nm, dt, st, su, an)
  BY DEF IsClient
<1>2. c.phase = p /\ c.block = b /\ c.heard = h /\ c.status = su
  BY <1>1 DEF ClientOf
<1>3. PICK nm1, dt1, st1 :
        d = ClientOf(NextPhase(p, e), NextBlocks(b, e), <<e.event, e.index>>, h + 1, nm1, dt1,
                     st1, su, an)
  BY <1>1, ReceiveIs
<1>4. /\ d.phase = NextPhase(p, e) /\ d.block = NextBlocks(b, e)
      /\ d.event = <<e.event, e.index>> /\ d.heard = h + 1 /\ d.status = su
  BY <1>3 DEF ClientOf
<1>5. IsClient(d)
  BY <1>3, Zenon DEF IsClient
<1> QED BY <1>2, <1>4, <1>5

LEMMA LeadsStill ==
  ASSUME NEW s, NEW q, q = <<>>, NEW z, Leads(s, q, z)
  PROVE  s = z
<1>1. Len(q) + 1 = 1
  OBVIOUS
<1> QED BY <1>1 DEF Leads

LEMMA FitsStill ==
  ASSUME NEW w, NEW s, NEW ph, Fits(w, s, ph), w.out = <<>>
  PROVE  s.phase = ph
<1>1. PICK z \in Pictures : Leads(s, w.out, z) /\ z.phase = ph
  BY DEF Fits
<1>2. s = z
  BY <1>1, LeadsStill
<1> QED BY <1>1, <1>2

LEMMA SameGood ==
  ASSUME NEW w, NEW s, Good(w, s), NEW x \in Writers, x.out = w.out, x.started = w.started,
         /\ x.textOpen = w.textOpen /\ x.textClosed = w.textClosed
         /\ x.stopped = w.stopped /\ x.tools = w.tools /\ x.nextBlockIdx = w.nextBlockIdx
  PROVE  Good(x, s)
<1>1. Shape(w)
  BY DEF Good, Unended, Fits
<1>2. Shape(x) /\ (Late(w) => Late(x)) /\ \A b : Shows(b, w) => Shows(b, x)
  BY <1>1, SameFlags
<1>3. ASSUME NEW ph, Fits(w, s, ph) PROVE Fits(x, s, ph)
  BY <1>2, <1>3, PlainFits
<1>4. CASE Unended(w, s)
  <2>1. PICK ph : ph = IF w.started THEN "message" ELSE "idle"
    OBVIOUS
  <2>2. Fits(x, s, ph)
    BY <1>3, <1>4, <2>1 DEF Unended
  <2> QED BY <1>2, <1>4, <2>1, <2>2 DEF Unended, Good
<1>5. CASE Fits(w, s, "ended") /\ w.started /\ w.stopped
  BY <1>3, <1>5 DEF Good
<1> QED BY <1>4, <1>5 DEF Good

LEMMA FlushFits ==
  ASSUME NEW w, NEW s, NEW ph, Fits(w, s, ph), w.out # <<>>, NEW e, e = Head(w.out),
         NEW x \in Writers, Shape(x), x.out = Tail(w.out), \A b : Shows(b, w) => Shows(b, x)
  PROVE  e \in Events /\ Accepts(s, e) /\ Fits(x, After(s, e), ph)
<1>1. PICK q \in Seq(Events) : q = w.out
  BY DEF Fits, Writers
<1>2. PICK z \in Pictures : Leads(s, q, z) /\ z.phase = ph /\ Shows(z.block, w)
  BY <1>1 DEF Fits
<1>3. PICK r : r = Tail(q)
  OBVIOUS
<1>4. Accepts(s, e) /\ Leads(After(s, e), r, z)
  BY <1>1, <1>2, <1>3, LeadsFrom
<1>5. e \in Events
  BY <1>1
<1> QED BY <1>1, <1>2, <1>3, <1>4, <1>5 DEF Fits

LEMMA FlushGood ==
  ASSUME NEW w, NEW s, Good(w, s), w.out # <<>>, NEW e, e = Head(w.out),
         NEW x, x = [w EXCEPT !.out = Tail(@)]
  PROVE  /\ e \in Events /\ Accepts(s, e) /\ Good(x, After(s, e))
         /\ x.started = w.started /\ x.stopped = w.stopped
<1>1. w \in Writers /\ Shape(w)
  BY DEF Good, Unended, Fits
<1>2. PICK q \in Seq(Events) : q = Tail(w.out)
  <2>1. PICK o \in Seq(Events) : o = w.out
    BY <1>1 DEF Writers
  <2>2. Tail(o) \in Seq(Events)
    BY <2>1, HeadTailProperties
  <2> QED BY <2>1, <2>2
<1>3. x = [w EXCEPT !.out = q]
  BY <1>2
<1>4. x \in Writers
  BY <1>1, <1>3 DEF Writers
<1>5. /\ x.started = w.started /\ x.textOpen = w.textOpen /\ x.textClosed = w.textClosed
      /\ x.stopped = w.stopped /\ x.tools = w.tools /\ x.nextBlockIdx = w.nextBlockIdx
      /\ x.out = q
  BY <1>1, <1>3 DEF Writers
<1>6. Shape(x) /\ (Late(w) => Late(x)) /\ \A b : Shows(b, w) => Shows(b, x)
  BY <1>1, <1>5, SameFlags
<1>7. ASSUME NEW ph, Fits(w, s, ph)
      PROVE  e \in Events /\ Accepts(s, e) /\ Fits(x, After(s, e), ph)
  BY <1>2, <1>4, <1>5, <1>6, <1>7, FlushFits
<1>8. CASE Unended(w, s)
  <2>1. PICK ph : ph = IF w.started THEN "message" ELSE "idle"
    OBVIOUS
  <2>2. e \in Events /\ Accepts(s, e) /\ Fits(x, After(s, e), ph)
    BY <1>7, <1>8, <2>1 DEF Unended
  <2>3. Unended(x, After(s, e))
    BY <1>5, <1>6, <1>8, <2>1, <2>2 DEF Unended
  <2> QED BY <1>5, <2>2, <2>3 DEF Good
<1>9. CASE Fits(w, s, "ended") /\ w.started /\ w.stopped
  BY <1>5, <1>7, <1>9 DEF Good
<1> QED BY <1>8, <1>9 DEF Good

-----------------------------------------------------------------------------
LineTypes == Chunks \cup {Noise, Done}

StreamTypes ==
  /\ req \in [stream : BOOLEAN, code : {200, 429}]
  /\ lines \in Seq(LineTypes)
  /\ carry \in LineTypes \cup {NoLine}
  /\ at \in {"start", "inner", "ending", "done"}
  /\ IsClient(client) /\ PicOf(client) \in Pictures
  /\ client.heard \in Nat

StreamInv ==
  /\ StreamTypes
  /\ client.heard > 0 <=> client.phase # "idle"
  /\ Good(sw, PicOf(client))
  /\ (at = "start" \/ ~req.stream) => (~sw.started /\ sw.out = <<>>)
  /\ sw.stopped => carry = NoLine
  /\ (sw.stopped /\ at = "inner") => Done \in ToSet(lines)
  /\ at = "ending" => req.stream
  /\ at \in {"ending", "done"} => (sw.started => sw.stopped)
  /\ at = "done" => sw.out = <<>>
  /\ at # "done" => client.status = 0
  /\ at = "done" => client.status = IF sw.started THEN 0
                                    ELSE IF req.code >= 400 THEN req.code
                                    ELSE IF req.stream THEN 502 ELSE 200

LEMMA StreamInvAnswers == StreamInv => AnsweredOnce
<1> SUFFICES ASSUME StreamInv, at = "done" PROVE AnsweredOnce
  BY DEF AnsweredOnce
<1>1. PICK s : s = PicOf(client)
  OBVIOUS
<1>2. Good(sw, s) /\ sw.out = <<>> /\ s.phase = client.phase
  BY <1>1 DEF StreamInv, PicOf
<1>3. CASE sw.started
  <2>1. sw.stopped
    BY <1>3 DEF StreamInv
  <2>2. Fits(sw, s, "ended")
    BY <1>2, <2>1 DEF Good, Unended
  <2>3. client.phase = "ended"
    BY <1>2, <2>2, FitsStill
  <2>4. client.status = 0
    BY <1>3 DEF StreamInv
  <2>5. client.heard > 0
    BY <2>3 DEF StreamInv
  <2> QED BY <2>3, <2>4, <2>5 DEF AnsweredOnce
<1>4. CASE ~sw.started
  <2>1. Fits(sw, s, "idle")
    BY <1>2, <1>4 DEF Good, Unended
  <2>2. client.phase = "idle"
    BY <1>2, <2>1, FitsStill
  <2>3. ~(client.heard > 0)
    BY <2>2 DEF StreamInv
  <2>4. client.status = IF req.code >= 400 THEN req.code ELSE IF req.stream THEN 502 ELSE 200
    BY <1>4 DEF StreamInv
  <2> QED BY <2>3, <2>4 DEF AnsweredOnce
<1> QED BY <1>3, <1>4

LEMMA NewWriterGood ==
  ASSUME NEW s \in Pictures, s.phase = "idle", s.block = [i \in Indexes |-> "absent"]
  PROVE  Good(newStreamWriter, s) /\ ~newStreamWriter.started /\ newStreamWriter.out = <<>>
         /\ ~newStreamWriter.stopped
<1>1. PICK f \in Finishes : f = ""
  BY Zenon DEF Finishes
<1>2. PICK w : w = newStreamWriter
  OBVIOUS
<1>3. PICK tools : tools = [t \in ToolIndexes |-> NoBlock]
  OBVIOUS
<1>4. w = [started |-> FALSE, textOpen |-> FALSE, textClosed |-> FALSE, stopped |-> FALSE,
           finish |-> f, tools |-> tools, nextBlockIdx |-> 1, errBuf |-> FALSE, out |-> <<>>]
  BY <1>1, <1>2, <1>3, Zenon DEF newStreamWriter
<1>5. /\ w.started = FALSE /\ w.textOpen = FALSE /\ w.textClosed = FALSE /\ w.stopped = FALSE
      /\ w.tools = tools /\ w.nextBlockIdx = 1 /\ w.out = <<>>
  BY <1>4
<1>6. NoBlock \in ToolBlocks /\ NoBlock.idx = 0 /\ NoBlock.started = FALSE /\ NoBlock.closed = FALSE
  BY DEF NoBlock, ToolBlocks
<1>7. /\ tools \in [ToolIndexes -> ToolBlocks]
      /\ \A t \in ToolIndexes : /\ w.tools[t].idx = 0 /\ w.tools[t].started = FALSE
                                /\ w.tools[t].closed = FALSE
  BY <1>3, <1>5, <1>6
<1>8. w \in Writers
  <2>1. <<>> \in Seq(Events)
    OBVIOUS
  <2> QED BY <1>4, <1>7, <2>1 DEF Writers
<1>9. Shape(w)
  <2>1. Known(w) = {}
    BY <1>7 DEF Known
  <2>2. w.nextBlockIdx = Cardinality(Known(w)) + 1
    BY <1>5, <2>1, FS_EmptySet
  <2>3. \A k \in 1 .. (w.nextBlockIdx - 1) : FALSE
    BY <1>5
  <2> QED BY <1>5, <1>7, <2>2, <2>3 DEF Shape
<1>10. Shows(s.block, w)
  <2>1. 0 \in Indexes
    BY <1>8, <1>9, KnownBound
  <2> QED BY <1>5, <1>7, <2>1 DEF Shows, TextState
<1>11. Leads(s, w.out, s)
  BY <1>5, LeadsNowhere
<1>12. Fits(w, s, "idle") /\ Late(w)
  BY <1>5, <1>8, <1>9, <1>10, <1>11 DEF Fits, Late
<1> QED BY <1>2, <1>5, <1>12 DEF Good, Unended

LEMMA StreamInitInv == StreamInit => StreamInv /\ Protocol!Init
<1> SUFFICES ASSUME StreamInit PROVE StreamInv /\ Protocol!Init
  OBVIOUS
<1>1. PICK ev, nm, dt, st : ev = <<"", 0>> /\ nm = [i \in Indexes |-> 0]
                            /\ dt = [i \in Indexes |-> <<>>] /\ st = ""
  BY Zenon
<1>2. PICK b : b = [i \in Indexes |-> "absent"]
  OBVIOUS
<1>3. client = ClientOf("idle", b, ev, 0, nm, dt, st, 0, <<>>)
  BY <1>1, <1>2, Zenon DEF StreamInit, NewClient, ClientOf
<1>4. /\ client.phase = "idle" /\ client.block = b /\ client.event = ev /\ client.heard = 0
      /\ client.status = 0
  BY <1>3 DEF ClientOf
<1>5. IsClient(client)
  BY <1>3, Zenon DEF IsClient
<1>6. PICK s : s = PicOf(client)
  OBVIOUS
<1>7. s \in Pictures /\ s.phase = "idle" /\ s.block = [i \in Indexes |-> "absent"]
  BY <1>2, <1>4, <1>6 DEF PicOf, Pictures, Phases, BlockStates
<1>8. /\ Good(sw, s) /\ ~sw.started /\ sw.out = <<>> /\ ~sw.stopped
  <2>1. sw = newStreamWriter
    BY DEF StreamInit
  <2> QED BY <1>7, <2>1, NewWriterGood
<1>9. /\ req \in [stream : BOOLEAN, code : {200, 429}] /\ req.stream = FALSE
      /\ lines = <<>> /\ carry = NoLine /\ at = "start"
  BY DEF StreamInit
<1>10. StreamTypes
  BY <1>4, <1>5, <1>6, <1>7, <1>9 DEF StreamTypes
<1>11. StreamInv
  BY <1>4, <1>6, <1>8, <1>9, <1>10 DEF StreamInv
<1>12. Protocol!Init
  BY <1>1, <1>2, <1>4, Zenon DEF Protocol!Init
<1> QED BY <1>11, <1>12

ClientSees == <<client.phase, client.block, client.event, client.heard>>

LEMMA HandleMessagesKeeps ==
  ASSUME StreamInv, NEW stream \in BOOLEAN, NEW code \in {200, 429}, HandleMessages(stream, code)
  PROVE  StreamInv' /\ UNCHANGED ClientSees
<1>1. /\ at = "start" /\ at' = "inner" /\ lines' = lines /\ carry' = carry /\ sw' = sw
      /\ client' = client /\ req' \in [stream : BOOLEAN, code : {200, 429}]
  BY DEF HandleMessages
<1>2. StreamTypes'
  BY <1>1 DEF StreamInv, StreamTypes
<1>3. ~sw.started /\ sw.out = <<>>
  BY <1>1 DEF StreamInv
<1>4. ~sw.stopped
  BY <1>3 DEF StreamInv, Good, Unended
<1> QED BY <1>1, <1>2, <1>3, <1>4 DEF StreamInv, ClientSees

LEMMA ErrBufGood ==
  ASSUME NEW w, NEW s, Good(w, s), NEW x, x = [w EXCEPT !.errBuf = TRUE]
  PROVE  Good(x, s) /\ x.started = w.started /\ x.stopped = w.stopped /\ x.out = w.out
<1>1. w \in Writers
  BY DEF Good, Unended, Fits
<1>2. x \in Writers
  BY <1>1 DEF Writers
<1>3. /\ x.started = w.started /\ x.textOpen = w.textOpen /\ x.textClosed = w.textClosed
      /\ x.stopped = w.stopped /\ x.tools = w.tools /\ x.nextBlockIdx = w.nextBlockIdx
      /\ x.out = w.out
  BY <1>1 DEF Writers
<1> QED BY <1>2, <1>3, SameGood

LEMMA WriteKeeps ==
  ASSUME StreamInv, NEW line \in LineTypes, Write(line)
  PROVE  StreamInv' /\ UNCHANGED ClientSees
<1>1. /\ at = "inner" /\ at' = at /\ lines' = lines /\ req' = req /\ client' = client
      /\ Done \notin ToSet(lines)
      /\ \/ sw' = [sw EXCEPT !.errBuf = TRUE] /\ carry' = carry
         \/ carry' = line /\ sw' = sw
  BY DEF Write
<1>2. ~sw.stopped
  BY <1>1 DEF StreamInv
<1>3. PICK s : s = PicOf(client)
  OBVIOUS
<1>4. Good(sw, s)
  BY <1>3 DEF StreamInv
<1>5. PICK x : x = sw'
  OBVIOUS
<1>6. Good(x, s) /\ x.started = sw.started /\ x.stopped = sw.stopped /\ x.out = sw.out
  BY <1>1, <1>4, <1>5, ErrBufGood
<1>7. carry' \in LineTypes \cup {NoLine}
  BY <1>1 DEF StreamInv, StreamTypes
<1>8. StreamTypes'
  BY <1>1, <1>7 DEF StreamInv, StreamTypes
<1>9. Good(sw', PicOf(client)')
  BY <1>1, <1>3, <1>5, <1>6
<1> QED BY <1>1, <1>2, <1>5, <1>6, <1>8, <1>9 DEF StreamInv, ClientSees

LEMMA LineAdded ==
  ASSUME NEW ls \in Seq(LineTypes), NEW line \in LineTypes, NEW x, x = Append(ls, line)
  PROVE  x \in Seq(LineTypes) /\ line \in ToSet(x) /\ Len(ls) + 1 \in Nat
<1>1. x \in Seq(LineTypes) /\ Len(x) = Len(ls) + 1 /\ x[Len(x)] = line /\ Len(ls) \in Nat
  BY AppendProperties
<1>2. Len(x) \in DOMAIN x
  BY <1>1
<1> QED BY <1>1, <1>2 DEF ToSet

LEMMA EndLineKeeps ==
  ASSUME StreamInv, EndLine
  PROVE  StreamInv' /\ UNCHANGED ClientSees
<1>1. /\ at = "inner" /\ at' = at /\ carry # NoLine /\ carry' = NoLine
      /\ lines' = Append(lines, carry) /\ req' = req /\ client' = client
      /\ sw' = IF req.stream THEN processLine(sw, carry, Len(lines) + 1) ELSE sw
  BY DEF EndLine
<1>2. PICK line \in LineTypes : line = carry
  BY <1>1 DEF StreamInv, StreamTypes
<1>3. ~sw.stopped
  BY <1>1 DEF StreamInv
<1>4. PICK s : s = PicOf(client)
  OBVIOUS
<1>5. Unended(sw, s)
  BY <1>3, <1>4 DEF StreamInv, Good
<1>6. PICK more : more = lines'
  OBVIOUS
<1>7. more \in Seq(LineTypes) /\ line \in ToSet(more) /\ Len(lines) + 1 \in Nat
  <2>1. PICK ls \in Seq(LineTypes) : ls = lines
    BY DEF StreamInv, StreamTypes
  <2> QED BY <1>1, <1>2, <1>6, <2>1, LineAdded
<1>8. PICK x : x = sw'
  OBVIOUS
<1>9. /\ Good(x, s) /\ (x.stopped => line = Done)
      /\ ~req.stream => x = sw
  <2>1. CASE req.stream
    <3>1. PICK n \in Nat : n = Len(lines) + 1
      BY <1>7
    <3>2. x = processLine(sw, line, n)
      BY <1>1, <1>2, <1>8, <2>1, <3>1
    <3>3. line \in Chunks \cup {Noise, Done}
      BY DEF LineTypes
    <3> QED BY <1>5, <2>1, <3>2, <3>3, processLineGood
  <2>2. CASE ~req.stream
    BY <1>1, <1>3, <1>5, <1>8, <2>2 DEF Good
  <2> QED BY <2>1, <2>2
<1>10. StreamTypes'
  BY <1>1, <1>6, <1>7 DEF StreamInv, StreamTypes
<1>11. sw'.stopped => Done \in ToSet(lines')
  BY <1>6, <1>7, <1>8, <1>9
<1>12. ~req.stream => (~sw'.started /\ sw'.out = <<>>)
  BY <1>8, <1>9 DEF StreamInv
<1>13. Good(sw', PicOf(client)')
  BY <1>1, <1>4, <1>8, <1>9
<1> QED BY <1>1, <1>10, <1>11, <1>12, <1>13 DEF StreamInv, ClientSees

LEMMA FlushKeeps ==
  ASSUME StreamInv, Flush
  PROVE  StreamInv' /\ Protocol!Next
<1>1. /\ sw.out # <<>> /\ client' = Receive(client, Head(sw.out))
      /\ sw' = [sw EXCEPT !.out = Tail(@)]
      /\ req' = req /\ lines' = lines /\ carry' = carry /\ at' = at
  BY DEF Flush
<1>2. PICK s : s = PicOf(client)
  OBVIOUS
<1>3. Good(sw, s) /\ s \in Pictures /\ s.phase = client.phase /\ s.block = client.block
  BY <1>2 DEF StreamInv, StreamTypes, PicOf
<1>4. PICK e : e = Head(sw.out)
  OBVIOUS
<1>5. PICK x : x = sw'
  OBVIOUS
<1>6. /\ e \in Events /\ Accepts(s, e) /\ Good(x, After(s, e))
      /\ x.started = sw.started /\ x.stopped = sw.stopped
  BY <1>1, <1>3, <1>4, <1>5, FlushGood
<1>7. PICK d : d = client'
  OBVIOUS
<1>8. /\ IsClient(d) /\ d.phase = NextPhase(s.phase, e) /\ d.block = NextBlocks(s.block, e)
      /\ d.event = <<e.event, e.index>> /\ d.heard = client.heard + 1 /\ d.status = client.status
  <2>1. IsClient(client)
    BY DEF StreamInv, StreamTypes
  <2> QED BY <1>1, <1>3, <1>4, <1>6, <1>7, <2>1, ReceiveFields
<1>9. After(s, e) = PicOf(d) /\ PicOf(d) \in Pictures
  BY <1>3, <1>6, <1>8, AfterType DEF After, PicOf
<1>10. client.heard \in Nat
  BY DEF StreamInv, StreamTypes
<1>11. StreamTypes'
  BY <1>1, <1>7, <1>8, <1>9, <1>10 DEF StreamInv, StreamTypes
<1>12. d.phase # "idle" /\ d.heard > 0
  <2>1. d.phase # "idle"
    BY <1>6, <1>8 DEF Accepts, NextPhase
  <2> QED BY <1>8, <1>10, <2>1
<1>13. at # "start" /\ req.stream /\ at # "done"
  BY <1>1 DEF StreamInv
<1>14. Good(sw', PicOf(client'))
  BY <1>5, <1>6, <1>7, <1>9
<1>15. StreamInv'
  BY <1>1, <1>5, <1>6, <1>7, <1>8, <1>11, <1>12, <1>13, <1>14 DEF StreamInv
<1>16. Protocol!Next
  <2>1. /\ client'.heard = client.heard + 1 /\ client'.event = <<e.event, e.index>>
        /\ client'.phase = NextPhase(client.phase, e)
        /\ client'.block = NextBlocks(client.block, e)
    BY <1>3, <1>7, <1>8
  <2>2. e.index \in Indexes
    BY <1>6 DEF Events
  <2>3. CASE e.event = "message_start"
    <3>1. e.index = 0 /\ client.phase = "idle"
      BY <1>3, <1>6, <2>3 DEF Accepts
    <3>2. client'.phase = "message" /\ client'.block = client.block /\ client'.event = <<"message_start", 0>>
      BY <2>1, <2>3, <3>1 DEF NextPhase, NextBlocks
    <3> QED BY <2>1, <3>1, <3>2 DEF Protocol!Next, Protocol!MessageStart
  <2>4. CASE e.event = "content_block_start"
    <3>1. client.phase = "message" /\ client.block[e.index] = "absent"
      BY <1>3, <1>6, <2>4 DEF Accepts
    <3>2. /\ client'.phase = client.phase /\ client'.block = [client.block EXCEPT ![e.index] = "open"]
          /\ client'.event = <<"content_block_start", e.index>>
      BY <2>1, <2>4 DEF NextPhase, NextBlocks
    <3> QED BY <2>1, <2>2, <3>1, <3>2 DEF Protocol!Next, Protocol!BlockStart
  <2>5. CASE e.event = "content_block_delta"
    <3>1. /\ client.phase = "message"
          /\ client.block[e.index] = "open" \/ (e.index = 0 /\ IsLate(client.block))
      BY <1>3, <1>6, <2>5 DEF Accepts
    <3>2. /\ client'.phase = client.phase /\ client'.block = client.block
          /\ client'.event = <<"content_block_delta", e.index>>
      BY <2>1, <2>5 DEF NextPhase, NextBlocks
    <3>3. client.block[e.index] = "open" \/ Protocol!LateText(e.index)
      BY <3>1 DEF IsLate, Protocol!LateText
    <3> QED BY <2>1, <2>2, <3>1, <3>2, <3>3 DEF Protocol!Next, Protocol!BlockDelta
  <2>6. CASE e.event = "content_block_stop"
    <3>1. client.phase = "message" /\ client.block[e.index] = "open"
      BY <1>3, <1>6, <2>6 DEF Accepts
    <3>2. /\ client'.phase = client.phase /\ client'.block = [client.block EXCEPT ![e.index] = "closed"]
          /\ client'.event = <<"content_block_stop", e.index>>
      BY <2>1, <2>6 DEF NextPhase, NextBlocks
    <3> QED BY <2>1, <2>2, <3>1, <3>2 DEF Protocol!Next, Protocol!BlockStop
  <2>7. CASE e.event = "message_delta"
    <3>1. e.index = 0 /\ client.phase = "message" /\ \A i \in Indexes : client.block[i] # "open"
      BY <1>3, <1>6, <2>7 DEF Accepts
    <3>2. client'.phase = "summed" /\ client'.block = client.block /\ client'.event = <<"message_delta", 0>>
      BY <2>1, <2>7, <3>1 DEF NextPhase, NextBlocks
    <3> QED BY <2>1, <3>1, <3>2 DEF Protocol!Next, Protocol!MessageDelta
  <2>8. CASE e.event = "message_stop"
    <3>1. e.index = 0 /\ client.phase = "summed"
      BY <1>3, <1>6, <2>8 DEF Accepts
    <3>2. client'.phase = "ended" /\ client'.block = client.block /\ client'.event = <<"message_stop", 0>>
      BY <2>1, <2>8, <3>1 DEF NextPhase, NextBlocks
    <3> QED BY <2>1, <3>1, <3>2 DEF Protocol!Next, Protocol!MessageStop
  <2>9. e.event \in EventNames
    BY <1>6 DEF Events
  <2> QED BY <2>3, <2>4, <2>5, <2>6, <2>7, <2>8, <2>9 DEF EventNames
<1> QED BY <1>15, <1>16

LEMMA StreamReturnsKeeps ==
  ASSUME StreamInv, StreamReturns
  PROVE  StreamInv' /\ UNCHANGED ClientSees
<1>1. /\ at = "inner" /\ at' = "ending" /\ req.stream /\ carry' = NoLine
      /\ lines' = IF carry = NoLine THEN lines ELSE Append(lines, carry)
      /\ req' = req /\ client' = client
      /\ sw' = EndOfStream(IF carry = NoLine THEN sw ELSE processLine(sw, carry, Len(lines) + 1))
  BY DEF StreamReturns
<1>2. PICK s : s = PicOf(client)
  OBVIOUS
<1>3. Good(sw, s) /\ (sw.stopped => carry = NoLine)
  BY <1>2 DEF StreamInv
<1>4. PICK tail : tail = IF carry = NoLine THEN sw ELSE processLine(sw, carry, Len(lines) + 1)
  OBVIOUS
<1>5. PICK more : more = lines'
  OBVIOUS
<1>6. Good(tail, s) /\ more \in Seq(LineTypes)
  <2>1. CASE carry = NoLine
    BY <1>1, <1>3, <1>4, <1>5, <2>1 DEF StreamInv, StreamTypes
  <2>2. CASE carry # NoLine
    <3>1. PICK line \in LineTypes : line = carry
      BY <2>2 DEF StreamInv, StreamTypes
    <3>2. PICK ls \in Seq(LineTypes) : ls = lines
      BY DEF StreamInv, StreamTypes
    <3>3. PICK n \in Nat : n = Len(lines) + 1
      BY <3>2, LineAdded
    <3>4. tail = processLine(sw, line, n) /\ more = Append(ls, line)
      BY <1>1, <1>4, <1>5, <2>2, <3>1, <3>2, <3>3
    <3>5. Unended(sw, s) /\ line \in Chunks \cup {Noise, Done}
      BY <1>3, <2>2 DEF Good, LineTypes
    <3>6. Good(tail, s)
      BY <3>4, <3>5, processLineGood
    <3>7. more \in Seq(LineTypes)
      BY <3>4, LineAdded
    <3> QED BY <3>6, <3>7
  <2> QED BY <2>1, <2>2
<1>7. PICK x : x = sw'
  OBVIOUS
<1>8. Good(x, s) /\ (x.started => x.stopped)
  <2>1. x = EndOfStream(tail)
    BY <1>1, <1>4, <1>7
  <2> QED BY <1>6, <2>1, EndOfStreamGood
<1>9. StreamTypes'
  BY <1>1, <1>5, <1>6 DEF StreamInv, StreamTypes
<1>10. Good(sw', PicOf(client)')
  BY <1>1, <1>2, <1>7, <1>8
<1> QED BY <1>1, <1>7, <1>8, <1>9, <1>10 DEF StreamInv, ClientSees

LEMMA ClientMade ==
  ASSUME NEW p, NEW b, NEW v, NEW h, NEW nm, NEW dt, NEW st, NEW su, NEW an,
         NEW c, c = ClientOf(p, b, v, h, nm, dt, st, su, an)
  PROVE  IsClient(c)
  BY Zenon DEF IsClient

WithStatus(c, v) == [c EXCEPT !.status = v]
Answering(c, v, a, z) == [c EXCEPT !.status = v, !.answer = a, !.stop = z]

LEMMA StatusSet ==
  ASSUME NEW c, IsClient(c), NEW v,
         NEW d, d = WithStatus(c, v)
  PROVE  /\ IsClient(d) /\ d.phase = c.phase /\ d.block = c.block /\ d.event = c.event
         /\ d.heard = c.heard /\ d.status = v
<1>1. PICK p, b, ev, h, nm, dt, st, su, an : c = ClientOf(p, b, ev, h, nm, dt, st, su, an)
  BY DEF IsClient
<1>2. d = ClientOf(p, b, ev, h, nm, dt, st, v, an)
  BY <1>1 DEF ClientOf, WithStatus, Answering
<1>3. IsClient(d)
  BY <1>2, ClientMade
<1> QED BY <1>1, <1>2, <1>3 DEF ClientOf

LEMMA AnswerSet ==
  ASSUME NEW c, IsClient(c), NEW v, NEW a, NEW z,
         NEW d, d = Answering(c, v, a, z)
  PROVE  /\ IsClient(d) /\ d.phase = c.phase /\ d.block = c.block /\ d.event = c.event
         /\ d.heard = c.heard /\ d.status = v
<1>1. PICK p, b, ev, h, nm, dt, st, su, an : c = ClientOf(p, b, ev, h, nm, dt, st, su, an)
  BY DEF IsClient
<1>2. d = ClientOf(p, b, ev, h, nm, dt, z, v, a)
  BY <1>1 DEF ClientOf, WithStatus, Answering
<1>3. IsClient(d)
  BY <1>2, ClientMade
<1> QED BY <1>1, <1>2, <1>3 DEF ClientOf

LEMMA StreamAnsweredKeeps ==
  ASSUME StreamInv, StreamAnswered
  PROVE  StreamInv' /\ UNCHANGED ClientSees
<1>1. /\ at = "ending" /\ at' = "done" /\ sw.out = <<>>
      /\ req' = req /\ lines' = lines /\ carry' = carry /\ sw' = sw
  BY DEF StreamAnswered
<1>2. req.stream /\ req.code \in {200, 429} /\ client.status = 0 /\ IsClient(client)
  BY <1>1 DEF StreamInv, StreamTypes
<1>3. PICK d : d = client'
  OBVIOUS
<1>4. PICK v : v = IF req.code < 400 THEN 502 ELSE req.code
  OBVIOUS
<1>5. d = IF sw.started THEN client ELSE WithStatus(client, v)
  BY <1>3, <1>4, Zenon DEF StreamAnswered, WithStatus
<1>6. /\ IsClient(d) /\ d.phase = client.phase /\ d.block = client.block /\ d.event = client.event
      /\ d.heard = client.heard /\ d.status = IF sw.started THEN 0 ELSE v
  BY <1>2, <1>5, StatusSet
<1>7. PicOf(d) = PicOf(client)
  BY <1>6 DEF PicOf
<1>8. StreamTypes'
  BY <1>1, <1>3, <1>6, <1>7 DEF StreamInv, StreamTypes
<1>9. Good(sw', PicOf(client'))
  BY <1>1, <1>3, <1>7 DEF StreamInv
<1>10. v = IF req.code >= 400 THEN req.code ELSE 502
  BY <1>2, <1>4
<1>11. client'.status = IF sw'.started THEN 0
                        ELSE IF req'.code >= 400 THEN req'.code
                        ELSE IF req'.stream THEN 502 ELSE 200
  BY <1>1, <1>2, <1>3, <1>6, <1>10
<1> QED BY <1>1, <1>2, <1>3, <1>6, <1>8, <1>9, <1>11 DEF StreamInv, ClientSees

LEMMA CaptureAnsweredKeeps ==
  ASSUME StreamInv, CaptureAnswered
  PROVE  StreamInv' /\ UNCHANGED ClientSees
<1>1. /\ at = "inner" /\ at' = "done" /\ ~req.stream /\ carry' = NoLine
      /\ lines' = IF carry = NoLine THEN lines ELSE Append(lines, carry)
      /\ req' = req /\ sw' = sw
  BY DEF CaptureAnswered
<1>2. req.code \in {200, 429} /\ client.status = 0 /\ IsClient(client) /\ ~sw.started /\ sw.out = <<>>
  BY <1>1 DEF StreamInv, StreamTypes
<1>3. ~sw.stopped
  BY <1>2 DEF StreamInv, Good, Unended
<1>4. PICK d : d = client'
  OBVIOUS
<1>5. /\ IsClient(d) /\ d.phase = client.phase /\ d.block = client.block /\ d.event = client.event
      /\ d.heard = client.heard /\ d.status = IF req.code >= 400 THEN req.code ELSE 200
  <2>1. PICK captured :
          LET t == Translation(captured)
          IN  client' = IF req.code >= 400 THEN [client EXCEPT !.status = req.code]
                        ELSE [client EXCEPT !.status = 200, !.answer = t.blocks, !.stop = t.stop]
    BY ZenonT(40) DEF CaptureAnswered
  <2>2. PICK a, z : a = Translation(captured).blocks /\ z = Translation(captured).stop
    BY Zenon
  <2>3. d = IF req.code >= 400 THEN WithStatus(client, req.code) ELSE Answering(client, 200, a, z)
    BY <1>4, <2>1, <2>2, Zenon DEF WithStatus, Answering
  <2>4. CASE req.code >= 400
    BY <1>2, <2>3, <2>4, StatusSet
  <2>5. CASE ~(req.code >= 400)
    BY <1>2, <2>3, <2>5, AnswerSet
  <2> QED BY <2>4, <2>5
<1>6. PicOf(d) = PicOf(client)
  BY <1>5 DEF PicOf
<1>7. PICK more : more = lines'
  OBVIOUS
<1>8. more \in Seq(LineTypes)
  <2>1. PICK ls \in Seq(LineTypes) : ls = lines
    BY DEF StreamInv, StreamTypes
  <2>2. CASE carry = NoLine
    BY <1>1, <1>7, <2>1, <2>2
  <2>3. CASE carry # NoLine
    <3>1. PICK line \in LineTypes : line = carry
      BY <2>3 DEF StreamInv, StreamTypes
    <3>2. more = Append(ls, line)
      BY <1>1, <1>7, <2>1, <2>3, <3>1
    <3> QED BY <3>2, LineAdded
  <2> QED BY <2>2, <2>3
<1>9. StreamTypes'
  BY <1>1, <1>4, <1>5, <1>6, <1>7, <1>8 DEF StreamInv, StreamTypes
<1>10. Good(sw', PicOf(client'))
  BY <1>1, <1>4, <1>6 DEF StreamInv
<1>11. client'.status = IF req'.code >= 400 THEN req'.code ELSE IF req'.stream THEN 502 ELSE 200
  BY <1>1, <1>4, <1>5
<1> QED BY <1>1, <1>2, <1>3, <1>4, <1>5, <1>9, <1>10, <1>11 DEF StreamInv, ClientSees

LEMMA StreamStep ==
  ASSUME StreamInv, [StreamNext]_streamVars
  PROVE  StreamInv' /\ [Protocol!Next]_ClientSees
<1>1. ASSUME NEW stream \in BOOLEAN, NEW code \in {200, 429}, HandleMessages(stream, code)
      PROVE  StreamInv' /\ UNCHANGED ClientSees
  BY <1>1, HandleMessagesKeeps
<1>2. ASSUME NEW line \in Chunks \cup {Noise, Done}, Write(line)
      PROVE  StreamInv' /\ UNCHANGED ClientSees
  BY <1>2, WriteKeeps DEF LineTypes
<1>3. CASE EndLine
  BY <1>3, EndLineKeeps
<1>4. CASE Flush
  BY <1>4, FlushKeeps
<1>5. CASE StreamReturns
  BY <1>5, StreamReturnsKeeps
<1>6. CASE StreamAnswered
  BY <1>6, StreamAnsweredKeeps
<1>7. CASE CaptureAnswered
  BY <1>7, CaptureAnsweredKeeps
<1>8. CASE UNCHANGED streamVars
  BY <1>8 DEF streamVars, StreamInv, StreamTypes, ClientSees, PicOf
<1> QED BY <1>1, <1>2, <1>3, <1>4, <1>5, <1>6, <1>7, <1>8 DEF StreamNext

(* Whatever lines the upstream sends and wherever it stops, the answer     *)
(* HandleMessages leaves is one JSON answer with the status it should have *)
(* or a stream that reached message_stop, never both (EndOfStream,         *)
(* finalize, the JSON error of a stream that never began).                 *)
THEOREM AnsweredOnceHolds == StreamSpec => []AnsweredOnce
<1>1. StreamInit => StreamInv
  BY StreamInitInv
<1>2. StreamInv /\ [StreamNext]_streamVars => StreamInv'
  BY StreamStep
<1>3. StreamInv => AnsweredOnce
  BY StreamInvAnswers
<1> QED BY <1>1, <1>2, <1>3, PTL DEF StreamSpec

(* streamWriter implements the protocol of MessageStream: for every set of *)
(* tool indexes and every sequence of chunks, each event the client gets   *)
(* is a step the protocol allows.                                          *)
THEOREM FollowsProtocolHolds == StreamSpec => FollowsProtocol
<1>1. StreamInit => StreamInv /\ Protocol!Init
  BY StreamInitInv
<1>2. StreamInv /\ [StreamNext]_streamVars => StreamInv' /\ [Protocol!Next]_ClientSees
  BY StreamStep
<1>3. [Protocol!Next]_ClientSees <=> [Protocol!Next]_<<client.phase, client.block, client.event, client.heard>>
  BY DEF ClientSees
<1> QED BY <1>1, <1>2, <1>3, PTL DEF StreamSpec, FollowsProtocol, Protocol!Spec
=============================================================================
