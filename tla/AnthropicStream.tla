-------------------------- MODULE AnthropicStream --------------------------
(***************************************************************************)
(* The answer side of POST /v1/messages: internal/handlers/anthropic.go,   *)
(* HandleMessages from the call of ProxyRequest on, with the two writers   *)
(* it puts in place of gin's.  streamWriter turns the lines of an OpenAI   *)
(* stream into Anthropic events as they come; captureWriter keeps the      *)
(* whole answer, which is translated at the end.                           *)
(*                                                                         *)
(* The upstream (external) writes lines: chunks, lines that carry nothing, *)
(* and at last [DONE], or it stops anywhere.  A line arrives without its   *)
(* newline first (carry); the newline comes with the next bytes or never.  *)
(* A text piece, a tool name and a piece of arguments are each named by    *)
(* the number of the line that brought them.  emitEvent flushes, so every  *)
(* event reaches the client in a step of its own.                          *)
(***************************************************************************)
EXTENDS Integers, Sequences, SequencesExt

CONSTANTS
  ToolIndexes,   \* the indexes of tool_calls the upstream uses
  Chunks,        \* the chunks it may send
  TextLimit,     \* length at which truncateLog cuts output_text
  MaxLines       \* bound: lines of an answer

NoTool == -1
NoLine == [kind |-> "none"]
Done == [kind |-> "done"]
Noise == [kind |-> "noise"]
Indexes == 0 .. Cardinality(ToolIndexes)

ASSUME ChunkAssumption ==
  /\ IsFiniteSet(ToolIndexes) /\ ToolIndexes \subseteq Nat
  /\ Chunks \subseteq [kind : {"chunk"}, text : BOOLEAN, tool : ToolIndexes \cup {NoTool},
                       name : BOOLEAN, args : BOOLEAN, finish : {"", "stop", "tool_calls"}]
  /\ TextLimit \in Nat /\ MaxLines \in Nat

VARIABLES
  req,      \* the request: streamed or not, and the status of the upstream's answer
  lines,    \* the lines the upstream has completed
  carry,    \* streamWriter.carry: the line that has not ended
  sw,       \* the streamWriter; out are the events it has yet to flush
  client,   \* what the client has received
  at        \* where HandleMessages is

streamVars == <<req, lines, carry, sw, client, at>>

NoBlock == [idx |-> 0, name |-> 0, started |-> FALSE, closed |-> FALSE]
newStreamWriter ==
  [started |-> FALSE, textOpen |-> FALSE, textClosed |-> FALSE, stopped |-> FALSE,
   finish |-> "", tools |-> [t \in ToolIndexes |-> NoBlock], nextBlockIdx |-> 1,
   errBuf |-> FALSE, out |-> <<>>]
NewClient ==
  [phase |-> "idle", block |-> [i \in Indexes |-> "absent"], event |-> <<"", 0>>, heard |-> 0,
   name |-> [i \in Indexes |-> 0], data |-> [i \in Indexes |-> <<>>], stop |-> "",
   status |-> 0, answer |-> <<>>]

StreamInit ==
  /\ req = [stream |-> FALSE, code |-> 200]
  /\ lines = <<>>
  /\ carry = NoLine
  /\ sw = newStreamWriter
  /\ client = NewClient
  /\ at = "start"

-----------------------------------------------------------------------------
(* streamWriter: each method is a function from the writer to the writer   *)

Event(name, i, x) == [event |-> name, index |-> i, data |-> x]
emitEvent(w, e) == [w EXCEPT !.out = Append(@, e)]

ensureStart(w) ==
  IF w.started THEN w
  ELSE emitEvent([w EXCEPT !.started = TRUE], Event("message_start", 0, 0))

ensureTextBlock(w) ==
  IF w.textOpen THEN w
  ELSE emitEvent([w EXCEPT !.textOpen = TRUE], Event("content_block_start", 0, 0))

\* Mutant of closeTextBlock: closed again.
closeTextBlock_Again(w) ==
  IF ~w.textOpen THEN w ELSE emitEvent(w, Event("content_block_stop", 0, 0))

closeTextBlock(w) ==
  IF ~w.textOpen \/ w.textClosed THEN w
  ELSE emitEvent([w EXCEPT !.textClosed = TRUE], Event("content_block_stop", 0, 0))

\* The block of tool call t; n is the name the delta brings, 0 if none.
ensureToolBlock(w, t, n) ==
  LET known == IF w.tools[t].idx # 0 THEN w
               ELSE [w EXCEPT !.tools[t].idx = w.nextBlockIdx, !.nextBlockIdx = @ + 1]
      named == IF n # 0 /\ known.tools[t].name = 0
               THEN [known EXCEPT !.tools[t].name = n] ELSE known
      tb == named.tools[t]
  IN  IF tb.started \/ tb.name = 0 THEN named
      ELSE emitEvent([closeTextBlock(named) EXCEPT !.tools[t].started = TRUE],
                     Event("content_block_start", tb.idx, tb.name))

closeToolBlock(w, t) ==
  IF ~w.tools[t].started \/ w.tools[t].closed THEN w
  ELSE emitEvent([w EXCEPT !.tools[t].closed = TRUE],
                 Event("content_block_stop", w.tools[t].idx, 0))

\* finish_reason of OpenAI to stop_reason of Anthropic.
mapStopReason(finish) == IF finish = "tool_calls" THEN "tool_use" ELSE "end_turn"

ToolsInOrder(w) ==
  [k \in 1 .. w.nextBlockIdx - 1 |-> CHOOSE t \in ToolIndexes : w.tools[t].idx = k]

\* The loop over the tool blocks, in the order of their indexes.
closeToolBlocks(w) ==
  LET loop[k \in 0 .. w.nextBlockIdx - 1] ==
        IF k = 0 THEN w ELSE closeToolBlock(loop[k - 1], ToolsInOrder(w)[k])
  IN  loop[w.nextBlockIdx - 1]

finalize(w) ==
  IF w.stopped THEN w
  ELSE LET begun == ensureStart(w)
           shell == IF ~begun.textOpen /\ begun.nextBlockIdx = 1
                    THEN ensureTextBlock(begun) ELSE begun
           text == closeTextBlock([shell EXCEPT !.stopped = TRUE])
           tools == closeToolBlocks(text)
       IN  emitEvent(emitEvent(tools, Event("message_delta", 0, mapStopReason(w.finish))),
                     Event("message_stop", 0, 0))

\* Line number n of the answer.
processLine(w, line, n) ==
  IF line.kind = "done" THEN finalize(w)
  ELSE IF line.kind # "chunk" THEN w
  ELSE LET text == IF ~line.text THEN w
                   ELSE emitEvent(ensureTextBlock(ensureStart(w)),
                                  Event("content_block_delta", 0, n))
           tool == IF line.tool = NoTool THEN text
                   ELSE LET b == ensureToolBlock(ensureStart(text), line.tool,
                                                 IF line.name THEN n ELSE 0)
                        IN  IF line.args /\ b.tools[line.tool].started
                            THEN emitEvent(b, Event("content_block_delta",
                                                    b.tools[line.tool].idx, n))
                            ELSE b
       IN  IF line.finish = "" THEN tool ELSE [tool EXCEPT !.finish = line.finish]

-----------------------------------------------------------------------------
(* The captured answer, translated at the end                              *)

\* What the scan keeps of one tool call of the lines read so far.
NoCall == [seen |-> 0, name |-> 0, args |-> <<>>]
Collect(acc, line) ==
  LET n == acc.n + 1
      call == acc.calls[line.tool]
  IN  IF line.kind # "chunk" THEN [acc EXCEPT !.n = n]
      ELSE [n |-> n,
            text |-> IF line.text THEN Append(acc.text, n) ELSE acc.text,
            calls |-> IF line.tool = NoTool THEN acc.calls
                      ELSE [acc.calls EXCEPT ![line.tool] =
                             [seen |-> IF call.seen = 0 THEN n ELSE call.seen,
                              name |-> IF line.name THEN n ELSE call.name,
                              args |-> IF line.args THEN Append(call.args, n) ELSE call.args]],
            finish |-> IF line.finish = "" THEN acc.finish ELSE line.finish]

Scan(ls) ==
  FoldLeft(Collect, [n |-> 0, text |-> <<>>, calls |-> [t \in ToolIndexes |-> NoCall],
                     finish |-> ""], ls)

\* Mutant of CallsInOrder: by OpenAI's index.
CallsInOrder_ByIndex(calls) == SetToSortSeq({t \in ToolIndexes : calls[t].seen # 0}, <)

\* The tool calls in the order in which they were first seen.
CallsInOrder(calls) ==
  SetToSortSeq({t \in ToolIndexes : calls[t].seen # 0},
               LAMBDA a, b : calls[a].seen < calls[b].seen)

ToolCalls(calls, order) ==
  [k \in 1 .. Len(order) |-> [name |-> calls[order[k]].name, data |-> calls[order[k]].args]]

\* The message of a body: a JSON answer has its parts, lines are put together.
JSONBody(text, calls, finish) ==
  [kind |-> "json", text |-> text, calls |-> calls, finish |-> finish]
LinesBody(ls) == [kind |-> "lines", lines |-> ls]
extractFromCapturedBody(body) ==
  IF body.kind = "json" THEN [text |-> body.text, calls |-> body.calls, finish |-> body.finish]
  ELSE LET r == Scan(body.lines)
       IN  [text |-> r.text, calls |-> ToolCalls(r.calls, CallsInOrder(r.calls)),
            finish |-> r.finish]

\* The marks at the end of a cut text: truncateLog writes three dots.
Dots == -2
Ellipsis == -3
truncateLog(text) ==
  IF Len(text) <= TextLimit THEN text ELSE Append(SubSeq(text, 1, TextLimit), Dots)

\* What the handler of the upstream leaves to HandleMessages: the body it wrote,
\* and output_text.  The upstream's answer is the lines ls.
\* Grok that sends an event stream all the same: the bytes pass through, while
\* output_text has the text of the lines that ended.
GrokStream(ended, ls) ==
  [body |-> LinesBody(ls), output |-> truncateLog(Scan(ended).text)]

\* Grok's own JSON answer, which Grok (external) puts together.
GrokAnswer(ls) ==
  LET r == Scan(ls)
      byIndex == SetToSortSeq({t \in ToolIndexes : r.calls[t].seen # 0}, <)
  IN  [body |-> JSONBody(r.text, ToolCalls(r.calls, byIndex), r.finish),
       output |-> truncateLog(r.text)]

\* CodeBuddy streams always; its lines become a JSON answer without tool calls.
cbCollectStream(ls) ==
  LET r == Scan(ls)
  IN  [body |-> JSONBody(r.text, <<>>, IF r.finish = "" THEN "stop" ELSE r.finish),
       output |-> truncateLog(r.text)]

\* So do Cloudflare's, and the finish reason is lost too.
cfCollectStream(ls) ==
  LET r == Scan(ls)
  IN  [body |-> JSONBody(r.text, <<>>, "stop"), output |-> truncateLog(r.text)]

Captures(ended, ls) ==
  {GrokStream(ended, ls), GrokAnswer(ls), cbCollectStream(ls), cfCollectStream(ls)}

\* The content blocks and the stop reason of what was captured.
NoText == [name |-> 0, data |-> <<>>]
Translation(captured) ==
  LET r == extractFromCapturedBody(captured.body)
      again == captured.output = <<>> \/ Last(captured.output) = Ellipsis
      text == IF again /\ r.text # <<>> THEN r.text ELSE captured.output
      blocks == (IF text = <<>> THEN <<>> ELSE <<[name |-> 0, data |-> text]>>) \o r.calls
  IN  [blocks |-> IF blocks = <<>> THEN <<NoText>> ELSE blocks,
       stop |-> mapStopReason(IF r.calls # <<>> /\ r.finish = "" THEN "tool_calls" ELSE r.finish)]

-----------------------------------------------------------------------------
(* The handler, the upstream and the client                                *)

\* The request goes to ProxyRequest through one of the two writers.
HandleMessages(stream, code) ==
  /\ at = "start"
  /\ req' = [stream |-> stream, code |-> code]
  /\ at' = "inner"
  /\ UNCHANGED <<lines, carry, sw, client>>

\* Bytes up to the end of a line; an error body before the stream has begun is kept.
Write(line) ==
  /\ at = "inner" /\ sw.out = <<>>
  /\ Len(lines) < MaxLines /\ carry = NoLine
  /\ Done \notin ToSet(lines)
  /\ IF req.stream /\ ~sw.started /\ req.code >= 400
     THEN sw' = [sw EXCEPT !.errBuf = TRUE] /\ UNCHANGED carry
     ELSE carry' = line /\ UNCHANGED sw
  /\ UNCHANGED <<req, lines, client, at>>

\* The newline of the line in carry.
EndLine ==
  /\ at = "inner" /\ sw.out = <<>>
  /\ carry # NoLine
  /\ carry' = NoLine
  /\ lines' = Append(lines, carry)
  /\ sw' = IF req.stream THEN processLine(sw, carry, Len(lines) + 1) ELSE sw
  /\ UNCHANGED <<req, client, at>>

\* What one event does to the client's picture of the message.
Receive(c, e) ==
  LET d == [c EXCEPT !.heard = @ + 1, !.event = <<e.event, e.index>>]
  IN  CASE e.event = "message_start" -> [d EXCEPT !.phase = "message"]
        [] e.event = "content_block_start" ->
             [d EXCEPT !.block[e.index] = "open", !.name[e.index] = e.data]
        [] e.event = "content_block_delta" -> [d EXCEPT !.data[e.index] = Append(@, e.data)]
        [] e.event = "content_block_stop" -> [d EXCEPT !.block[e.index] = "closed"]
        [] e.event = "message_delta" -> [d EXCEPT !.phase = "summed", !.stop = e.data]
        [] e.event = "message_stop" -> [d EXCEPT !.phase = "ended"]

Flush ==
  /\ sw.out # <<>>
  /\ client' = Receive(client, Head(sw.out))
  /\ sw' = [sw EXCEPT !.out = Tail(@)]
  /\ UNCHANGED <<req, lines, carry, at>>

\* Mutant of EndOfStream: the stream is ended only by [DONE].
EndOfStream_Open(w) == w

\* HandleMessages ends a stream that has begun.
EndOfStream(w) == IF w.started THEN finalize(w) ELSE w

\* ProxyRequest returned: the line in carry is processed, the stream ended.
StreamReturns ==
  /\ at = "inner" /\ req.stream /\ sw.out = <<>>
  /\ lines' = IF carry = NoLine THEN lines ELSE Append(lines, carry)
  /\ LET tail == IF carry = NoLine THEN sw ELSE processLine(sw, carry, Len(lines) + 1)
     IN  sw' = EndOfStream(tail)
  /\ carry' = NoLine
  /\ at' = "ending"
  /\ UNCHANGED <<req, client>>

\* A stream that never began becomes a JSON error.
StreamAnswered ==
  /\ at = "ending" /\ sw.out = <<>>
  /\ client' = IF sw.started THEN client
               ELSE [client EXCEPT !.status = IF req.code < 400 THEN 502 ELSE req.code]
  /\ at' = "done"
  /\ UNCHANGED <<req, lines, carry, sw>>

\* ProxyRequest returned: what it wrote is translated.
CaptureAnswered ==
  /\ at = "inner" /\ ~req.stream
  /\ lines' = IF carry = NoLine THEN lines ELSE Append(lines, carry)
  /\ \E captured \in Captures(lines, lines') :
       LET t == Translation(captured)
       IN  client' = IF req.code >= 400 THEN [client EXCEPT !.status = req.code]
                     ELSE [client EXCEPT !.status = 200, !.answer = t.blocks, !.stop = t.stop]
  /\ carry' = NoLine
  /\ at' = "done"
  /\ UNCHANGED <<req, sw>>

StreamNext ==
  \/ \E stream \in BOOLEAN, code \in {200, 429} : HandleMessages(stream, code)
  \/ \E line \in Chunks \cup {Noise, Done} : Write(line)
  \/ EndLine
  \/ Flush
  \/ StreamReturns
  \/ StreamAnswered
  \/ CaptureAnswered

StreamSpec == StreamInit /\ [][StreamNext]_streamVars

-----------------------------------------------------------------------------
(* Properties                                                              *)

StreamTypeOK ==
  /\ req \in [stream : BOOLEAN, code : {200, 429}]
  /\ lines \in Seq(Chunks \cup {Noise, Done})
  /\ carry \in Chunks \cup {NoLine, Noise, Done}
  /\ sw.nextBlockIdx \in 1 .. Cardinality(ToolIndexes) + 1
  /\ client.block \in [Indexes -> {"absent", "open", "closed"}]
  /\ at \in {"start", "inner", "ending", "done"}

\* The events of streamWriter follow the protocol of MessageStream: started
\* once, blocks opened and closed once each, nothing after message_stop,
\* whatever order text and tool calls arrive in (ensureStart, ensureToolBlock,
\* closeTextBlock, finalize).
Protocol == INSTANCE MessageStream WITH
  phase <- client.phase, block <- client.block, event <- client.event, heard <- client.heard
FollowsProtocol == Protocol!Spec

\* Every answer is complete in form when HandleMessages returns: one JSON
\* answer with the upstream's status, or a stream that reached message_stop,
\* never both, also when the upstream stopped without [DONE].
AnsweredOnce ==
  at = "done" =>
    IF client.heard > 0 THEN client.phase = "ended" /\ client.status = 0
    ELSE client.status = IF req.code >= 400 THEN req.code ELSE IF req.stream THEN 502 ELSE 200

\* Each tool call is named in its first delta and only there, as the comment
\* on ensureToolBlock says of OpenAI.
NamedFirst(body) ==
  \A k \in 1 .. Len(body) :
    (body[k].kind = "chunk" /\ body[k].tool # NoTool) =>
      (body[k].name <=> \A j \in 1 .. k - 1 : body[j].kind = "chunk" => body[j].tool # body[k].tool)

Received ==
  LET order == SetToSortSeq({i \in Indexes : client.block[i] # "absent"}, <)
  IN  [k \in 1 .. Len(order) |-> [name |-> client.name[order[k]], data |-> client.data[order[k]]]]

\* The client's message with its text cut as output_text is.
Cut(blocks) ==
  [k \in 1 .. Len(blocks) |->
     IF blocks[k].name = 0 THEN [blocks[k] EXCEPT !.data = truncateLog(@)] ELSE blocks[k]]
TextOnly(blocks) ==
  LET text == SelectSeq(blocks, LAMBDA b : b.name = 0)
  IN  IF text = <<>> THEN <<NoText>> ELSE text

\* The streamed answer and the captured one are the same message.  For an
\* upstream answer that ended every line, the blocks the client collected from
\* the events are those extractFromCapturedBody and HandleMessages make of what
\* was captured, but for the cut of the text: in the order of the events from
\* lines, in Grok's own order from its JSON; so is the stop reason if the
\* upstream gave one.  cbCollectStream keeps the text and the stop reason of
\* the stream, and cfCollectStream the text: their tool calls are lost.
StreamAgreesWithCapture ==
  (client.phase = "ended" /\ NamedFirst(lines)) =>
    LET message == Cut(Received)
        scanned == Translation(GrokStream(lines, lines))
        parsed == Translation(GrokAnswer(lines))
        collected == Translation(cbCollectStream(lines))
        bare == Translation(cfCollectStream(lines))
    IN  /\ scanned.blocks = message
        /\ ToSet(parsed.blocks) = ToSet(message)
        /\ Scan(lines).finish # "" => {scanned.stop, parsed.stop} = {client.stop}
        /\ {collected.blocks, bare.blocks} = {TextOnly(message)}
        /\ collected.stop = client.stop

\* An answer that is not streamed has the text of the upstream, not the copy of
\* it that truncateLog cut for the log (HandleMessages).
AnswersComplete ==
  \A k \in 1 .. Len(client.answer) : Dots \notin ToSet(client.answer[k].data)
=============================================================================
