--------------------------- MODULE MessageStream ---------------------------
(***************************************************************************)
(* What the client of POST /v1/messages may rely on while an answer is     *)
(* streamed: message_start comes first and once; a content block has its   *)
(* own index, is opened once and closed once; a delta belongs to an open   *)
(* block; all blocks are closed before message_delta and message_stop,     *)
(* and nothing follows.  Blocks may be open at the same time.              *)
(*                                                                         *)
(* One departure is part of the promise, because the gateway makes it:     *)
(* text that arrives after a tool call still goes to block 0, which was    *)
(* closed when the tool block was opened (LateText).                       *)
(***************************************************************************)
EXTENDS Naturals

CONSTANT Indexes    \* indexes of content blocks; 0 is the text block

VARIABLES
  phase,    \* where the message is
  block,    \* each content block
  event,    \* the last event, and the block it is about
  heard     \* events received so far: every event is a step

Init ==
  /\ phase = "idle"
  /\ block = [i \in Indexes |-> "absent"]
  /\ event = <<"", 0>>
  /\ heard = 0

MessageStart ==
  /\ phase = "idle"
  /\ phase' = "message"
  /\ UNCHANGED block

BlockStart(i) ==
  /\ phase = "message"
  /\ block[i] = "absent"
  /\ block' = [block EXCEPT ![i] = "open"]
  /\ UNCHANGED phase

LateText(i) ==
  /\ i = 0
  /\ block[0] = "closed"
  /\ \E j \in Indexes \ {0} : block[j] = "open"

BlockDelta(i) ==
  /\ phase = "message"
  /\ block[i] = "open" \/ LateText(i)
  /\ UNCHANGED <<phase, block>>

BlockStop(i) ==
  /\ phase = "message"
  /\ block[i] = "open"
  /\ block' = [block EXCEPT ![i] = "closed"]
  /\ UNCHANGED phase

MessageDelta ==
  /\ phase = "message"
  /\ \A i \in Indexes : block[i] # "open"
  /\ phase' = "summed"
  /\ UNCHANGED block

MessageStop ==
  /\ phase = "summed"
  /\ phase' = "ended"
  /\ UNCHANGED block

Next ==
  /\ heard' = heard + 1
  /\ \/ event' = <<"message_start", 0>> /\ MessageStart
     \/ \E i \in Indexes :
          \/ event' = <<"content_block_start", i>> /\ BlockStart(i)
          \/ event' = <<"content_block_delta", i>> /\ BlockDelta(i)
          \/ event' = <<"content_block_stop", i>> /\ BlockStop(i)
     \/ event' = <<"message_delta", 0>> /\ MessageDelta
     \/ event' = <<"message_stop", 0>> /\ MessageStop

Spec == Init /\ [][Next]_<<phase, block, event, heard>>
=============================================================================
