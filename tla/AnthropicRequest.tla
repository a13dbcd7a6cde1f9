-------------------------- MODULE AnthropicRequest --------------------------
(***************************************************************************)
(* The request side of POST /v1/messages: internal/handlers/anthropic.go,  *)
(* buildOpenAIBody and translateMessages.  A client sends its conversation *)
(* again with every turn; the gateway turns it into OpenAI messages, where *)
(* a tool result is a message of its own.                                  *)
(*                                                                         *)
(* A message is a plain string or a sequence of blocks.  Text is left out, *)
(* except whether there is any; tool calls are told apart by their id.     *)
(***************************************************************************)
EXTENDS Naturals, Sequences, SequencesExt

CONSTANTS
  CallIds,       \* ids of tool calls
  Contents,      \* the block sequences a message may have
  MaxMessages    \* bound: messages of a conversation

ASSUME ConversationAssumption ==
  /\ CallIds \subseteq Nat \ {0}
  /\ MaxMessages \in Nat

VARIABLES
  system,    \* the request has a system field that is not blank
  conv       \* anthropicRequest.Messages

requestVars == <<system, conv>>

\* Content blocks that translateMessages tells apart; "other" is any other type.
Text == [type |-> "text", id |-> 0]
EmptyText == [type |-> "empty_text", id |-> 0]
ToolUse(c) == [type |-> "tool_use", id |-> c]
ToolResult(c) == [type |-> "tool_result", id |-> c]
Other == [type |-> "other", id |-> 0]

contentBlockIn == {Text, EmptyText, Other}
                  \cup {ToolUse(c) : c \in CallIds} \cup {ToolResult(c) : c \in CallIds}

\* An OpenAI message; content is FALSE where it is null or empty.
OpenAI(role, content, calls, id) ==
  [role |-> role, content |-> content, calls |-> calls, id |-> id]

Idsof(blocks, type) ==
  LET these == SelectSeq(blocks, LAMBDA b : b.type = type)
  IN  [k \in 1 .. Len(these) |-> these[k].id]
HasText(blocks) == \E k \in 1 .. Len(blocks) : blocks[k] = Text

extractToolResultContent(id) == OpenAI("tool", TRUE, <<>>, id)

\* Mutant of FromUser: only the first result.
FromUser_OneResult(blocks) ==
  LET ids == Idsof(blocks, "tool_result")
  IN  (IF HasText(blocks) THEN <<OpenAI("user", TRUE, <<>>, 0)>> ELSE <<>>)
      \o (IF ids = <<>> THEN <<>> ELSE <<extractToolResultContent(Head(ids))>>)

FromUser(blocks) ==
  LET ids == Idsof(blocks, "tool_result")
  IN  (IF HasText(blocks) THEN <<OpenAI("user", TRUE, <<>>, 0)>> ELSE <<>>)
      \o [k \in 1 .. Len(ids) |-> extractToolResultContent(ids[k])]

FromAssistant(blocks) ==
  <<OpenAI("assistant", HasText(blocks), Idsof(blocks, "tool_use"), 0)>>

\* One message may become none, one or several.
TranslateMessage(m) ==
  CASE m.plain -> <<OpenAI(m.role, TRUE, <<>>, 0)>>
    [] ~m.plain /\ m.role = "user" -> FromUser(m.blocks)
    [] ~m.plain /\ m.role = "assistant" -> FromAssistant(m.blocks)
    [] OTHER -> <<OpenAI(m.role, HasText(m.blocks), <<>>, 0)>>

translateMessages(msgs) ==
  FoldLeft(LAMBDA out, m : out \o TranslateMessage(m), <<>>, msgs)

buildOpenAIBody(sys, msgs) ==
  (IF sys THEN <<OpenAI("system", TRUE, <<>>, 0)>> ELSE <<>>) \o translateMessages(msgs)

-----------------------------------------------------------------------------
(* The client (external) keeps the rules of the Anthropic API: the results *)
(* of all calls of an assistant message come in the next user message.     *)

RequestInit ==
  /\ system = FALSE
  /\ conv = <<>>

CallsOf(m) == IF m.plain THEN <<>> ELSE Idsof(m.blocks, "tool_use")
Pending == IF conv = <<>> THEN <<>> ELSE CallsOf(Last(conv))
Used == UNION {ToSet(CallsOf(conv[k])) : k \in 1 .. Len(conv)}

Turn(m) ==
  /\ Len(conv) < MaxMessages
  /\ conv' = Append(conv, m)
  /\ UNCHANGED system

GivesSystem ==
  /\ conv = <<>> /\ ~system
  /\ system' = TRUE
  /\ UNCHANGED conv

SaysText(role) == Pending = <<>> /\ Turn([role |-> role, plain |-> TRUE, blocks |-> <<>>])

Speaks(role, blocks) == Turn([role |-> role, plain |-> FALSE, blocks |-> blocks])

RequestNext ==
  \/ GivesSystem
  \/ \E role \in {"user", "assistant", "system"} : SaysText(role)
  \/ \E blocks \in Contents :
       \/ /\ IsInjective(Idsof(blocks, "tool_result"))
          /\ ToSet(Idsof(blocks, "tool_result")) = ToSet(Pending)
          /\ Idsof(blocks, "tool_use") = <<>>
          /\ Speaks("user", blocks)
       \/ /\ Pending = <<>>
          /\ Idsof(blocks, "tool_result") = <<>>
          /\ IsInjective(Idsof(blocks, "tool_use"))
          /\ ToSet(Idsof(blocks, "tool_use")) \cap Used = {}
          /\ Speaks("assistant", blocks)
       \/ /\ Pending = <<>>
          /\ \A k \in 1 .. Len(blocks) : blocks[k] \in {Text, Other}
          /\ Speaks("system", blocks)

RequestSpec == RequestInit /\ [][RequestNext]_requestVars

-----------------------------------------------------------------------------
(* Properties                                                              *)

RequestTypeOK ==
  /\ system \in BOOLEAN
  /\ conv \in Seq([role : {"user", "assistant", "system"}, plain : BOOLEAN,
                    blocks : Contents \cup {<<>>}])

\* Each tool call of the translated conversation is answered, once, by the
\* tool messages between its assistant message and the next one, except for
\* the calls the client has not answered yet; and no result answers a call
\* of another message (translateMessages fans a user message out).
CallsAnswered ==
  LET body == buildOpenAIBody(system, conv)
      asks == {k \in 1 .. Len(body) : body[k].role = "assistant"}
      upTo(j) == Min({k \in asks : k > j} \cup {Len(body) + 1})
      tools(j) == SelectSeq(SubSeq(body, j + 1, upTo(j) - 1), LAMBDA m : m.role = "tool")
  IN  \A j \in asks :
        (upTo(j) <= Len(body) \/ Pending = <<>>) =>
          LET ids == [k \in 1 .. Len(tools(j)) |-> tools(j)[k].id]
          IN  IsInjective(ids) /\ ToSet(ids) = ToSet(body[j].calls)
=============================================================================
