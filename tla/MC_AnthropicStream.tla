------------------------ MODULE MC_AnthropicStream ------------------------
(* AnthropicStream for TLC: chunks with text, with parts of tool calls, with *)
(* both, and with a finish reason.                                          *)
EXTENDS AnthropicStream

Chunk(text, tool, name, args, finish) ==
  [kind |-> "chunk", text |-> text, tool |-> tool, name |-> name, args |-> args, finish |-> finish]
MCChunks ==
  {Chunk(TRUE, NoTool, FALSE, FALSE, ""), Chunk(TRUE, 1, TRUE, TRUE, ""),
   Chunk(FALSE, NoTool, FALSE, FALSE, "stop"), Chunk(FALSE, 0, FALSE, TRUE, "tool_calls")}
  \cup {Chunk(FALSE, t, nm, ar, "") : t \in {0, 1}, nm \in BOOLEAN, ar \in BOOLEAN}
=============================================================================
