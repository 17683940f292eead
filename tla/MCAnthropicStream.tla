-------------------------- MODULE MCAnthropicStream --------------------------
(* Messages of two content blocks and up to seven events: two tool calls    *)
(* with interleaved input, or a text and a tool call, both with an ending.  *)
EXTENDS AnthropicStream
=============================================================================
