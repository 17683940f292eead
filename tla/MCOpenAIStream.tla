--------------------------- MODULE MCOpenAIStream ---------------------------
(* Streams of up to four chunks with two tool calls: enough for fragments   *)
(* of two calls to interleave with each other, within a chunk and across    *)
(* chunks, and with text, up to the chunk that has the finish reason.       *)
EXTENDS OpenAIStream
=============================================================================
