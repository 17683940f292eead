------------------------------- MODULE MCSSE -------------------------------
(* Every stream of up to five lines: two blocks with a type, data, an empty *)
(* data line or a comment each, ended by a blank line or not.              *)
EXTENDS SSE
=============================================================================
