---------------------------- MODULE MCHTTPClient ----------------------------
(* The default, no retries and two retries; a limit of two bytes, so that   *)
(* bodies below, at, one above and two above the limit occur.               *)
EXTENDS HTTPClient
Options == {-1, 0, 2}
=============================================================================
