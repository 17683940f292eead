----------------------------- MODULE MCLimiter -----------------------------
(* Three requests for one slot (the capacity that New puts in the place of *)
(* 0): two can queue, and the first of them can give up.                   *)
EXTENDS Limiter
=============================================================================
