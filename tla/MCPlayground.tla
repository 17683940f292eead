---------------------------- MODULE MCPlayground ----------------------------
(* Two turns over two connections: a turn that outlives its connection, a   *)
(* message sent before or after a reconnect, a cut between any two writes,  *)
(* a turn that goes on after a final event and runs into the next one.      *)
EXTENDS Playground
=============================================================================
