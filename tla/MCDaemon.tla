------------------------------ MODULE MCDaemon ------------------------------
(* The process with one or two skills: a stdio skill has a subprocess and a *)
(* closer, an http skill has neither.                                      *)
EXTENDS Daemon
OneSkill  == <<"stdio">>
TwoSkills == <<"stdio", "http">>
=============================================================================
