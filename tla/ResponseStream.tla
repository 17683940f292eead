--------------------------- MODULE ResponseStream ---------------------------
(***************************************************************************)
(* What GenerateContent of a streaming provider promises its consumer: any *)
(* number of partial responses, then at most one ending (a final response  *)
(* or an error), which the last partial response may come with; nothing    *)
(* after the ending, nothing after the consumer stopped, and no response   *)
(* is ever taken back.  A stream that is cut may end without an ending.    *)
(***************************************************************************)
EXTENDS Sequences

VARIABLES given,  \* kinds of the responses yielded so far
          over    \* the iterator has returned

Partial == "partial"
Endings == {"final", "error"}

Init == given = <<>> /\ over = FALSE

Give == /\ ~over
        /\ given' = Append(given, Partial)
        /\ over' \in BOOLEAN

Finish == /\ ~over
          /\ \E ending \in Endings : \/ given' = Append(given, ending)
                                     \/ given' = Append(Append(given, Partial), ending)
          /\ over' = TRUE

Quit == ~over /\ over' = TRUE /\ UNCHANGED given

Next == Give \/ Finish \/ Quit

Spec == Init /\ [][Next]_<<given, over>>
=============================================================================
