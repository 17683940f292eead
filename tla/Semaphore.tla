----------------------------- MODULE Semaphore -----------------------------
(***************************************************************************)
(* What internal/ratelimit promises its callers, said without channels or  *)
(* counters: at most Slots requests are inside at once, a request gets in  *)
(* at most once and only by taking a free slot or the slot of a request    *)
(* that leaves in the same instant, and only a request that is not inside  *)
(* may be turned away.  Limiter.tla is shown to implement this.            *)
(***************************************************************************)
EXTENDS Naturals, FiniteSets

CONSTANTS Requests,   \* the calls that want a slot
          Slots       \* how many of them may be inside at once

VARIABLE place        \* where each request stands

Places == {"outside", "inside", "left", "refused"}

InsideSet == {r \in Requests : place[r] = "inside"}

Init == place = [r \in Requests |-> "outside"]

Enter(r) ==
    /\ place[r] = "outside"
    /\ Cardinality(InsideSet) < Slots
    /\ place' = [place EXCEPT ![r] = "inside"]

Leave(r) ==
    /\ place[r] = "inside"
    /\ place' = [place EXCEPT ![r] = "left"]

\* A leaving request hands its slot straight to one that waits.
HandOver(r, w) ==
    /\ place[r] = "inside"
    /\ place[w] = "outside"
    /\ place' = [place EXCEPT ![r] = "left", ![w] = "inside"]

Refuse(r) ==
    /\ place[r] = "outside"
    /\ place' = [place EXCEPT ![r] = "refused"]

Next == \E r \in Requests : \/ Enter(r)
                            \/ Leave(r)
                            \/ Refuse(r)
                            \/ \E w \in Requests : HandOver(r, w)

Spec == Init /\ [][Next]_place
=============================================================================
