------------------------------ MODULE Limiter ------------------------------
(***************************************************************************)
(* internal/ratelimit/limiter.go and the WithRateLimit middleware that is  *)
(* its only user (internal/runtime/middleware/middleware.go).              *)
(*                                                                         *)
(* The slots of a Limiter are the buffer of a Go channel.  A request       *)
(* (one iteration of rateLimitedModel.GenerateContent) takes a slot by     *)
(* sending to the channel and gives it back by receiving from it.  A       *)
(* sender that finds the buffer full joins the channel's FIFO queue; a     *)
(* receive from a full channel with a queue moves the first queued send    *)
(* into the buffer in the same step.  The statistics are three separate    *)
(* atomics, so every Add is a step of its own.                             *)
(***************************************************************************)
EXTENDS Integers, Sequences, FiniteSets

CONSTANTS Requests,        \* the GenerateContent calls of one model
          Asked,           \* the argument of New
          DefaultCapacity  \* DefaultMaxConcurrency

ASSUME LimiterAssumption ==
    /\ IsFiniteSet(Requests)
    /\ Asked \in Int
    /\ DefaultCapacity \in Nat \ {0}

\* New replaces a capacity that is not positive.
Capacity == IF Asked <= 0 THEN DefaultCapacity ELSE Asked

VARIABLES pc,         \* where each request is in GenerateContent
          cancelled,  \* requests whose context is done
          sem,        \* number of values in the channel's buffer
          queue,      \* blocked senders, first come first
          active, total, dropped   \* the atomics

vars == <<pc, cancelled, sem, queue, active, total, dropped>>
counters == <<active, total, dropped>>

(***************************************************************************)
(* Program points.                                                         *)
(***************************************************************************)
Holding == {"acquired",   \* the send succeeded
            "counted",    \* ... and active was incremented
            "serving",    \* Acquire returned nil, the inner model runs
            "yielding",   \* the consumer runs inside yield
            "releasing",  \* the deferred Release starts
            "receiving"}  \* active was decremented
Counted  == {"counted", "serving", "yielding", "releasing"}
Totalled == {"serving", "yielding", "releasing", "receiving", "done"}
Points   == Holding \cup {"idle", "queued", "givingUp", "rejected", "done"}
Ended    == {"rejected", "done"}

At(points) == {r \in Requests : pc[r] \in points}

Goto(r, point) == pc' = [pc EXCEPT ![r] = point]

\* q without its i-th element.
Without(q, i) == [j \in 1..(Len(q) - 1) |-> IF j < i THEN q[j] ELSE q[j + 1]]

-----------------------------------------------------------------------------
Init ==
    /\ pc = [r \in Requests |-> "idle"]
    /\ cancelled = {}
    /\ sem = 0
    /\ queue = <<>>
    /\ active = 0 /\ total = 0 /\ dropped = 0

\* The caller's context is cancelled, at any moment.
Cancel(r) ==
    /\ r \notin cancelled
    /\ cancelled' = cancelled \cup {r}
    /\ UNCHANGED <<pc, sem, queue, counters>>

\* Faulty: one sender too many.
SendOverfull(r) ==
    /\ pc[r] = "idle" /\ sem <= Capacity
    /\ sem' = sem + 1
    /\ Goto(r, "acquired")
    /\ UNCHANGED <<cancelled, queue, counters>>

\* The select of Acquire finds room in the buffer (it may pick this case even
\* when the context is done as well).
Send(r) ==
    /\ pc[r] = "idle"
    /\ sem < Capacity
    /\ sem' = sem + 1
    /\ Goto(r, "acquired")
    /\ UNCHANGED <<cancelled, queue, counters>>

\* Neither case of the select is ready.
Block(r) ==
    /\ pc[r] = "idle"
    /\ sem = Capacity
    /\ r \notin cancelled
    /\ queue' = Append(queue, r)
    /\ Goto(r, "queued")
    /\ UNCHANGED <<cancelled, sem, counters>>

\* Faulty: the context is looked at on entry only.
GiveUpOnEntry(r) ==
    /\ r \in cancelled /\ pc[r] = "idle"
    /\ Goto(r, "givingUp")
    /\ UNCHANGED <<cancelled, sem, queue, counters>>

\* The select takes ctx.Done() on entry, or is woken by it.
GiveUp(r) ==
    /\ r \in cancelled
    /\ \/ pc[r] = "idle" /\ UNCHANGED queue
       \/ \E i \in DOMAIN queue : queue[i] = r /\ queue' = Without(queue, i)
    /\ Goto(r, "givingUp")
    /\ UNCHANGED <<cancelled, sem, counters>>

\* Faulty: a rejection that is not counted.
DropUncounted(r) ==
    /\ pc[r] = "givingUp"
    /\ Goto(r, "rejected")
    /\ UNCHANGED <<cancelled, sem, queue, counters>>

\* dropped.Add(1); the error is yielded and GenerateContent returns.
CountDropped(r) ==
    /\ pc[r] = "givingUp"
    /\ dropped' = dropped + 1
    /\ Goto(r, "rejected")
    /\ UNCHANGED <<cancelled, sem, queue, active, total>>

CountActive(r) ==
    /\ pc[r] = "acquired"
    /\ active' = active + 1
    /\ Goto(r, "counted")
    /\ UNCHANGED <<cancelled, sem, queue, total, dropped>>

CountTotal(r) ==
    /\ pc[r] = "counted"
    /\ total' = total + 1
    /\ Goto(r, "serving")
    /\ UNCHANGED <<cancelled, sem, queue, active, dropped>>

\* The inner model has a response (or an error) for the consumer.
Yield(r) ==
    /\ pc[r] = "serving"
    /\ Goto(r, "yielding")
    /\ UNCHANGED <<cancelled, sem, queue, counters>>

\* The consumer asks for more.
Resume(r) ==
    /\ pc[r] = "yielding"
    /\ Goto(r, "serving")
    /\ UNCHANGED <<cancelled, sem, queue, counters>>

\* Faulty: Release is called after the loop and not deferred.
BreakLeaks(r) ==
    /\ pc[r] = "yielding"
    /\ Goto(r, "done")
    /\ UNCHANGED <<cancelled, sem, queue, counters>>

\* The consumer breaks out of the loop (yield returns false) or panics; the
\* deferred Release runs.
Break(r) ==
    /\ pc[r] = "yielding"
    /\ Goto(r, "releasing")
    /\ UNCHANGED <<cancelled, sem, queue, counters>>

\* The inner iterator is exhausted.
Finish(r) ==
    /\ pc[r] = "serving"
    /\ Goto(r, "releasing")
    /\ UNCHANGED <<cancelled, sem, queue, counters>>

\* Faulty: active is never decremented.
UncountMissing(r) ==
    /\ pc[r] = "releasing"
    /\ Goto(r, "receiving")
    /\ UNCHANGED <<cancelled, sem, queue, counters>>

\* Release: active.Add(-1) ...
Uncount(r) ==
    /\ pc[r] = "releasing"
    /\ active' = active - 1
    /\ Goto(r, "receiving")
    /\ UNCHANGED <<cancelled, sem, queue, total, dropped>>

\* Faulty: a release that wakes nobody.
ReceiveForgets(r) ==
    /\ pc[r] = "receiving"
    /\ sem' = sem - 1
    /\ Goto(r, "done")
    /\ UNCHANGED <<cancelled, queue, counters>>

\* Faulty: the last one in the queue is served first.
ReceiveLast(r) ==
    /\ pc[r] = "receiving"
    /\ IF queue = <<>>
         THEN sem' = sem - 1 /\ Goto(r, "done") /\ UNCHANGED queue
         ELSE /\ pc' = [pc EXCEPT ![r] = "done", ![queue[Len(queue)]] = "acquired"]
              /\ queue' = Without(queue, Len(queue))
              /\ UNCHANGED sem
    /\ UNCHANGED <<cancelled, counters>>

\* ... then the receive, which frees the slot when nobody is queued and
\* otherwise gives it to the first in the queue.
Receive(r) ==
    /\ pc[r] = "receiving"
    /\ \/ /\ queue = <<>>
          /\ sem' = sem - 1
          /\ Goto(r, "done")
          /\ UNCHANGED queue
       \/ /\ queue # <<>>
          /\ pc' = [pc EXCEPT ![r] = "done", ![Head(queue)] = "acquired"]
          /\ queue' = Tail(queue)
          /\ UNCHANGED sem
    /\ UNCHANGED <<cancelled, counters>>

Step(r) == \/ Send(r) \/ Block(r) \/ GiveUp(r) \/ CountDropped(r)
           \/ CountActive(r) \/ CountTotal(r)
           \/ Yield(r) \/ Resume(r) \/ Break(r) \/ Finish(r)
           \/ Uncount(r) \/ Receive(r)

Next == \E r \in Requests : Cancel(r) \/ Step(r)

Spec == Init /\ [][Next]_vars

(***************************************************************************)
(* Fairness.  The Go scheduler runs every goroutine that can run, so the   *)
(* steps of Acquire and Release are weakly fair.  The call of              *)
(* GenerateContent itself is the caller's choice and has none.  What the   *)
(* limiter does not control is kept apart:                                 *)
(*   - the inner model stops when its context is cancelled (every HTTP     *)
(*     request carries the context), which CancelSpec assumes;             *)
(*   - it stops by itself (only requests with a timeout are sure to), and  *)
(*   - the consumer comes back from yield (the playground's writes to a    *)
(*     WebSocket without a deadline); both are hypotheses of the           *)
(*     properties, stated request by request.                              *)
(***************************************************************************)
LimiterFair(r) ==
    /\ WF_vars(GiveUp(r) /\ pc[r] = "queued")
    /\ WF_vars(CountDropped(r)) /\ WF_vars(CountActive(r))
    /\ WF_vars(CountTotal(r)) /\ WF_vars(Uncount(r)) /\ WF_vars(Receive(r))
ConsumerFair(r)       == WF_vars(Resume(r) \/ Break(r))
InnerHonoursCancel(r) == SF_vars(Finish(r) /\ r \in cancelled)
InnerEnds(r)          == SF_vars(Finish(r))

CancelSpec == Spec /\ \A r \in Requests : LimiterFair(r) /\ InnerHonoursCancel(r)

-----------------------------------------------------------------------------
(***************************************************************************)
(* Properties.                                                             *)
(***************************************************************************)
TypeOK ==
    /\ pc \in [Requests -> Points]
    /\ cancelled \subseteq Requests
    /\ sem \in 0..Capacity
    /\ queue \in Seq(Requests)
    /\ active \in Int /\ total \in Nat /\ dropped \in Nat

\* WithRateLimit: never more than Capacity requests between the end of
\* Acquire and the end of Release, whatever was cancelled or broken off.
SlotBound == Cardinality(At(Holding)) <= Capacity

\* A request is made to wait only while every slot is taken: a cancelled or
\* finished request never leaves a free slot beside a blocked sender.
WorkConserving == queue # <<>> => Cardinality(At(Holding)) = Capacity

\* Stats().Active is never negative and never above the slots in use, at any
\* instant between the Adds (Release decrements before it receives).
ActiveWithinSlots == 0 <= active /\ active <= sem

\* Every exit of GenerateContent returns its slot: once no request is under
\* way the channel is empty and active is back to zero.
NoSlotLeak == At(Points \ ({"idle"} \cup Ended)) = {} => sem = 0 /\ active = 0

\* Every request is accounted for once: served (total), turned away
\* (dropped) or on its way to one of the two.
Accounting ==
    total + dropped + Cardinality(At({"queued", "acquired", "counted", "givingUp"}))
        = Cardinality(Requests) - Cardinality(At({"idle"}))

\* Of two blocked requests the earlier one gets the slot: a step that wakes
\* a waiter with a slot leaves nobody in the queue who was before it.
FirstComeFirstServed ==
    [][\A i, j \in DOMAIN queue :
          (i < j /\ pc'[queue[j]] = "acquired") => pc'[queue[i]] # "queued"]_vars

\* A request that holds a slot is never turned away, and one that was turned
\* away never runs the inner model.
RejectedNeverServed ==
    [][\A r \in Requests : /\ pc[r] \in Holding => pc'[r] \in Holding \cup {"done"}
                           /\ pc[r] \in {"givingUp", "rejected"} =>
                                pc'[r] \in {"givingUp", "rejected"}]_vars

\* The abstract semaphore, with the slot held from the send to the receive.
Place(r) == CASE pc[r] \in Holding -> "inside"
              [] pc[r] = "done"    -> "left"
              [] pc[r] \in {"givingUp", "rejected"} -> "refused"
              [] OTHER -> "outside"

Abstract == INSTANCE Semaphore WITH Slots <- Capacity,
                                    place <- [r \in Requests |-> Place(r)]

\* The channel-based limiter implements the abstract semaphore.
ImplementsSemaphore == Abstract!Spec

\* Cancelling a request that has started ends it, in the queue or inside the
\* inner model, if its own consumer comes back: other requests may run for
\* ever, and their consumers may stall for ever inside yield.
CancelEnds == \A r \in Requests :
    ConsumerFair(r) => ((r \in cancelled /\ pc[r] # "idle") ~> pc[r] \in Ended)

\* No blocked request starves as long as inner models end and consumers come
\* back.
EveryCallEnds == (\A r \in Requests : InnerEnds(r) /\ ConsumerFair(r)) =>
                     \A r \in Requests : pc[r] # "idle" ~> pc[r] \in Ended
=============================================================================
