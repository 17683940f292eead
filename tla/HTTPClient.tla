----------------------------- MODULE HTTPClient -----------------------------
(***************************************************************************)
(* internal/httpclient/client.go and the way the providers use it: one     *)
(* request through Do (with retries, then ReadBody and the deferred Close  *)
(* of generateSync) or through DoStream (no retry, the stream read until   *)
(* it ends, then the deferred Close of generateStreaming).                 *)
(*                                                                         *)
(* The server and the transport are the environment: an attempt is         *)
(* answered with a status, fails, runs into the client's timeout or ends   *)
(* with the context.  Time passes in units: an attempt, the reading of its *)
(* body included, takes none or all of its timeout, a wait takes what      *)
(* backoff returns.                                                        *)
(***************************************************************************)
EXTENDS Integers, Sequences

CONSTANTS RetryOptions,   \* values of Options.MaxRetries
          DefaultRetries, \* DefaultMaxRetries
          Timeout,        \* Options.Timeout, in units
          BaseDelay,      \* baseBackoff, in units
          MaxDelay,       \* maxBackoff, in units
          MaxDuration,    \* the longest time.Duration, in units
          MaxBodySize     \* Options.MaxBodySize

ASSUME ClientAssumption ==
    /\ RetryOptions \subseteq Int
    /\ DefaultRetries \in Nat /\ Timeout \in Nat \ {0}
    /\ BaseDelay \in Nat /\ MaxDelay \in Nat /\ MaxBodySize \in Nat

\* backoff computes the delay in floating point and converts it: so many
\* retries that it does not fit a time.Duration are undefined in Go (the 36th
\* would be the first; nothing in the program asks for more than three).
ASSUME DelaysFit ==
    \A r \in RetryOptions \cup {DefaultRetries} : \A n \in 1..r :
        BaseDelay * 2 ^ (n - 1) \in 0..MaxDuration

VARIABLES
    mode,     \* "do" or "stream"
    option,   \* the MaxRetries asked for
    pc,       \* where the caller's goroutine is
    attempt,  \* the loop variable of Do
    hasBody,  \* whether the request has a body
    getBody,  \* req.GetBody: "unset", the "caller"'s, or that of the "buffer" of Do
    body,     \* req.Body: "none", "fresh" or "spent"
    ctx,      \* the request's context is done
    lastErr,  \* lastErr is set
    status,   \* the class of the response in hand, or "none"
    open,     \* response bodies that nobody closed yet
    sent,     \* history: what each attempt sent as its body
    after,    \* history: how each finished attempt ended
    elapsed,  \* units since the call
    answer    \* what the caller made of it

vars == <<mode, option, pc, attempt, hasBody, getBody, body, ctx, lastErr, status, open,
          sent, after, elapsed, answer>>

\* ok: 200; other: any other status that is not retried; retryable: 429, 500,
\* 502, 503, 504 (retryableStatusCodes).
Statuses == {"ok", "other", "retryable"}
Answers  == {"none", "data", "tooLarge", "apiError", "error", "cancelled", "stream"}

\* withDefaults: 0 means the default, a negative value means no retries.
Retries == CASE option = 0 -> DefaultRetries
             [] option < 0 -> 0
             [] OTHER -> option

CallTypeOK ==
    /\ mode \in {"do", "stream"} /\ option \in RetryOptions
    /\ pc \in {"start", "top", "backoff", "send", "drain", "exhausted", "read", "streaming",
               "close", "done"}
    /\ attempt \in 0..(Retries + 1)
    /\ hasBody \in BOOLEAN /\ getBody \in {"unset", "caller", "buffer"}
    /\ body \in {"none", "fresh", "spent"}
    /\ ctx \in BOOLEAN /\ lastErr \in BOOLEAN
    /\ status \in Statuses \cup {"none"} /\ open \in 0..1 /\ answer \in Answers

HistoryTypeOK ==
    /\ sent \in Seq({"none", "fresh", "spent"})
    /\ after \in Seq(Statuses \cup {"failed"})
    /\ elapsed \in Nat

TypeOK == CallTypeOK /\ HistoryTypeOK

Init ==
    /\ mode \in {"do", "stream"} /\ option \in RetryOptions
    /\ pc = "start" /\ attempt = 0
    /\ hasBody \in BOOLEAN
    /\ getBody \in {"unset"} \cup (IF hasBody THEN {"caller"} ELSE {})
    /\ body = IF hasBody THEN "fresh" ELSE "none"
    /\ ctx = FALSE /\ lastErr = FALSE /\ status = "none" /\ open = 0
    /\ sent = <<>> /\ after = <<>> /\ elapsed = 0 /\ answer = "none"

Return(a) == pc' = "done" /\ answer' = a

\* Do buffers a body that cannot be replayed, if it may have to.
Start ==
    /\ pc = "start"
    /\ IF mode = "stream"
         THEN pc' = "send" /\ UNCHANGED <<getBody, answer>>
         ELSE IF hasBody /\ getBody = "unset" /\ Retries > 0
           THEN \/ pc' = "top" /\ getBody' = "buffer" /\ UNCHANGED answer
                \/ Return("error") /\ UNCHANGED getBody        \* reading the body failed
           ELSE pc' = "top" /\ UNCHANGED <<getBody, answer>>
    /\ UNCHANGED <<mode, option, attempt, hasBody, body, ctx, lastErr, status, open, sent,
                   after, elapsed>>

\* The head of the loop.
Top ==
    /\ pc = "top"
    /\ pc' = IF attempt > Retries THEN "exhausted"
             ELSE IF attempt > 0 THEN "backoff" ELSE "send"
    /\ UNCHANGED <<mode, option, attempt, hasBody, getBody, body, ctx, lastErr, status, open,
                   sent, after, elapsed, answer>>

\* The delay plus or minus a quarter; the upper end is not reached.
Jittered(d) == (d - d \div 4)..(d + d \div 4 - 1)

\* Faulty: the delay doubles for ever.
DelaysUncapped(n) == Jittered(BaseDelay * 2 ^ (n - 1))

\* backoff: what it may return before attempt n.
Delays(n) == LET doubled == BaseDelay * 2 ^ (n - 1)
             IN  Jittered(IF doubled > MaxDelay THEN MaxDelay ELSE doubled)

\* Faulty: the body is not reset for a retry.
BackoffKeepsBody ==
    /\ pc = "backoff"
    /\ \/ ctx /\ Return("cancelled") /\ UNCHANGED elapsed
       \/ /\ \E d \in Delays(attempt) : elapsed' = elapsed + d
          /\ pc' = "send" /\ UNCHANGED answer
    /\ UNCHANGED <<mode, option, attempt, hasBody, getBody, body, ctx, lastErr, status, open,
                   sent, after>>

\* The select between the context and the timer, then the reset of the body,
\* which may fail if the caller has its own way to get it.
Backoff ==
    /\ pc = "backoff"
    /\ \/ ctx /\ Return("cancelled") /\ UNCHANGED <<body, elapsed>>
       \/ /\ \E d \in Delays(attempt) : elapsed' = elapsed + d
          /\ \/ /\ body' = IF getBody = "unset" THEN body ELSE "fresh"
                /\ pc' = "send" /\ UNCHANGED answer
             \/ getBody = "caller" /\ Return("error") /\ UNCHANGED body
    /\ UNCHANGED <<mode, option, attempt, hasBody, getBody, ctx, lastErr, status, open, sent,
                   after>>

\* What http.Client.Do does to the request, answered or not.
Transmit ==
    /\ sent' = Append(sent, body)
    /\ body' = IF hasBody THEN "spent" ELSE "none"

\* The client without a timeout is that of streams, whose time is not counted.
AttemptTakesTime ==
    elapsed' \in {elapsed} \cup (IF mode = "do" THEN {elapsed + Timeout} ELSE {})

\* http.Client.Do fails: network, timeout of this attempt, or context.
SendFails ==
    /\ pc = "send"
    /\ AttemptTakesTime
    /\ Transmit
    /\ after' = Append(after, "failed")
    /\ IF mode = "do" THEN /\ lastErr' = TRUE /\ attempt' = attempt + 1
                           /\ pc' = "top" /\ UNCHANGED answer
                      ELSE Return("error") /\ UNCHANGED <<lastErr, attempt>>
    /\ UNCHANGED <<mode, option, hasBody, getBody, ctx, status, open>>

\* Faulty: every error status is retried.
SendAnsweredRetriesAll ==
    /\ pc = "send" /\ ~ctx
    /\ \E s \in Statuses :
          /\ status' = s
          /\ after' = Append(after, s)
          /\ pc' = IF mode = "do" THEN (IF s # "ok" THEN "drain" ELSE "read")
                                  ELSE (IF s = "ok" THEN "streaming" ELSE "drain")
    /\ open' = open + 1
    /\ Transmit
    /\ AttemptTakesTime
    /\ UNCHANGED <<mode, option, attempt, hasBody, getBody, ctx, lastErr, answer>>

\* A response arrives; its body is open until somebody closes it.
SendAnswered ==
    /\ pc = "send" /\ ~ctx
    /\ \E s \in Statuses :
          /\ status' = s
          /\ after' = Append(after, s)
          /\ pc' = IF mode = "do" THEN (IF s = "retryable" THEN "drain" ELSE "read")
                                  ELSE (IF s = "ok" THEN "streaming" ELSE "drain")
    /\ open' = open + 1
    /\ Transmit
    /\ AttemptTakesTime
    /\ UNCHANGED <<mode, option, attempt, hasBody, getBody, ctx, lastErr, answer>>

\* Faulty: the body of a retried response stays open.
DrainLeaks ==
    /\ pc = "drain"
    /\ status' = "none"
    /\ IF mode = "do" THEN /\ lastErr' = TRUE /\ attempt' = attempt + 1
                           /\ pc' = "top" /\ UNCHANGED answer
                      ELSE Return("apiError") /\ UNCHANGED <<lastErr, attempt>>
    /\ UNCHANGED <<mode, option, hasBody, getBody, body, ctx, open, sent, after, elapsed>>

\* Read at most 1024 bytes of the error, close, and go on (Do) or give up
\* (DoStream).
Drain ==
    /\ pc = "drain"
    /\ open' = open - 1
    /\ status' = "none"
    /\ IF mode = "do" THEN /\ lastErr' = TRUE /\ attempt' = attempt + 1
                           /\ pc' = "top" /\ UNCHANGED answer
                      ELSE Return("apiError") /\ UNCHANGED <<lastErr, attempt>>
    /\ UNCHANGED <<mode, option, hasBody, getBody, body, ctx, sent, after, elapsed>>

\* The end of Do.
Exhausted ==
    /\ pc = "exhausted"
    /\ IF lastErr THEN Return("error") ELSE pc' = "read" /\ UNCHANGED answer
    /\ UNCHANGED <<mode, option, attempt, hasBody, getBody, body, ctx, lastErr, status, open,
                   sent, after, elapsed>>

\* ReadBody of a body of the given size: io.LimitReader stops one byte after
\* the limit, so that a longer body is noticed.
BytesRead(size) == IF size > MaxBodySize + 1 THEN MaxBodySize + 1 ELSE size
TooLarge(size)  == BytesRead(size) > MaxBodySize

\* generateSync: ReadBody, the check of the status, the one yield.
Read ==
    /\ pc = "read" /\ pc' = "close"
    /\ \/ \E size \in 0..(MaxBodySize + 2) :
             answer' = IF TooLarge(size) THEN "tooLarge"
                       ELSE IF status = "ok" THEN "data" ELSE "apiError"
       \/ answer' = "error"
    /\ UNCHANGED <<mode, option, attempt, hasBody, getBody, body, ctx, lastErr, status, open,
                   sent, after, elapsed>>

\* Faulty: the request does not carry the context.
StreamIgnoresContext ==
    /\ pc = "streaming" /\ ~ctx /\ pc' = "close"
    /\ answer' \in {"stream", "error"}
    /\ UNCHANGED <<mode, option, attempt, hasBody, getBody, body, ctx, lastErr, status, open,
                   sent, after, elapsed>>

\* generateStreaming: the stream ends, breaks off, or the consumer stops.
StreamEnds ==
    /\ pc = "streaming" /\ pc' = "close"
    /\ answer' \in {"stream", "error"}
    /\ UNCHANGED <<mode, option, attempt, hasBody, getBody, body, ctx, lastErr, status, open,
                   sent, after, elapsed>>

\* The deferred resp.Body.Close of the provider.
Close ==
    /\ pc = "close" /\ pc' = "done"
    /\ open' = open - 1
    /\ UNCHANGED <<mode, option, attempt, hasBody, getBody, body, ctx, lastErr, status, sent,
                   after, elapsed, answer>>

Cancel ==
    /\ ~ctx /\ ctx' = TRUE
    /\ UNCHANGED <<mode, option, pc, attempt, hasBody, getBody, body, lastErr, status, open,
                   sent, after, elapsed, answer>>

Step == \/ Start \/ Top \/ Backoff \/ SendFails \/ SendAnswered \/ Drain \/ Exhausted
        \/ Read \/ StreamEnds \/ Close

Next == Step \/ Cancel

Spec == Init /\ [][Next]_vars

(***************************************************************************)
(* Fairness: an attempt of Do ends within its timeout and a timer fires;   *)
(* a stream has no timeout and is only sure to end with its context.       *)
(***************************************************************************)
FairSpec == /\ Spec
            /\ WF_vars((mode = "do" \/ ctx) /\ Step)
            /\ WF_vars(pc # "streaming" /\ pc # "send" /\ Step)

-----------------------------------------------------------------------------
\* At most MaxRetries + 1 attempts, whatever value the option has, and one for
\* a stream; only a failure or a retryable status is followed by another; and
\* every one of them sends the whole body, although the transport has read it.
RetriesJustified ==
    /\ Len(sent) <= IF mode = "do" THEN Retries + 1 ELSE 1
    /\ \A i \in DOMAIN after : i < Len(sent) => after[i] \in {"failed", "retryable"}
    /\ \A i \in DOMAIN sent : sent[i] = (IF hasBody THEN "fresh" ELSE "none")

\* Each response body is closed exactly once on every path, and a provider
\* never reads one that was closed.
BodiesClosed ==
    /\ TypeOK
    /\ open = (IF pc \in {"read", "streaming", "close", "drain"} THEN 1 ELSE 0)
    /\ pc \in {"read", "streaming"} => status # "none"

\* How long Do and the reading of its body may take: a timeout for every
\* attempt and the longest wait before every retry.  (The comment of
\* Options.Timeout promises a single timeout.)
TimeBounded ==
    mode = "do" =>
        elapsed <= (Retries + 1) * Timeout + Retries * (MaxDelay + MaxDelay \div 4)

\* Do always comes back, however the server behaves, and a cancelled request
\* of either kind does.
CallReturns == (mode = "do" \/ ctx) ~> pc = "done"
=============================================================================
