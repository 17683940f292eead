-------------------------- MODULE HTTPClientProofs --------------------------
(***************************************************************************)
(* Proofs about HTTPClient for every MaxRetries, timeout, delay and size   *)
(* limit.  The invariant says, at each point of Do and DoStream, how many  *)
(* attempts were made and how they ended (Attempts), what the next one     *)
(* would send (Body), which response is in hand (Response), and how much   *)
(* time the attempts and waits so far may have taken (Time).               *)
(***************************************************************************)
EXTENDS HTTPClient, TLAPS

\* The points of the loop of Do between two attempts, and those at which an
\* attempt has been made that may be the last.
Between == {"top", "backoff", "exhausted"}
Made    == {"drain", "read", "streaming", "close"}

\* The loop variable, and the attempts made.
Attempts ==
    /\ Len(after) = Len(sent)
    /\ mode = "stream" => attempt = 0 /\ pc \notin Between /\ Len(sent) <= 1
    /\ mode = "do" => Len(sent) <= Retries + 1 /\ pc # "streaming"
    /\ pc = "start" => attempt = 0
    /\ pc \in Between \cup {"start", "send"} => Len(sent) = attempt
    /\ pc \in Made => Len(sent) = attempt + 1
    /\ pc \in {"send", "backoff"} \cup Made => attempt <= Retries
    /\ pc = "backoff" => attempt > 0
    /\ (pc \in Between /\ attempt > 0) => lastErr
    /\ pc = "exhausted" => attempt > 0
    /\ \A i \in DOMAIN after : i < Len(sent) => after[i] \in {"failed", "retryable"}
    /\ pc \in Between \cup {"start", "send"} =>
          \A i \in DOMAIN after : after[i] \in {"failed", "retryable"}
    /\ (mode = "do" /\ pc = "drain") => after[Len(after)] = "retryable"

\* What was sent, and what the next attempt will send.
Body ==
    /\ getBody # "unset" => hasBody
    /\ ~hasBody => body = "none"
    /\ \A i \in DOMAIN sent : sent[i] = (IF hasBody THEN "fresh" ELSE "none")
    /\ (mode = "do" /\ hasBody /\ Retries > 0 /\ pc \notin {"start", "done"}) => getBody # "unset"
    /\ (hasBody /\ (pc \in {"start", "send"} \/ (pc = "top" /\ attempt = 0))) => body = "fresh"

\* The response in hand and the bodies that are open.
Response ==
    /\ open = (IF pc \in Made THEN 1 ELSE 0)
    /\ pc \in {"read", "streaming"} => status # "none"

\* The longest a wait can be, and the longest that some attempts and waits take.
MaxWait      == MaxDelay + MaxDelay \div 4
Budget(k, w) == k * Timeout + w * MaxWait

\* The time that has passed.
Time ==
    mode = "do" =>
        /\ (pc = "start" \/ (pc \in Between /\ attempt = 0)) => elapsed = 0
        /\ (pc \in Between /\ attempt > 0) => elapsed <= Budget(attempt, attempt - 1)
        /\ pc = "send" => elapsed <= Budget(attempt, attempt)
        /\ pc \in Made => elapsed <= Budget(attempt + 1, attempt)
        /\ elapsed <= Budget(Retries + 1, Retries)

IInv == TypeOK /\ Attempts /\ Body /\ Response /\ Time

-----------------------------------------------------------------------------
\* withDefaults leaves a number of retries that is not negative.
LEMMA RetriesNat == option \in RetryOptions => Retries \in Nat
BY ClientAssumption DEF Retries

\* Every wait before a retry that Do makes lasts at most MaxWait.
LEMMA WaitBounded ==
    ASSUME option \in RetryOptions, NEW n \in 1..Retries, NEW d \in Delays(n)
    PROVE  d \in Nat /\ d <= MaxWait
<1>. DEFINE doubled == BaseDelay * 2 ^ (n - 1)
            capped  == IF doubled > MaxDelay THEN MaxDelay ELSE doubled
<1>1. doubled \in Nat
  <2>1. n \in 1..option \/ n \in 1..DefaultRetries
    BY ClientAssumption DEF Retries
  <2>2. doubled \in 0..MaxDuration
    BY <2>1, DelaysFit
  <2>. QED  BY <2>2
<1>. HIDE DEF doubled
<1>2. capped \in Nat /\ capped <= MaxDelay
  BY <1>1, ClientAssumption
<1>3. d \in Jittered(capped)
  BY DEF Delays, doubled
<1>. HIDE DEF capped
<1>4. d \in Nat /\ d <= capped + capped \div 4
  BY <1>2, <1>3 DEF Jittered
<1>5. capped + capped \div 4 <= MaxWait
  BY <1>2, ClientAssumption DEF MaxWait
<1>6. capped + capped \div 4 \in Nat /\ MaxWait \in Nat
  BY <1>2, ClientAssumption DEF MaxWait
<1>. QED  BY <1>4, <1>5, <1>6

\* One more attempt or one more wait, and that more of both take longer.
LEMMA BudgetFacts ==
    ASSUME NEW k \in Nat, NEW w \in Nat
    PROVE  /\ Budget(k, w) \in Nat
           /\ Budget(k + 1, w) = Budget(k, w) + Timeout
           /\ Budget(k, w + 1) = Budget(k, w) + MaxWait
           /\ \A m \in Nat : \A v \in Nat : k <= m /\ w <= v => Budget(k, w) <= Budget(m, v)
<1>. DEFINE W == MaxWait
<1>1. W \in Nat /\ Timeout \in Nat
  BY ClientAssumption DEF MaxWait
<1>. HIDE DEF W
<1>2. \A i, j \in Nat : i * Timeout \in Nat /\ j * W \in Nat
  BY <1>1
<1>3. (k + 1) * Timeout = k * Timeout + Timeout /\ (w + 1) * W = w * W + W
  BY <1>1
<1>4. ASSUME NEW m \in Nat, NEW v \in Nat, k <= m, w <= v
      PROVE  k * Timeout <= m * Timeout /\ w * W <= v * W
  BY <1>1, <1>4
<1>5. \A i, j \in Nat : Budget(i, j) = i * Timeout + j * W
  BY DEF Budget, W
<1>6. Budget(k, w) \in Nat
  <2>1. k * Timeout \in Nat /\ w * W \in Nat /\ Budget(k, w) = k * Timeout + w * W
    BY <1>2, <1>5
  <2>. DEFINE a == k * Timeout
              b == w * W
  <2>. HIDE DEF a, b
  <2>2. a \in Nat /\ b \in Nat => a + b \in Nat
    OBVIOUS
  <2>. QED  BY <2>1, <2>2 DEF a, b
<1>7. Budget(k + 1, w) = Budget(k, w) + Timeout
  BY <1>1, <1>2, <1>3, <1>5
<1>8. Budget(k, w + 1) = Budget(k, w) + W
  BY <1>1, <1>2, <1>3, <1>5
<1>9. ASSUME NEW m \in Nat, NEW v \in Nat, k <= m, w <= v
      PROVE  Budget(k, w) <= Budget(m, v)
  BY <1>2, <1>4, <1>5, <1>9
<1>. QED  BY <1>6, <1>7, <1>8, <1>9 DEF W

\* What attempt k of at most r retries adds to the time that may have passed.
LEMMA AttemptBudget ==
    ASSUME NEW k \in Nat, NEW r \in Nat, k <= r
    PROVE  /\ Budget(k, k) \in Nat /\ Budget(k + 1, k) \in Nat
           /\ Budget(k + 1, k) = Budget(k, k) + Timeout
           /\ Budget(k + 1, k) <= Budget(r + 1, r) /\ Budget(r + 1, r) \in Nat
<1>1. Budget(k, k) \in Nat /\ Budget(k + 1, k) = Budget(k, k) + Timeout
  BY BudgetFacts
<1>2. k + 1 \in Nat /\ r + 1 \in Nat /\ k + 1 <= r + 1
  OBVIOUS
<1>3. Budget(k + 1, k) \in Nat /\ Budget(r + 1, r) \in Nat
  BY <1>2, BudgetFacts
<1>4. Budget(k + 1, k) <= Budget(r + 1, r)
  BY <1>2, BudgetFacts
<1>. QED  BY <1>1, <1>3, <1>4

\* What the wait before attempt k adds.
LEMMA WaitBudget ==
    ASSUME NEW k \in Nat, k > 0
    PROVE  /\ Budget(k, k - 1) \in Nat
           /\ Budget(k, k) = Budget(k, k - 1) + MaxWait
           /\ Budget(k, k - 1) <= Budget(k, k)
<1>1. k - 1 \in Nat /\ k - 1 <= k /\ (k - 1) + 1 = k
  OBVIOUS
<1>2. Budget(k, k - 1) \in Nat
  BY <1>1, BudgetFacts
<1>3. Budget(k, (k - 1) + 1) = Budget(k, k - 1) + MaxWait
  BY <1>1, BudgetFacts
<1>4. Budget(k, k - 1) <= Budget(k, k)
  BY <1>1, BudgetFacts
<1>. QED  BY <1>1, <1>2, <1>3, <1>4

\* What each part of the invariant depends on.
LEMMA Frames ==
    /\ CallTypeOK /\ UNCHANGED <<mode, option, pc, attempt, hasBody, getBody, body, ctx,
          lastErr, status, open, answer>> => CallTypeOK'
    /\ HistoryTypeOK /\ UNCHANGED <<sent, after, elapsed>> => HistoryTypeOK'
    /\ Attempts /\ UNCHANGED <<mode, option, pc, attempt, lastErr, sent, after>> => Attempts'
    /\ Body /\ UNCHANGED <<mode, option, pc, attempt, hasBody, getBody, body, sent>> => Body'
    /\ Response /\ UNCHANGED <<pc, open, status>> => Response'
    /\ Time /\ UNCHANGED <<mode, option, pc, attempt, elapsed>> => Time'
<1>1. CallTypeOK /\ UNCHANGED <<mode, option, pc, attempt, hasBody, getBody, body, ctx,
      lastErr, status, open, answer>> => CallTypeOK'
  BY DEF CallTypeOK, Retries
<1>2. HistoryTypeOK /\ UNCHANGED <<sent, after, elapsed>> => HistoryTypeOK'
  BY DEF HistoryTypeOK
<1>3. Attempts /\ UNCHANGED <<mode, option, pc, attempt, lastErr, sent, after>> => Attempts'
  BY DEF Attempts, Retries
<1>4. Body /\ UNCHANGED <<mode, option, pc, attempt, hasBody, getBody, body, sent>> => Body'
  BY DEF Body, Retries
<1>5. Response /\ UNCHANGED <<pc, open, status>> => Response'
  BY DEF Response
<1>6. Time /\ UNCHANGED <<mode, option, pc, attempt, elapsed>> => Time'
  BY DEF Time, Retries, Budget
<1>. QED  BY <1>1, <1>2, <1>3, <1>4, <1>5, <1>6

\* Every step of the request keeps the invariant.
LEMMA Steps ==
    ASSUME IInv, [Next]_vars
    PROVE  IInv'
<1>0. /\ UNCHANGED <<mode, option, hasBody>>
      /\ Retries' = Retries /\ Retries \in Nat
  <2>1. UNCHANGED <<mode, option, hasBody>>
    BY DEF Next, Step, Start, Top, Backoff, SendFails, SendAnswered, Drain, Exhausted, Read,
         StreamEnds, Close, Cancel, vars
  <2>. QED  BY <2>1, RetriesNat DEF IInv, TypeOK, CallTypeOK, Retries
<1>. USE <1>0, ClientAssumption DEF TypeOK
<1>1. CASE Start
  <2>1. UNCHANGED <<sent, after, elapsed>>
    BY <1>1 DEF Start, Return
  <2>2. CallTypeOK'
    BY <1>1 DEF Start, Return, IInv, CallTypeOK, Answers
  <2>3. Attempts'
    BY <1>1 DEF Start, Return, IInv, Attempts, CallTypeOK, HistoryTypeOK, Between, Made
  <2>4. Body'
    BY <1>1 DEF Start, Return, IInv, Body, CallTypeOK, HistoryTypeOK, Between, Made
  <2>5. Response'
    BY <1>1 DEF Start, Return, IInv, Response, Made
  <2>6. Time'
    BY <1>1 DEF Start, Return, IInv, Time, Attempts, Between, Made
  <2>. QED  BY <2>1, <2>2, <2>3, <2>4, <2>5, <2>6, Frames DEF IInv
<1>2. CASE Top
  <2>1. UNCHANGED <<sent, after, elapsed>>
    BY <1>2 DEF Top
  <2>2. CallTypeOK'
    BY <1>2 DEF Top, IInv, CallTypeOK, Answers
  <2>3. Attempts'
    BY <1>2 DEF Top, IInv, Attempts, CallTypeOK, HistoryTypeOK, Between, Made
  <2>4. Body'
    BY <1>2 DEF Top, IInv, Body, CallTypeOK, HistoryTypeOK, Between, Made
  <2>5. Response'
    BY <1>2 DEF Top, IInv, Response, Made
  <2>6. Time'
    <3>0. attempt \in Nat
      BY <1>0 DEF IInv, CallTypeOK
    <3>1. attempt \in Nat /\ Budget(attempt, attempt) \in Nat
      BY <3>0, BudgetFacts
    <3>2. attempt > 0 => Budget(attempt, attempt - 1) <= Budget(attempt, attempt)
                         /\ Budget(attempt, attempt - 1) \in Nat
      BY <3>1, WaitBudget
    <3>3. UNCHANGED <<attempt, elapsed>> /\ pc = "top" /\ elapsed \in Nat
          /\ pc' \in {"exhausted", "backoff", "send"} /\ (attempt = 0 => pc' = "send")
      BY <1>2, <3>1 DEF Top, IInv, HistoryTypeOK
    <3>. QED  BY <3>1, <3>2, <3>3 DEF IInv, Time, Between, Made
  <2>. QED  BY <2>1, <2>2, <2>3, <2>4, <2>5, <2>6, Frames DEF IInv
<1>3. CASE Backoff
  <2>1. CallTypeOK'
    BY <1>3 DEF Backoff, Return, IInv, CallTypeOK, Answers
  <2>2. HistoryTypeOK'
    <3>1. CASE UNCHANGED elapsed
      BY <1>3, <3>1 DEF Backoff, IInv, HistoryTypeOK
    <3>2. CASE \E d \in Delays(attempt) : elapsed' = elapsed + d
      <4>1. elapsed' \in Nat
        BY <1>3, <3>2, WaitBounded DEF Backoff, IInv, Attempts, CallTypeOK, HistoryTypeOK
      <4>. QED  BY <1>3, <4>1 DEF Backoff, IInv, HistoryTypeOK
    <3>. QED  BY <1>3, <3>1, <3>2 DEF Backoff
  <2>3. Attempts'
    BY <1>3 DEF Backoff, Return, IInv, Attempts, CallTypeOK, HistoryTypeOK, Between, Made
  <2>4. Body'
    BY <1>3 DEF Backoff, Return, IInv, Body, Attempts, CallTypeOK, Between, Made
  <2>5. Response'
    BY <1>3 DEF Backoff, Return, IInv, Response, Made
  <2>6. Time'
    <3>1. attempt \in Nat /\ attempt - 1 \in Nat /\ attempt <= Retries /\ elapsed \in Nat
      BY <1>3 DEF Backoff, IInv, CallTypeOK, HistoryTypeOK, Attempts
    <3>2. /\ Budget(attempt, attempt - 1) + MaxWait = Budget(attempt, attempt)
          /\ Budget(attempt, attempt) <= Budget(Retries + 1, Retries)
          /\ Budget(attempt, attempt - 1) \in Nat /\ Budget(attempt, attempt) \in Nat
          /\ Budget(Retries + 1, Retries) \in Nat
      <4>1. Budget(attempt, attempt - 1) + MaxWait = Budget(attempt, attempt)
            /\ Budget(attempt, attempt - 1) \in Nat
        BY <3>1, WaitBudget
      <4>2. /\ Budget(attempt, attempt) \in Nat /\ Budget(attempt + 1, attempt) \in Nat
            /\ Budget(attempt + 1, attempt) = Budget(attempt, attempt) + Timeout
            /\ Budget(attempt + 1, attempt) <= Budget(Retries + 1, Retries)
            /\ Budget(Retries + 1, Retries) \in Nat
        BY <3>1, <1>0, AttemptBudget
      <4>. QED  BY <4>1, <4>2
    <3>3. CASE pc' = "done" /\ UNCHANGED <<attempt, elapsed>>
      BY <3>3 DEF IInv, Time, Between, Made
    <3>4. CASE pc' = "send" /\ attempt' = attempt /\ \E d \in Delays(attempt) : elapsed' = elapsed + d
      <4>1. PICK d \in Delays(attempt) : elapsed' = elapsed + d
        BY <3>4
      <4>2. d \in Nat /\ d <= MaxWait /\ MaxWait \in Nat
        BY <3>1, WaitBounded DEF IInv, CallTypeOK, MaxWait
      <4>3. mode = "do" => elapsed <= Budget(attempt, attempt - 1)
        BY <1>3, <3>1 DEF Backoff, IInv, Time, Between
      <4>4. mode = "do" => elapsed' <= Budget(attempt, attempt)
        BY <3>1, <3>2, <4>1, <4>2, <4>3
      <4>5. elapsed' \in Nat
        BY <3>1, <4>1, <4>2
      <4>. QED  BY <3>2, <3>4, <4>4, <4>5 DEF Time, Between, Made
    <3>5. CASE pc' = "done" /\ attempt' = attempt /\ \E d \in Delays(attempt) : elapsed' = elapsed + d
      <4>1. PICK d \in Delays(attempt) : elapsed' = elapsed + d
        BY <3>5
      <4>2. d \in Nat /\ d <= MaxWait /\ MaxWait \in Nat
        BY <3>1, WaitBounded DEF IInv, CallTypeOK, MaxWait
      <4>3. mode = "do" => elapsed <= Budget(attempt, attempt - 1)
        BY <1>3, <3>1 DEF Backoff, IInv, Time, Between
      <4>4. mode = "do" => elapsed' <= Budget(Retries + 1, Retries)
        BY <3>1, <3>2, <4>1, <4>2, <4>3
      <4>. QED  BY <3>5, <4>4 DEF Time, Between, Made
    <3>. QED  BY <1>3, <3>3, <3>4, <3>5 DEF Backoff, Return
  <2>. QED  BY <2>1, <2>2, <2>3, <2>4, <2>5, <2>6 DEF IInv
<1>4. CASE SendFails
  <2>1. CallTypeOK'
    <3>1. attempt' \in 0..(Retries + 1)
      BY <1>4, <1>0 DEF SendFails, IInv, CallTypeOK, Attempts, Made
    <3>2. lastErr' \in BOOLEAN
      BY <1>4 DEF SendFails, IInv, CallTypeOK
    <3>. QED  BY <1>4, <3>1, <3>2 DEF SendFails, Transmit, Return, IInv, CallTypeOK, Response,
              Made, Statuses, Answers
  <2>2. HistoryTypeOK'
    BY <1>4 DEF SendFails, AttemptTakesTime, Transmit, Return, IInv, HistoryTypeOK,
         CallTypeOK, Statuses
  <2>3. Attempts'
    BY <1>4 DEF SendFails, AttemptTakesTime, Transmit, Return, IInv, Attempts, CallTypeOK,
         HistoryTypeOK, Between, Made
  <2>4. Body'
    BY <1>4 DEF SendFails, AttemptTakesTime, Transmit, Return, IInv, Body, CallTypeOK,
         HistoryTypeOK, Between, Made
  <2>5. Response'
    BY <1>4 DEF SendFails, AttemptTakesTime, Transmit, Return, IInv, Response, Made
  <2>6. Time'
    <3>1. attempt \in Nat /\ attempt <= Retries /\ elapsed \in Nat /\ Timeout \in Nat
      BY <1>4 DEF SendFails, IInv, CallTypeOK, HistoryTypeOK, Attempts
    <3>2. /\ Budget(attempt, attempt) + Timeout = Budget(attempt + 1, attempt)
          /\ Budget(attempt + 1, attempt) <= Budget(Retries + 1, Retries)
          /\ Budget(attempt, attempt) \in Nat /\ Budget(attempt + 1, attempt) \in Nat
          /\ Budget(Retries + 1, Retries) \in Nat
      BY <3>1, <1>0, AttemptBudget
    <3>3. mode = "do" => elapsed' \in Nat /\ elapsed' <= Budget(attempt + 1, attempt)
      BY <1>4, <3>1, <3>2 DEF SendFails, AttemptTakesTime, IInv, Time
    <3>4. mode = "do" => elapsed' <= Budget(Retries + 1, Retries)
      BY <3>2, <3>3
    <3>5. mode = "do" => pc' = "top" /\ attempt' = attempt + 1
      BY <1>4, <3>1 DEF SendFails
    <3>. QED  BY <3>1, <3>3, <3>4, <3>5 DEF Time, Between, Made
  <2>. QED  BY <2>1, <2>2, <2>3, <2>4, <2>5, <2>6 DEF IInv
<1>5. CASE SendAnswered
  <2>1. CallTypeOK'
    BY <1>5 DEF SendAnswered, AttemptTakesTime, Transmit, IInv, CallTypeOK, Response, Made,
         Statuses
  <2>2. HistoryTypeOK'
    BY <1>5 DEF SendAnswered, AttemptTakesTime, Transmit, IInv, HistoryTypeOK, CallTypeOK,
         Statuses
  <2>3. Attempts'
    BY <1>5 DEF SendAnswered, AttemptTakesTime, Transmit, IInv, Attempts, CallTypeOK,
         HistoryTypeOK, Between, Made
  <2>4. Body'
    BY <1>5 DEF SendAnswered, AttemptTakesTime, Transmit, IInv, Body, CallTypeOK,
         HistoryTypeOK, Between, Made
  <2>5. Response'
    BY <1>5 DEF SendAnswered, AttemptTakesTime, Transmit, IInv, Response, Made, Statuses
  <2>6. Time'
    <3>1. attempt \in Nat /\ attempt <= Retries /\ elapsed \in Nat /\ Timeout \in Nat
      BY <1>5 DEF SendAnswered, IInv, CallTypeOK, HistoryTypeOK, Attempts
    <3>2. /\ Budget(attempt, attempt) + Timeout = Budget(attempt + 1, attempt)
          /\ Budget(attempt + 1, attempt) <= Budget(Retries + 1, Retries)
          /\ Budget(attempt, attempt) \in Nat /\ Budget(attempt + 1, attempt) \in Nat
          /\ Budget(Retries + 1, Retries) \in Nat
      BY <3>1, <1>0, AttemptBudget
    <3>3. mode = "do" => elapsed' \in Nat /\ elapsed' <= Budget(attempt + 1, attempt)
      BY <1>5, <3>1, <3>2 DEF SendAnswered, AttemptTakesTime, IInv, Time
    <3>4. mode = "do" => elapsed' <= Budget(Retries + 1, Retries)
      BY <3>2, <3>3
    <3>5. mode = "do" => pc' \in Made /\ attempt' = attempt
      BY <1>5, <3>1 DEF SendAnswered, Made
    <3>. QED  BY <3>1, <3>3, <3>4, <3>5 DEF Time, Between, Made
  <2>. QED  BY <2>1, <2>2, <2>3, <2>4, <2>5, <2>6 DEF IInv
<1>6. CASE Drain
  <2>1. UNCHANGED <<sent, after, elapsed>>
    BY <1>6 DEF Drain, Return
  <2>2. CallTypeOK'
    <3>1. attempt' \in 0..(Retries + 1)
      BY <1>6, <1>0 DEF Drain, IInv, CallTypeOK, Attempts, Made
    <3>2. lastErr' \in BOOLEAN
      BY <1>6 DEF Drain, IInv, CallTypeOK
    <3>. QED  BY <1>6, <3>1, <3>2 DEF Drain, Transmit, Return, IInv, CallTypeOK, Response,
              Made, Statuses, Answers
  <2>3. Attempts'
    BY <1>6 DEF Drain, Return, IInv, Attempts, CallTypeOK, HistoryTypeOK, Between, Made
  <2>4. Body'
    BY <1>6 DEF Drain, Return, IInv, Body, CallTypeOK, HistoryTypeOK, Between, Made
  <2>5. Response'
    BY <1>6 DEF Drain, Return, IInv, Response, Made
  <2>6. Time'
    <3>1. attempt \in Nat /\ UNCHANGED elapsed /\ pc = "drain"
      BY <1>6 DEF Drain, IInv, CallTypeOK
    <3>2. mode = "do" => pc' = "top" /\ attempt' = attempt + 1 /\ (attempt + 1) - 1 = attempt
      BY <1>6, <3>1 DEF Drain
    <3>. QED  BY <3>1, <3>2 DEF IInv, Time, Between, Made
  <2>. QED  BY <2>1, <2>2, <2>3, <2>4, <2>5, <2>6, Frames DEF IInv
<1>7. CASE Exhausted
  <2>1. UNCHANGED <<sent, after, elapsed>>
    BY <1>7 DEF Exhausted, Return
  <2>2. CallTypeOK'
    BY <1>7 DEF Exhausted, Return, IInv, CallTypeOK, Answers
  <2>3. Attempts'
    BY <1>7 DEF Exhausted, Return, IInv, Attempts, CallTypeOK, HistoryTypeOK, Between, Made
  <2>4. Body'
    BY <1>7 DEF Exhausted, Return, IInv, Body, CallTypeOK, HistoryTypeOK, Between, Made
  <2>5. Response'
    BY <1>7 DEF Exhausted, Return, IInv, Response, Attempts, Between, Made
  <2>6. Time'
    BY <1>7 DEF Exhausted, Return, IInv, Time, Attempts, Between, Made
  <2>. QED  BY <2>1, <2>2, <2>3, <2>4, <2>5, <2>6, Frames DEF IInv
<1>8. CASE Read
  <2>1. UNCHANGED <<sent, after, elapsed>>
    BY <1>8 DEF Read
  <2>2. CallTypeOK'
    BY <1>8 DEF Read, IInv, CallTypeOK, Answers
  <2>3. Attempts'
    BY <1>8 DEF Read, IInv, Attempts, CallTypeOK, HistoryTypeOK, Between, Made
  <2>4. Body'
    BY <1>8 DEF Read, IInv, Body, CallTypeOK, HistoryTypeOK, Between, Made
  <2>5. Response'
    BY <1>8 DEF Read, IInv, Response, Made
  <2>6. Time'
    BY <1>8 DEF Read, IInv, Time, Between, Made
  <2>. QED  BY <2>1, <2>2, <2>3, <2>4, <2>5, <2>6, Frames DEF IInv
<1>9. CASE StreamEnds
  <2>1. UNCHANGED <<sent, after, elapsed>>
    BY <1>9 DEF StreamEnds
  <2>2. CallTypeOK'
    BY <1>9 DEF StreamEnds, IInv, CallTypeOK, Answers
  <2>3. Attempts'
    BY <1>9 DEF StreamEnds, IInv, Attempts, CallTypeOK, HistoryTypeOK, Between, Made
  <2>4. Body'
    BY <1>9 DEF StreamEnds, IInv, Body, CallTypeOK, HistoryTypeOK, Between, Made
  <2>5. Response'
    BY <1>9 DEF StreamEnds, IInv, Response, Made
  <2>6. Time'
    BY <1>9 DEF StreamEnds, IInv, Time, Between, Made
  <2>. QED  BY <2>1, <2>2, <2>3, <2>4, <2>5, <2>6, Frames DEF IInv
<1>10. CASE Close
  <2>1. UNCHANGED <<sent, after, elapsed>>
    BY <1>10 DEF Close
  <2>2. CallTypeOK'
    BY <1>10 DEF Close, IInv, CallTypeOK, Response, Made
  <2>3. Attempts'
    BY <1>10 DEF Close, IInv, Attempts, CallTypeOK, HistoryTypeOK, Between, Made
  <2>4. Body'
    BY <1>10 DEF Close, IInv, Body, CallTypeOK, HistoryTypeOK, Between, Made
  <2>5. Response'
    BY <1>10 DEF Close, IInv, Response, Made
  <2>6. Time'
    BY <1>10 DEF Close, IInv, Time, Between, Made
  <2>. QED  BY <2>1, <2>2, <2>3, <2>4, <2>5, <2>6, Frames DEF IInv
<1>11. CASE Cancel
  <2>1. UNCHANGED <<sent, after, elapsed, mode, option, pc, attempt, lastErr, hasBody,
        getBody, body, open, status>>
    BY <1>11 DEF Cancel
  <2>2. CallTypeOK'
    BY <1>11 DEF Cancel, IInv, CallTypeOK, Answers
  <2>. QED  BY <2>1, <2>2, Frames DEF IInv
<1>12. CASE UNCHANGED vars
  <2>1. UNCHANGED <<mode, option, pc, attempt, hasBody, getBody, body, ctx, lastErr, status,
        open, answer, sent, after, elapsed>>
    BY <1>12 DEF vars
  <2>. QED  BY <2>1, Frames DEF IInv
<1>. QED
  BY <1>1, <1>2, <1>3, <1>4, <1>5, <1>6, <1>7, <1>8, <1>9, <1>10, <1>11, <1>12 DEF Next, Step

\* Before the call nothing was sent and nothing is open.
LEMMA Initially == Init => IInv
<1>. SUFFICES ASSUME Init PROVE IInv
  OBVIOUS
<1>1. Retries \in Nat
  BY RetriesNat DEF Init
<1>2. CallTypeOK
  <2>1. lastErr \in BOOLEAN /\ ctx \in BOOLEAN
    BY DEF Init
  <2>2. attempt \in 0..(Retries + 1)
    BY <1>1 DEF Init
  <2>. QED  BY <2>1, <2>2 DEF Init, CallTypeOK, Answers
<1>3. HistoryTypeOK
  BY DEF Init, HistoryTypeOK
<1>4. Attempts /\ Response
  BY <1>1 DEF Init, Attempts, Response, Between, Made
<1>5. Body
  BY DEF Init, Body
<1>6. Time
  <2>1. Budget(Retries + 1, Retries) \in Nat
    BY <1>1, BudgetFacts
  <2>. QED  BY <2>1 DEF Init, Time, Between, Made
<1>. QED  BY <1>2, <1>3, <1>4, <1>5, <1>6 DEF IInv, TypeOK

-----------------------------------------------------------------------------
\* The invariant holds in every behaviour of a request, whatever the server,
\* the network and the context do.
THEOREM Invariance == Spec => []IInv
<1>1. Init => IInv
  BY Initially
<1>2. IInv /\ [Next]_vars => IInv'
  BY Steps
<1>. QED  BY <1>1, <1>2, PTL DEF Spec

\* Do makes at most MaxRetries + 1 attempts, follows only a failure or a
\* retryable status with another one, and sends the whole body each time.
THEOREM RetriesAreJustified == Spec => []RetriesJustified
<1>1. ASSUME IInv PROVE RetriesJustified
  BY <1>1 DEF IInv, TypeOK, CallTypeOK, Attempts, Body, RetriesJustified
<1>. QED  BY <1>1, Invariance, PTL

\* Do, DoStream and the deferred Close of the providers close each response
\* body once on every path.
THEOREM BodiesAreClosed == Spec => []BodiesClosed
<1>1. ASSUME IInv PROVE BodiesClosed
  BY <1>1 DEF IInv, Response, Made, BodiesClosed
<1>. QED  BY <1>1, Invariance, PTL

\* Do and the reading of its body take a timeout for every attempt and the
\* longest delay of backoff before every retry, and no longer.
THEOREM TimeIsBounded == Spec => []TimeBounded
<1>1. ASSUME IInv PROVE TimeBounded
  BY <1>1 DEF IInv, Time, Budget, MaxWait, TimeBounded
<1>. QED  BY <1>1, Invariance, PTL
=============================================================================
