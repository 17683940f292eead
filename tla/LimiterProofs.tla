--------------------------- MODULE LimiterProofs ---------------------------
(***************************************************************************)
(* Proofs about Limiter for every set of requests and every capacity.      *)
(* The inductive invariant IInv ties the channel's buffer, its queue and   *)
(* the atomics to the program points of the requests: sem counts the       *)
(* requests between their send and their receive, queue lists the blocked  *)
(* ones without repetition, and each counter counts the requests past its  *)
(* Add.  The safety properties are consequences of it.                     *)
(***************************************************************************)
EXTENDS Limiter, FiniteSetTheorems, TLAPS

\* sem is exactly the number of requests that hold a slot.
SlotsInUse == sem = Cardinality(At(Holding))

\* Each atomic counts the requests that are past its Add.
CountersExact == /\ active = Cardinality(At(Counted))
                 /\ total = Cardinality(At(Totalled))
                 /\ dropped = Cardinality(At({"rejected"}))

\* queue lists the blocked requests, each once.
QueueExact ==
    /\ \A i \in DOMAIN queue : pc[queue[i]] = "queued"
    /\ \A i, j \in DOMAIN queue : queue[i] = queue[j] => i = j
    /\ \A r \in Requests : pc[r] = "queued" => \E i \in DOMAIN queue : queue[i] = r

\* Nobody is queued while the buffer has room.
QueueOnlyWhenFull == queue # <<>> => sem = Capacity

IInv == TypeOK /\ SlotsInUse /\ CountersExact /\ QueueExact
               /\ QueueOnlyWhenFull /\ Accounting

-----------------------------------------------------------------------------
\* The requests that f maps into P.
Where(f, P) == {r \in Requests : f[r] \in P}

\* 1 for a point in P, 0 for any other.
In(v, P) == IF v \in P THEN 1 ELSE 0

\* New never makes a channel without room.
LEMMA CapacityPositive == Capacity \in Nat \ {0}
BY LimiterAssumption DEF Capacity

\* The requests at some points are a finite set, whatever the points.
LEMMA WhereFinite ==
    ASSUME NEW f, NEW P
    PROVE  IsFiniteSet(Where(f, P)) /\ Cardinality(Where(f, P)) \in Nat
<1>1. Where(f, P) \in SUBSET Requests
  BY DEF Where
<1>2. IsFiniteSet(Where(f, P))
  BY <1>1, LimiterAssumption, FS_Subset
<1>. QED  BY <1>2, FS_CardinalityType

\* One request moving to v changes the number of requests in P by at most
\* one, and says how.
LEMMA Move ==
    ASSUME NEW f \in [Requests -> Points], NEW P,
           NEW r \in Requests, NEW v \in Points,
           NEW g, g = [f EXCEPT ![r] = v]
    PROVE  Cardinality(Where(g, P)) =
             Cardinality(Where(f, P)) + In(v, P)
                                      - In(f[r], P)
<1>. DEFINE A == Where(f, P)
            B == Where(g, P)
<1>0. IsFiniteSet(A) /\ Cardinality(A) \in Nat
  BY WhereFinite
<1>1. CASE v \in P
  <2>1. B = A \cup {r}
    BY <1>1 DEF Where
  <2>2. f[r] \in P <=> r \in A
    BY DEF Where
  <2>. HIDE DEF A, B
  <2>3. Cardinality(B) = IF r \in A THEN Cardinality(A) ELSE Cardinality(A) + 1
    BY <1>0, <2>1, FS_AddElement
  <2>4. Cardinality(B) = Cardinality(A) + 1 - In(f[r], P)
    BY <1>0, <2>2, <2>3 DEF In
  <2>. QED  BY <2>4, <1>1 DEF A, B, In
<1>2. CASE v \notin P
  <2>1. B = A \ {r}
    BY <1>2 DEF Where
  <2>2. f[r] \in P <=> r \in A
    BY DEF Where
  <2>. HIDE DEF A, B
  <2>3. Cardinality(B) = IF r \in A THEN Cardinality(A) - 1 ELSE Cardinality(A)
    BY <1>0, <2>1, FS_RemoveElement
  <2>4. Cardinality(B) = Cardinality(A) + 0 - In(f[r], P)
    BY <1>0, <2>2, <2>3 DEF In
  <2>. QED  BY <2>4, <1>2 DEF A, B, In
<1>. QED  BY <1>1, <1>2

\* Move, for a step that takes request r to the point v.
LEMMA GotoCounts ==
    ASSUME TypeOK, NEW P, NEW r \in Requests, NEW v \in Points, Goto(r, v)
    PROVE  /\ Cardinality(At(P)) \in Nat
           /\ Cardinality(At(P))' = Cardinality(At(P)) + In(v, P)
                                                       - In(pc[r], P)
<1>1. At(P) = Where(pc, P) /\ At(P)' = Where(pc', P)
  BY DEF At, Where
<1>2. pc \in [Requests -> Points] /\ pc' = [pc EXCEPT ![r] = v]
  BY DEF TypeOK, Goto
<1>3. Cardinality(Where(pc', P)) =
        Cardinality(Where(pc, P)) + In(v, P)
                                  - In(pc[r], P)
  BY <1>2, Move
<1>. QED  BY <1>1, <1>3, WhereFinite

\* How the requests at the points P change when r goes to v.
Changed(P, r, v) ==
    /\ Cardinality(At(P)) \in Nat
    /\ Cardinality(At(P))' = Cardinality(At(P)) + In(v, P) - In(pc[r], P)

\* The points at which a started request is in none of the counters.
Moving == {"queued", "acquired", "counted", "givingUp"}

\* The counted sets of the invariant when r goes to v.
Counting(r, v) ==
    /\ Changed(Holding, r, v) /\ Changed(Counted, r, v) /\ Changed(Totalled, r, v)
    /\ Changed({"rejected"}, r, v) /\ Changed({"idle"}, r, v) /\ Changed(Moving, r, v)

\* Goto(r, v) changes all the counts of the invariant as Counting says.
LEMMA GotoCounting ==
    ASSUME TypeOK, NEW r \in Requests, NEW v \in Points, Goto(r, v)
    PROVE  Counting(r, v)
BY GotoCounts DEF Counting, Changed

\* The invariant's statements about counts after a step that takes r to v, if
\* the variables changed by as much as the sets they count.
LEMMA CountsKept ==
    ASSUME TypeOK, SlotsInUse, CountersExact, Accounting,
           NEW r \in Requests, NEW v \in Points, Goto(r, v),
           sem' = sem + In(v, Holding) - In(pc[r], Holding),
           active' = active + In(v, Counted) - In(pc[r], Counted),
           total' = total + In(v, Totalled) - In(pc[r], Totalled),
           dropped' = dropped + In(v, {"rejected"}) - In(pc[r], {"rejected"}),
           In(v, Totalled) + In(v, {"rejected"}) + In(v, Moving) + In(v, {"idle"})
             = In(pc[r], Totalled) + In(pc[r], {"rejected"}) + In(pc[r], Moving)
                + In(pc[r], {"idle"})
    PROVE  SlotsInUse' /\ CountersExact' /\ Accounting'
<1>1. Counting(r, v)
  BY GotoCounting
<1>2. \A P, x : In(x, P) \in {0, 1}
  BY DEF In
<1>3. SlotsInUse' /\ CountersExact'
  BY <1>1 DEF SlotsInUse, CountersExact, Counting, Changed
<1>4. Accounting'
  <2>. DEFINE m == Cardinality(At(Moving))
              i == Cardinality(At({"idle"}))
              n == Cardinality(Requests)
  <2>1. n \in Nat
    BY LimiterAssumption, FS_CardinalityType
  <2>2. (Accounting <=> total + dropped + m = n - i)
        /\ (Accounting' <=> total' + dropped' + m' = n - i')
    BY DEF Accounting, Moving
  <2>3. m \in Nat /\ i \in Nat /\ total \in Nat /\ dropped \in Nat
        /\ m' = m + In(v, Moving) - In(pc[r], Moving)
        /\ i' = i + In(v, {"idle"}) - In(pc[r], {"idle"})
    BY <1>1 DEF Counting, Changed, TypeOK
  <2>. HIDE DEF m, i, n
  <2>4. total + dropped + m = n - i
    BY <2>2
  <2>5. total' + dropped' + m' = n - i'
    BY <2>1, <2>3, <2>4, <1>2
  <2>. QED  BY <2>2, <2>5
<1>. QED  BY <1>3, <1>4

\* A step that moves neither into nor out of the queue leaves it exact.
LEMMA SameQueue ==
    ASSUME TypeOK, QueueExact, NEW r \in Requests, NEW v \in Points \ {"queued"},
           pc[r] # "queued", Goto(r, v), UNCHANGED queue
    PROVE  QueueExact'
BY DEF TypeOK, QueueExact, Goto

\* Without(q, i) consists of the elements of q other than the i-th, each
\* where it was or one place further on.
LEMMA WithoutProperties ==
    ASSUME NEW S, NEW q \in Seq(S), NEW i \in DOMAIN q
    PROVE  /\ Without(q, i) \in Seq(S)
           /\ DOMAIN Without(q, i) = 1..(Len(q) - 1)
           /\ \A j \in DOMAIN Without(q, i) :
                \E k \in DOMAIN q : /\ k # i /\ Without(q, i)[j] = q[k]
                                    /\ k = IF j < i THEN j ELSE j + 1
           /\ \A k \in DOMAIN q \ {i} :
                \E j \in DOMAIN Without(q, i) : Without(q, i)[j] = q[k]
<1>. DEFINE p == Without(q, i)
<1>1. /\ p \in Seq(S) /\ DOMAIN p = 1..(Len(q) - 1)
      /\ \A j \in 1..(Len(q) - 1) : p[j] = IF j < i THEN q[j] ELSE q[j + 1]
      /\ Len(q) \in Nat /\ i \in 1..Len(q) /\ DOMAIN q = 1..Len(q)
  BY DEF Without
<1>. HIDE DEF p
<1>2. ASSUME NEW j \in DOMAIN p
      PROVE  \E k \in DOMAIN q : k # i /\ p[j] = q[k] /\ k = IF j < i THEN j ELSE j + 1
  <2>1. CASE j < i
    BY <1>1, <1>2, <2>1
  <2>2. CASE ~(j < i)
    <3>1. j + 1 \in DOMAIN q /\ j + 1 # i /\ p[j] = q[j + 1]
      BY <1>1, <1>2, <2>2
    <3>. QED  BY <3>1, <2>2
  <2>. QED  BY <2>1, <2>2
<1>3. ASSUME NEW k \in DOMAIN q \ {i}
      PROVE  \E j \in DOMAIN p : p[j] = q[k]
  <2>1. CASE k < i
    BY <1>1, <1>3, <2>1
  <2>2. CASE k > i
    <3>1. k - 1 \in DOMAIN p /\ ~(k - 1 < i) /\ (k - 1) + 1 = k
      BY <1>1, <1>3, <2>2
    <3>. QED  BY <3>1, <1>1
  <2>. QED  BY <1>1, <1>3, <2>1, <2>2
<1>. QED  BY <1>1, <1>2, <1>3 DEF p

-----------------------------------------------------------------------------
\* The invariant holds of a Limiter that New has just made: an empty channel,
\* nobody queued, counters at zero.
THEOREM InitIInv == Init => IInv
<1>. SUFFICES ASSUME Init PROVE IInv
  OBVIOUS
<1>1. TypeOK
  BY CapacityPositive DEF Init, TypeOK, Points
<1>2. At(Holding) = {} /\ At(Counted) = {} /\ At(Totalled) = {} /\ At({"rejected"}) = {}
      /\ At({"queued", "acquired", "counted", "givingUp"}) = {} /\ At({"idle"}) = Requests
  BY DEF Init, At, Holding, Counted, Totalled
<1>3. Cardinality({}) = 0 /\ Cardinality(Requests) \in Nat
  BY FS_EmptySet, FS_CardinalityType, LimiterAssumption
<1>4. SlotsInUse /\ CountersExact
  BY <1>2, <1>3 DEF Init, SlotsInUse, CountersExact
<1>6. Accounting
  <2>. DEFINE moving == Cardinality(At({"queued", "acquired", "counted", "givingUp"}))
              idle   == Cardinality(At({"idle"}))
              all    == Cardinality(Requests)
  <2>1. moving = 0 /\ idle = all /\ all \in Nat /\ total = 0 /\ dropped = 0
    BY <1>2, <1>3 DEF Init
  <2>2. Accounting <=> total + dropped + moving = all - idle
    BY DEF Accounting
  <2>. QED  BY <2>1, <2>2
<1>5. QueueExact /\ QueueOnlyWhenFull
  BY DEF Init, QueueExact, QueueOnlyWhenFull
<1>. QED  BY <1>1, <1>4, <1>5, <1>6 DEF IInv

-----------------------------------------------------------------------------
\* Every step of a request preserves the invariant, one action at a time.
LEMMA StepIInv ==
    ASSUME IInv, NEW r \in Requests, Step(r)
    PROVE  IInv'
<1>. USE CapacityPositive
<1>1. CASE Send(r)
  <2>1. pc[r] = "idle" /\ Goto(r, "acquired") /\ UNCHANGED <<cancelled, queue>>
    BY <1>1 DEF Send
  <2>2. TypeOK'
    BY <2>1, <1>1 DEF IInv, TypeOK, Goto, Send, Points, Holding, counters
  <2>3. SlotsInUse' /\ CountersExact' /\ Accounting'
    BY <2>1, <1>1, CountsKept
       DEF IInv, TypeOK, Send, counters, In, Holding, Counted, Totalled, Moving, Points
  <2>4. QueueExact' /\ QueueOnlyWhenFull'
    BY <2>1, <1>1, SameQueue DEF IInv, QueueOnlyWhenFull, Points, Holding, Send, TypeOK
  <2>. QED  BY <2>2, <2>3, <2>4 DEF IInv
<1>2. CASE Block(r)
  <2>1. pc[r] = "idle" /\ Goto(r, "queued") /\ UNCHANGED <<cancelled, sem>>
        /\ sem = Capacity /\ queue' = Append(queue, r)
    BY <1>2 DEF Block
  <2>2. TypeOK'
    BY <2>1, <1>2 DEF IInv, TypeOK, Goto, Block, Points, Holding, counters
  <2>3. SlotsInUse' /\ CountersExact' /\ Accounting'
    BY <2>1, <1>2, CountsKept
       DEF IInv, TypeOK, Block, counters, In, Holding, Counted, Totalled, Moving, Points
  <2>4. QueueExact'
    <3>1. /\ pc' = [pc EXCEPT ![r] = "queued"] /\ pc \in [Requests -> Points]
          /\ queue \in Seq(Requests) /\ Len(queue) \in Nat
          /\ DOMAIN queue = 1..Len(queue) /\ DOMAIN queue' = 1..(Len(queue) + 1)
          /\ queue'[Len(queue) + 1] = r
          /\ \A i \in DOMAIN queue : queue'[i] = queue[i] /\ queue[i] \in Requests
                                     /\ queue[i] # r
      BY <2>1 DEF IInv, TypeOK, Goto, QueueExact
    <3>. QED  BY <3>1 DEF IInv, QueueExact
  <2>5. QueueOnlyWhenFull'
    BY <2>1 DEF QueueOnlyWhenFull
  <2>. QED  BY <2>2, <2>3, <2>4, <2>5 DEF IInv
<1>3. CASE GiveUp(r)
  <2>1. /\ Goto(r, "givingUp") /\ UNCHANGED <<cancelled, sem, counters>>
        /\ pc[r] \in {"idle", "queued"}
    BY <1>3 DEF GiveUp, IInv, QueueExact
  <2>2. SlotsInUse' /\ CountersExact' /\ Accounting'
    BY <2>1, CountsKept
       DEF IInv, TypeOK, counters, In, Holding, Counted, Totalled, Moving, Points
  <2>3. CASE pc[r] = "idle" /\ UNCHANGED queue
    <3>1. TypeOK'
      BY <2>1, <2>3 DEF IInv, TypeOK, Goto, Points, Holding, counters
    <3>2. QueueExact' /\ QueueOnlyWhenFull'
      BY <2>1, <2>3, SameQueue DEF IInv, QueueOnlyWhenFull, Points, Holding
    <3>. QED  BY <2>2, <3>1, <3>2 DEF IInv
  <2>4. ASSUME NEW i \in DOMAIN queue, queue[i] = r, queue' = Without(queue, i)
        PROVE  IInv'
    <3>1. /\ queue' \in Seq(Requests) /\ DOMAIN queue' = 1..(Len(queue) - 1)
          /\ \A j \in DOMAIN queue' :
                \E k \in DOMAIN queue : /\ k # i /\ queue'[j] = queue[k]
                                        /\ k = IF j < i THEN j ELSE j + 1
          /\ \A k \in DOMAIN queue \ {i} : \E j \in DOMAIN queue' : queue'[j] = queue[k]
      BY <2>4, WithoutProperties DEF IInv, TypeOK
    <3>2. TypeOK'
      BY <2>1, <3>1 DEF IInv, TypeOK, Goto, Points, Holding, counters
    <3>3. /\ pc' = [pc EXCEPT ![r] = "givingUp"] /\ pc \in [Requests -> Points]
          /\ \A k \in DOMAIN queue : queue[k] \in Requests
          /\ \A k \in DOMAIN queue \ {i} : queue[k] # r
      BY <2>1, <2>4 DEF IInv, TypeOK, Goto, QueueExact
    <3>4. \A j \in DOMAIN queue' : pc'[queue'[j]] = "queued"
      BY <3>1, <3>3 DEF IInv, QueueExact
    <3>5. ASSUME NEW j \in DOMAIN queue', NEW k \in DOMAIN queue', queue'[j] = queue'[k]
          PROVE  j = k
      <4>1. PICK a \in DOMAIN queue : queue'[j] = queue[a]
                                      /\ a = IF j < i THEN j ELSE j + 1
        BY <3>1
      <4>2. PICK b \in DOMAIN queue : queue'[k] = queue[b]
                                      /\ b = IF k < i THEN k ELSE k + 1
        BY <3>1
      <4>3. a = b
        BY <3>5, <4>1, <4>2 DEF IInv, QueueExact
      <4>4. j \in Int /\ k \in Int /\ i \in Int
        BY <2>4, <3>1 DEF IInv, TypeOK
      <4>. QED  BY <4>1, <4>2, <4>3, <4>4
    <3>6. ASSUME NEW s \in Requests, pc'[s] = "queued"
          PROVE  \E j \in DOMAIN queue' : queue'[j] = s
      <4>1. s # r /\ pc[s] = "queued"
        BY <3>3, <3>6
      <4>2. PICK k \in DOMAIN queue : queue[k] = s
        BY <4>1 DEF IInv, QueueExact
      <4>. QED  BY <2>4, <3>1, <4>1, <4>2
    <3>7. QueueOnlyWhenFull'
      BY <2>1, <2>4 DEF IInv, QueueOnlyWhenFull, TypeOK
    <3>. QED  BY <2>2, <3>2, <3>4, <3>5, <3>6, <3>7 DEF IInv, QueueExact
  <2>. QED  BY <1>3, <2>3, <2>4 DEF GiveUp
<1>4. CASE CountDropped(r)
  <2>1. pc[r] = "givingUp" /\ Goto(r, "rejected") /\ UNCHANGED <<cancelled, sem, queue>>
    BY <1>4 DEF CountDropped
  <2>2. TypeOK'
    BY <2>1, <1>4 DEF IInv, TypeOK, Goto, CountDropped, Points, Holding
  <2>3. SlotsInUse' /\ CountersExact' /\ Accounting'
    BY <2>1, <1>4, CountsKept DEF IInv, TypeOK, CountDropped, In, Holding, Counted, Totalled, Moving, Points
  <2>4. QueueExact' /\ QueueOnlyWhenFull'
    BY <2>1, SameQueue DEF IInv, QueueOnlyWhenFull, Points, Holding
  <2>. QED  BY <2>2, <2>3, <2>4 DEF IInv
<1>5. CASE CountActive(r)
  <2>1. pc[r] = "acquired" /\ Goto(r, "counted") /\ UNCHANGED <<cancelled, sem, queue>>
    BY <1>5 DEF CountActive
  <2>2. TypeOK'
    BY <2>1, <1>5 DEF IInv, TypeOK, Goto, CountActive, Points, Holding
  <2>3. SlotsInUse' /\ CountersExact' /\ Accounting'
    BY <2>1, <1>5, CountsKept DEF IInv, TypeOK, CountActive, In, Holding, Counted, Totalled, Moving, Points
  <2>4. QueueExact' /\ QueueOnlyWhenFull'
    BY <2>1, SameQueue DEF IInv, QueueOnlyWhenFull, Points, Holding
  <2>. QED  BY <2>2, <2>3, <2>4 DEF IInv
<1>6. CASE CountTotal(r)
  <2>1. pc[r] = "counted" /\ Goto(r, "serving") /\ UNCHANGED <<cancelled, sem, queue>>
    BY <1>6 DEF CountTotal
  <2>2. TypeOK'
    BY <2>1, <1>6 DEF IInv, TypeOK, Goto, CountTotal, Points, Holding
  <2>3. SlotsInUse' /\ CountersExact' /\ Accounting'
    BY <2>1, <1>6, CountsKept DEF IInv, TypeOK, CountTotal, In, Holding, Counted, Totalled, Moving, Points
  <2>4. QueueExact' /\ QueueOnlyWhenFull'
    BY <2>1, SameQueue DEF IInv, QueueOnlyWhenFull, Points, Holding
  <2>. QED  BY <2>2, <2>3, <2>4 DEF IInv
<1>7. CASE Yield(r)
  <2>1. pc[r] = "serving" /\ Goto(r, "yielding") /\ UNCHANGED <<cancelled, sem, queue>>
    BY <1>7 DEF Yield, counters
  <2>2. TypeOK'
    BY <2>1, <1>7 DEF IInv, TypeOK, Goto, Yield, Points, Holding, counters
  <2>3. SlotsInUse' /\ CountersExact' /\ Accounting'
    BY <2>1, <1>7, CountsKept DEF IInv, TypeOK, Yield, counters, In, Holding, Counted, Totalled, Moving, Points
  <2>4. QueueExact' /\ QueueOnlyWhenFull'
    BY <2>1, SameQueue DEF IInv, QueueOnlyWhenFull, Points, Holding
  <2>. QED  BY <2>2, <2>3, <2>4 DEF IInv
<1>8. CASE Resume(r)
  <2>1. pc[r] = "yielding" /\ Goto(r, "serving") /\ UNCHANGED <<cancelled, sem, queue>>
    BY <1>8 DEF Resume, counters
  <2>2. TypeOK'
    BY <2>1, <1>8 DEF IInv, TypeOK, Goto, Resume, Points, Holding, counters
  <2>3. SlotsInUse' /\ CountersExact' /\ Accounting'
    BY <2>1, <1>8, CountsKept DEF IInv, TypeOK, Resume, counters, In, Holding, Counted, Totalled, Moving, Points
  <2>4. QueueExact' /\ QueueOnlyWhenFull'
    BY <2>1, SameQueue DEF IInv, QueueOnlyWhenFull, Points, Holding
  <2>. QED  BY <2>2, <2>3, <2>4 DEF IInv
<1>9. CASE Break(r)
  <2>1. pc[r] = "yielding" /\ Goto(r, "releasing") /\ UNCHANGED <<cancelled, sem, queue>>
    BY <1>9 DEF Break, counters
  <2>2. TypeOK'
    BY <2>1, <1>9 DEF IInv, TypeOK, Goto, Break, Points, Holding, counters
  <2>3. SlotsInUse' /\ CountersExact' /\ Accounting'
    BY <2>1, <1>9, CountsKept DEF IInv, TypeOK, Break, counters, In, Holding, Counted, Totalled, Moving, Points
  <2>4. QueueExact' /\ QueueOnlyWhenFull'
    BY <2>1, SameQueue DEF IInv, QueueOnlyWhenFull, Points, Holding
  <2>. QED  BY <2>2, <2>3, <2>4 DEF IInv
<1>10. CASE Finish(r)
  <2>1. pc[r] = "serving" /\ Goto(r, "releasing") /\ UNCHANGED <<cancelled, sem, queue>>
    BY <1>10 DEF Finish, counters
  <2>2. TypeOK'
    BY <2>1, <1>10 DEF IInv, TypeOK, Goto, Finish, Points, Holding, counters
  <2>3. SlotsInUse' /\ CountersExact' /\ Accounting'
    BY <2>1, <1>10, CountsKept DEF IInv, TypeOK, Finish, counters, In, Holding, Counted, Totalled, Moving, Points
  <2>4. QueueExact' /\ QueueOnlyWhenFull'
    BY <2>1, SameQueue DEF IInv, QueueOnlyWhenFull, Points, Holding
  <2>. QED  BY <2>2, <2>3, <2>4 DEF IInv
<1>11. CASE Uncount(r)
  <2>1. pc[r] = "releasing" /\ Goto(r, "receiving") /\ UNCHANGED <<cancelled, sem, queue>>
    BY <1>11 DEF Uncount
  <2>2. TypeOK'
    BY <2>1, <1>11 DEF IInv, TypeOK, Goto, Uncount, Points, Holding
  <2>3. SlotsInUse' /\ CountersExact' /\ Accounting'
    BY <2>1, <1>11, CountsKept DEF IInv, TypeOK, Uncount, In, Holding, Counted, Totalled, Moving, Points
  <2>4. QueueExact' /\ QueueOnlyWhenFull'
    BY <2>1, SameQueue DEF IInv, QueueOnlyWhenFull, Points, Holding
  <2>. QED  BY <2>2, <2>3, <2>4 DEF IInv
<1>12. CASE Receive(r)
  <2>1. CASE queue = <<>>
    <3>1. pc[r] = "receiving" /\ Goto(r, "done") /\ sem' = sem - 1
          /\ UNCHANGED <<cancelled, queue, counters>>
      BY <1>12, <2>1 DEF Receive
    <3>2. SlotsInUse' /\ CountersExact' /\ Accounting'
      BY <3>1, CountsKept
         DEF IInv, TypeOK, counters, In, Holding, Counted, Totalled, Moving, Points
    <3>3. sem \in Nat \ {0}
      <4>1. r \in At(Holding) /\ IsFiniteSet(At(Holding))
        BY <3>1, WhereFinite DEF At, Holding, Where
      <4>. QED  BY <4>1, FS_EmptySet, FS_CardinalityType DEF IInv, SlotsInUse
    <3>4. TypeOK'
      BY <3>1, <3>3 DEF IInv, TypeOK, Goto, Points, Holding, counters
    <3>5. QueueExact' /\ QueueOnlyWhenFull'
      BY <3>1, <2>1, SameQueue DEF IInv, QueueOnlyWhenFull, Points, Holding
    <3>. QED  BY <3>2, <3>4, <3>5 DEF IInv
  <2>2. CASE queue # <<>>
    <3>. DEFINE h == Head(queue)
    <3>1. /\ pc[r] = "receiving" /\ queue' = Tail(queue)
          /\ pc' = [pc EXCEPT ![r] = "done", ![h] = "acquired"]
          /\ UNCHANGED <<cancelled, sem, counters>>
      BY <1>12, <2>2 DEF Receive
    <3>2. /\ h \in Requests /\ h = queue[1] /\ 1 \in DOMAIN queue
          /\ Len(queue) \in Nat \ {0} /\ DOMAIN queue = 1..Len(queue)
          /\ Len(Tail(queue)) = Len(queue) - 1 /\ Tail(queue) \in Seq(Requests)
          /\ \A i \in 1..(Len(queue) - 1) : Tail(queue)[i] = queue[i + 1]
          /\ \A i \in 1..Len(queue) : queue[i] \in Requests
      BY <2>2 DEF IInv, TypeOK
    <3>3. pc[h] = "queued" /\ h # r
      BY <3>1, <3>2 DEF IInv, QueueExact
    <3>4. /\ pc' \in [Requests -> Points] /\ pc \in [Requests -> Points]
          /\ pc'[r] = "done" /\ pc'[h] = "acquired"
          /\ \A s \in Requests \ {r, h} : pc'[s] = pc[s]
      BY <3>1, <3>2, <3>3 DEF IInv, TypeOK, Points, Holding
    <3>5. TypeOK'
      BY <3>1, <3>2, <3>4 DEF IInv, TypeOK, Points, Holding, counters
    <3>6. ASSUME NEW P
          PROVE  /\ Cardinality(At(P)) \in Nat
                 /\ Cardinality(At(P))' = Cardinality(At(P))
                      + In("done", P) - In("receiving", P)
                      + In("acquired", P) - In("queued", P)
      <4>. HIDE DEF h
      <4>1. "done" \in Points /\ "acquired" \in Points
        BY DEF Points, Holding
      <4>2. PICK mid : mid = [pc EXCEPT ![r] = "done"]
        OBVIOUS
      <4>3. mid \in [Requests -> Points] /\ pc' = [mid EXCEPT ![h] = "acquired"]
        BY <3>1, <3>3, <3>4, <4>1, <4>2
      <4>4. mid[h] = "queued"
        BY <3>2, <3>3, <3>4, <4>2
      <4>5. pc \in [Requests -> Points]
        BY <3>4
      <4>6. h \in Requests
        BY <3>2
      <4>7. Cardinality(Where(mid, P)) =
              Cardinality(Where(pc, P)) + In("done", P) - In(pc[r], P)
        BY <4>1, <4>2, <4>5, Move
      <4>8. Cardinality(Where(pc', P)) =
               Cardinality(Where(mid, P)) + In("acquired", P) - In(mid[h], P)
        BY <4>1, <4>3, <4>6, Move
      <4>9. At(P) = Where(pc, P) /\ At(P)' = Where(pc', P)
        BY DEF At, Where
      <4>10. Cardinality(Where(pc, P)) \in Nat
        BY WhereFinite
      <4>11. \A x : In(x, P) \in {0, 1}
        BY DEF In
      <4>. QED  BY <3>1, <4>9, <4>10, <4>11, <4>4, <4>7, <4>8
    <3>7. SlotsInUse' /\ CountersExact'
      <4>1. /\ Cardinality(At(Holding))' = Cardinality(At(Holding))
            /\ Cardinality(At(Counted))' = Cardinality(At(Counted))
            /\ Cardinality(At(Totalled))' = Cardinality(At(Totalled))
            /\ Cardinality(At({"rejected"}))' = Cardinality(At({"rejected"}))
        BY <3>6 DEF In, Holding, Counted, Totalled
      <4>. QED  BY <3>1, <4>1 DEF IInv, SlotsInUse, CountersExact, counters
    <3>8. Accounting'
      <4>1. /\ Cardinality(At(Moving))' = Cardinality(At(Moving))
            /\ Cardinality(At({"idle"}))' = Cardinality(At({"idle"}))
        BY <3>6 DEF In, Moving
      <4>. QED  BY <3>1, <4>1 DEF IInv, Accounting, Moving, counters
    <3>9. QueueExact'
      <4>. HIDE DEF h
      <4>1. DOMAIN queue' = 1..(Len(queue) - 1)
            /\ \A i \in DOMAIN queue' : queue'[i] = queue[i + 1] /\ i + 1 \in DOMAIN queue
        BY <3>1, <3>2
      <4>2. \A i \in DOMAIN queue' : queue'[i] # h /\ queue'[i] # r
        BY <3>1, <3>2, <3>3, <4>1 DEF IInv, QueueExact
      <4>3. \A i \in DOMAIN queue' : pc'[queue'[i]] = "queued"
        BY <3>2, <3>4, <4>1, <4>2 DEF IInv, QueueExact
      <4>4. \A i, j \in DOMAIN queue' : queue'[i] = queue'[j] => i = j
        BY <3>2, <4>1 DEF IInv, QueueExact
      <4>5. ASSUME NEW s \in Requests, pc'[s] = "queued"
            PROVE  \E i \in DOMAIN queue' : queue'[i] = s
        <5>1. s # r /\ s # h /\ pc[s] = "queued"
          BY <3>4, <4>5
        <5>2. PICK k \in DOMAIN queue : queue[k] = s
          BY <5>1 DEF IInv, QueueExact
        <5>3. k # 1
          BY <3>2, <5>1, <5>2
        <5>4. k - 1 \in DOMAIN queue' /\ (k - 1) + 1 = k
          BY <3>2, <4>1, <5>2, <5>3
        <5>. QED  BY <4>1, <5>2, <5>4
      <4>. QED  BY <4>3, <4>4, <4>5 DEF QueueExact
    <3>10. QueueOnlyWhenFull'
      BY <2>2, <3>1 DEF IInv, QueueOnlyWhenFull
    <3>. QED  BY <3>5, <3>7, <3>8, <3>9, <3>10 DEF IInv
  <2>. QED  BY <2>1, <2>2
<1>. QED  BY <1>1, <1>2, <1>3, <1>4, <1>5, <1>6, <1>7, <1>8, <1>9, <1>10, <1>11,
             <1>12 DEF Step

\* IInv is an invariant of the limiter.
THEOREM Invariance == Spec => []IInv
<1>1. IInv /\ [Next]_vars => IInv'
  <2>. SUFFICES ASSUME IInv, [Next]_vars PROVE IInv'
    OBVIOUS
  <2>1. ASSUME NEW r \in Requests, Cancel(r) PROVE IInv'
    BY <2>1 DEF Cancel, counters, IInv, TypeOK, SlotsInUse, CountersExact, QueueExact,
                QueueOnlyWhenFull, Accounting, At
  <2>2. ASSUME NEW r \in Requests, Step(r) PROVE IInv'
    BY <2>2, StepIInv
  <2>3. CASE UNCHANGED vars
    BY <2>3 DEF vars, IInv, TypeOK, SlotsInUse, CountersExact, QueueExact,
                QueueOnlyWhenFull, Accounting, At
  <2>. QED  BY <2>1, <2>2, <2>3 DEF Next
<1>. QED  BY <1>1, InitIInv, PTL DEF Spec

-----------------------------------------------------------------------------
(***************************************************************************)
(* The safety properties of Limiter.                                       *)
(***************************************************************************)
\* The invariant implies what WithRateLimit and Stats rely on, state by state.
LEMMA IInvConsequences ==
    ASSUME IInv
    PROVE  SlotBound /\ WorkConserving /\ ActiveWithinSlots /\ NoSlotLeak
<1>1. /\ IsFiniteSet(At(Holding)) /\ Cardinality(At(Holding)) \in Nat
      /\ Cardinality(At(Counted)) \in Nat
  <2>1. At(Holding) = Where(pc, Holding) /\ At(Counted) = Where(pc, Counted)
    BY DEF At, Where
  <2>. QED  BY <2>1, WhereFinite
<1>2. SlotBound
  BY CapacityPositive DEF IInv, SlotsInUse, TypeOK, SlotBound
<1>3. WorkConserving
  BY DEF IInv, SlotsInUse, QueueOnlyWhenFull, WorkConserving
<1>4. ActiveWithinSlots
  <2>1. At(Counted) \in SUBSET At(Holding)
    BY DEF At, Counted, Holding
  <2>2. Cardinality(At(Counted)) <= Cardinality(At(Holding))
    BY <1>1, <2>1, FS_Subset
  <2>. QED  BY <1>1, <2>2 DEF IInv, SlotsInUse, CountersExact, ActiveWithinSlots
<1>5. NoSlotLeak
  <2>. SUFFICES ASSUME At(Points \ ({"idle"} \cup Ended)) = {}
                PROVE  sem = 0 /\ active = 0
    BY DEF NoSlotLeak
  <2>1. At(Holding) = {} /\ At(Counted) = {}
    BY DEF At, Points, Holding, Counted, Ended
  <2>. QED  BY <2>1, FS_EmptySet DEF IInv, SlotsInUse, CountersExact
<1>. QED  BY <1>2, <1>3, <1>4, <1>5

\* Every variable keeps its type; in particular the channel never holds more
\* values than its capacity.
THEOREM TypeCorrect == Spec => []TypeOK
<1>1. IInv => TypeOK
  BY DEF IInv
<1>. QED  BY <1>1, Invariance, PTL

\* WithRateLimit admits at most Capacity requests at once.
THEOREM SlotBoundHolds == Spec => []SlotBound
BY IInvConsequences, Invariance, PTL

\* A request is queued only while every slot is held.
THEOREM WorkConservingHolds == Spec => []WorkConserving
BY IInvConsequences, Invariance, PTL

\* Stats().Active stays between zero and the slots in use.
THEOREM ActiveWithinSlotsHolds == Spec => []ActiveWithinSlots
BY IInvConsequences, Invariance, PTL

\* Every way out of GenerateContent gives the slot back.
THEOREM NoSlotLeakHolds == Spec => []NoSlotLeak
BY IInvConsequences, Invariance, PTL

\* Each request that started is served, dropped or on its way, once.
THEOREM AccountingHolds == Spec => []Accounting
<1>1. IInv => Accounting
  BY DEF IInv
<1>. QED  BY <1>1, Invariance, PTL

\* A slot handed on goes to the request that has waited longest.
THEOREM FirstComeFirstServedHolds == Spec => FirstComeFirstServed
<1>. DEFINE Fifo == \A i, j \in DOMAIN queue :
                       (i < j /\ pc'[queue[j]] = "acquired") => pc'[queue[i]] # "queued"
<1>1. ASSUME IInv, [Next]_vars PROVE Fifo
  <2>. SUFFICES ASSUME NEW i \in DOMAIN queue, NEW j \in DOMAIN queue, i < j,
                       pc'[queue[j]] = "acquired"
                PROVE  pc'[queue[i]] # "queued"
    OBVIOUS
  <2>1. /\ pc[queue[j]] = "queued" /\ queue[j] \in Requests /\ queue[i] \in Requests
        /\ queue[i] # queue[j] /\ pc \in [Requests -> Points]
        /\ i \in Int /\ i >= 1
    BY <1>1 DEF IInv, QueueExact, TypeOK
  <2>2. PICK r \in Requests : Receive(r)
    <3>1. \A r \in Requests :
            \/ Send(r) \/ Block(r) \/ GiveUp(r) \/ CountDropped(r) \/ CountActive(r)
            \/ CountTotal(r) \/ Yield(r) \/ Resume(r) \/ Break(r) \/ Finish(r) \/ Uncount(r)
            => pc'[queue[j]] # "acquired"
      BY <2>1 DEF Goto, Send, Block, GiveUp, CountDropped, CountActive, CountTotal,
                  Yield, Resume, Break, Finish, Uncount
    <3>2. \A r \in Requests : Cancel(r) => pc' = pc
      BY DEF Cancel
    <3>3. UNCHANGED vars => pc' = pc
      BY DEF vars
    <3>. QED  BY <1>1, <2>1, <3>1, <3>2, <3>3 DEF Next, Step
  <2>3. Head(queue) = queue[1] /\ 1 \in DOMAIN queue /\ Head(queue) \in Requests
        /\ pc' = [pc EXCEPT ![r] = "done", ![Head(queue)] = "acquired"] /\ r # queue[j]
    BY <1>1, <2>1, <2>2 DEF Receive, Goto, IInv, TypeOK
  <2>4. Head(queue) = queue[j]
    BY <2>1, <2>3
  <2>5. j = 1
    BY <1>1, <2>3, <2>4 DEF IInv, QueueExact
  <2>. QED  BY <2>1, <2>5
<1>. QED  BY <1>1, Invariance, PTL DEF Spec, FirstComeFirstServed

\* A request keeps its slot until it returns it; one that was turned away
\* stays so.
THEOREM RejectedNeverServedHolds == Spec => RejectedNeverServed
<1>. DEFINE Kept(r) == /\ pc[r] \in Holding => pc'[r] \in Holding \cup {"done"}
                       /\ pc[r] \in {"givingUp", "rejected"} =>
                            pc'[r] \in {"givingUp", "rejected"}
<1>1. ASSUME IInv, [Next]_vars, NEW s \in Requests PROVE Kept(s)
  <2>1. pc \in [Requests -> Points]
    BY <1>1 DEF IInv, TypeOK
  <2>2. ASSUME NEW r \in Requests, Step(r) PROVE Kept(s)
    <3>1. GiveUp(r) => pc[r] \in {"idle", "queued"}
      BY <1>1 DEF GiveUp, IInv, QueueExact
    <3>2. CASE Receive(r)
      <4>1. queue # <<>> => pc[Head(queue)] = "queued" /\ Head(queue) \in Requests
        BY <1>1 DEF IInv, TypeOK, QueueExact
      <4>2. pc[r] = "receiving" /\ (pc' = [pc EXCEPT ![r] = "done"]
              \/ (queue # <<>> /\ pc' = [pc EXCEPT ![r] = "done", ![Head(queue)] = "acquired"]))
        BY <3>2 DEF Receive, Goto
      <4>. QED  BY <2>1, <4>1, <4>2 DEF Holding
    <3>. QED  BY <2>1, <2>2, <3>1, <3>2
              DEF Step, Goto, Send, Block, GiveUp, CountDropped, CountActive, CountTotal,
                  Yield, Resume, Break, Finish, Uncount, Holding
  <2>. QED  BY <1>1, <2>2 DEF Next, Cancel, vars
<1>2. IInv /\ [Next]_vars => \A r \in Requests : Kept(r)
  BY <1>1
<1>. QED  BY <1>2, Invariance, PTL DEF Spec, RejectedNeverServed

-----------------------------------------------------------------------------
(***************************************************************************)
(* Refinement: place[r] changes only when r sends, gives up or receives.   *)
(***************************************************************************)
\* A step of the limiter is a step of the semaphore or leaves it unchanged.
LEMMA StepRefines ==
    ASSUME IInv, [Next]_vars
    PROVE  [Abstract!Next]_([r \in Requests |-> Place(r)])
<1>. DEFINE place == [r \in Requests |-> Place(r)]
<1>1. /\ pc \in [Requests -> Points]
      /\ \A q \in Requests : place[q] = Place(q)
      /\ place' = [q \in Requests |-> Place(q)']
  BY DEF IInv, TypeOK
<1>2. Abstract!InsideSet = At(Holding)
  BY <1>1 DEF Abstract!InsideSet, At, Place, Holding
<1>3. ASSUME NEW r \in Requests, Send(r) PROVE Abstract!Enter(r)
  <2>1. Cardinality(At(Holding)) < Capacity
    BY <1>3 DEF Send, IInv, SlotsInUse
  <2>2. place[r] = "outside" /\ place' = [place EXCEPT ![r] = "inside"]
    BY <1>1, <1>3 DEF Send, Goto, Place, Holding
  <2>3. Abstract!Cardinality(Abstract!InsideSet) = Cardinality(Abstract!InsideSet)
    BY DEF Abstract!Cardinality, Cardinality
  <2>. QED  BY <1>2, <2>1, <2>2, <2>3 DEF Abstract!Enter
<1>4. ASSUME NEW r \in Requests, GiveUp(r) PROVE Abstract!Refuse(r)
  <2>1. pc[r] \in {"idle", "queued"}
    BY <1>4 DEF GiveUp, IInv, QueueExact
  <2>2. place[r] = "outside" /\ place' = [place EXCEPT ![r] = "refused"]
    BY <1>1, <1>4, <2>1 DEF GiveUp, Goto, Place, Holding
  <2>. QED  BY <2>2 DEF Abstract!Refuse
<1>5. ASSUME NEW r \in Requests, Receive(r)
      PROVE  Abstract!Leave(r) \/ \E w \in Requests : Abstract!HandOver(r, w)
  <2>1. CASE queue = <<>>
    <3>1. place[r] = "inside" /\ place' = [place EXCEPT ![r] = "left"]
      BY <1>1, <1>5, <2>1 DEF Receive, Goto, Place, Holding
    <3>. QED  BY <3>1 DEF Abstract!Leave
  <2>2. CASE queue # <<>>
    <3>1. pc[Head(queue)] = "queued" /\ Head(queue) \in Requests
      BY <2>2 DEF IInv, TypeOK, QueueExact
    <3>2. PICK w \in Requests : w = Head(queue)
      BY <3>1
    <3>3. pc[w] = "queued" /\ pc[r] = "receiving"
          /\ pc' = [pc EXCEPT ![r] = "done", ![w] = "acquired"]
      BY <1>5, <2>2, <3>1, <3>2 DEF Receive
    <3>4. place[r] = "inside" /\ place[w] = "outside"
          /\ place' = [place EXCEPT ![r] = "left", ![w] = "inside"]
      BY <1>1, <3>3 DEF Place, Holding
    <3>. QED  BY <3>4 DEF Abstract!HandOver
  <2>. QED  BY <2>1, <2>2
<1>6. ASSUME NEW r \in Requests,
             \/ Cancel(r) \/ Block(r) \/ CountDropped(r) \/ CountActive(r) \/ CountTotal(r)
             \/ Yield(r) \/ Resume(r) \/ Break(r) \/ Finish(r) \/ Uncount(r)
      PROVE  UNCHANGED place
  <2>1. \A s \in Requests : Place(s)' = Place(s)
    BY <1>1, <1>6 DEF Cancel, Block, CountDropped, CountActive, CountTotal, Yield, Resume,
                      Break, Finish, Uncount, Goto, Place, Holding
  <2>. QED  BY <1>1, <2>1
<1>7. UNCHANGED vars => UNCHANGED place
  BY DEF vars, Place
<1>. QED  BY <1>3, <1>4, <1>5, <1>6, <1>7 DEF Next, Step, Abstract!Next

\* The limiter implements the abstract semaphore with Capacity slots.
THEOREM Refinement == Spec => ImplementsSemaphore
<1>1. Init => Abstract!Init
  BY DEF Init, Abstract!Init, Place, Holding
<1>. QED  BY <1>1, StepRefines, Invariance, PTL DEF Spec, ImplementsSemaphore, Abstract!Spec
=============================================================================
