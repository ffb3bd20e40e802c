--------------------------- MODULE HttpClientProofs ---------------------------
(* Proofs about the HTTP client, for any callers, permits and answers. *)
EXTENDS HttpClient, FiniteSetTheorems, SequenceTheorems, TLAPS

Waits == {"queued", "woken", "requesting", "sleeping"}

(* The callers that hold a permit once c has gone on to `next`. *)
HoldersAfter(c, next) ==
    IF next = "requesting" THEN Holders \cup {c} ELSE Holders \ {c}

(* Handing a permit on: whoever leaves its await, if the permits it leaves   *)
(* and those held afterwards add up, they still do when one of them has been *)
(* reserved for the first waiter, and no wake-up is missed.                  *)
LEMMA WakeUpKeepsInv ==
    ASSUME IInv, NEW c \in Caller, NEW permits \in Nat,
           NEW next \in {"idle", "requesting", "sleeping", "cancelled"},
           pc[c] # "queued",
           permits + Cardinality(HoldersAfter(c, next)) = Permits,
           WakeUpNext(c, next, permits)
    PROVE  /\ pc' \in [Caller -> Waits \cup {"idle", "cancelled"}]
           /\ free' \in 0 .. Permits /\ queue' \in Seq(Caller)
           /\ PermitsConserved' /\ QueueMatches' /\ NoMissedWakeup'
<1> DEFINE K == HoldersAfter(c, next)
<1>1. IsFiniteSet(K) /\ Cardinality(K) \in Nat
  <2>1. K \subseteq Caller
    BY DEF HoldersAfter, Holders
  <2>2. QED
    BY <2>1, HttpAssumption, FS_Subset, FS_CardinalityType
<1>2. \A i \in 1 .. Len(queue) : queue[i] # c /\ queue[i] \in Caller /\ pc[queue[i]] = "queued"
  BY DEF IInv, TypeOK, QueueMatches
<1>3. CASE permits > 0 /\ queue # <<>>
  <2> DEFINE h == Head(queue)
  <2>1. /\ h = queue[1] /\ h \in Caller /\ h # c /\ pc[h] = "queued"
        /\ Len(queue) \in Nat \ {0} /\ Len(queue') = Len(queue) - 1
        /\ \A i \in 1 .. Len(queue') : queue'[i] = queue[i + 1]
        /\ queue' \in Seq(Caller)
    <3>1. queue \in Seq(Caller) /\ queue # <<>> /\ queue' = Tail(queue)
      BY <1>3 DEF WakeUpNext, IInv, TypeOK
    <3>2. Len(queue) \in Nat \ {0} /\ h = queue[1]
      BY <3>1
    <3>3. queue' \in Seq(Caller) /\ Len(queue') = Len(queue) - 1
      BY <3>1
    <3>4. \A i \in 1 .. Len(queue') : queue'[i] = queue[i + 1]
      BY <3>1, <3>2, <3>3
    <3>5. h \in Caller /\ h # c /\ pc[h] = "queued"
      BY <3>2, <1>2
    <3>6. QED
      BY <3>2, <3>3, <3>4, <3>5
  <2>2. pc' = [pc EXCEPT ![c] = next, ![h] = "woken"] /\ free' = permits - 1
    BY <1>3 DEF WakeUpNext
  <2>3. pc' \in [Caller -> Waits \cup {"idle", "cancelled"}]
    BY <2>1, <2>2 DEF IInv, TypeOK, Waits
  <2>4. free' \in 0 .. Permits /\ PermitsConserved'
    <3>1. h \notin K
      BY <2>1 DEF HoldersAfter, Holders
    <3>2. Holders' = K \cup {h}
      BY <2>1, <2>2 DEF HoldersAfter, Holders, IInv, TypeOK
    <3>3. Cardinality(Holders') = Cardinality(K) + 1
      BY <3>1, <3>2, <1>1, FS_AddElement
    <3>4. QED
      BY <3>3, <2>2, <1>1, <1>3, HttpAssumption DEF PermitsConserved
  <2>5. QueueMatches'
    <3>1. ASSUME NEW i \in 1 .. Len(queue'), NEW j \in 1 .. Len(queue'), queue'[i] = queue'[j]
          PROVE  i = j
      <4>1. i + 1 \in 1 .. Len(queue) /\ j + 1 \in 1 .. Len(queue) /\ queue[i + 1] = queue[j + 1]
        BY <2>1, <3>1
      <4>2. QED
        BY <4>1 DEF IInv, QueueMatches
    <3>2. ASSUME NEW d \in Caller, pc'[d] = "queued"
          PROVE  \E i \in 1 .. Len(queue') : queue'[i] = d
      <4>1. d # c /\ d # h /\ pc[d] = "queued"
        BY <3>2, <2>1, <2>2 DEF IInv, TypeOK
      <4>2. PICK i \in 1 .. Len(queue) : queue[i] = d
        BY <4>1 DEF IInv, QueueMatches
      <4>3. i - 1 \in 1 .. Len(queue')
        BY <4>1, <4>2, <2>1
      <4>4. queue'[i - 1] = d
        BY <4>2, <4>3, <2>1
      <4>5. QED
        BY <4>3, <4>4
    <3>3. ASSUME NEW i \in 1 .. Len(queue') PROVE pc'[queue'[i]] = "queued"
      <4>1. i + 1 \in 1 .. Len(queue) /\ queue'[i] = queue[i + 1] /\ 1 \in 1 .. Len(queue)
        BY <2>1
      <4>2. queue[i + 1] # queue[1]
        BY <4>1 DEF IInv, QueueMatches
      <4>3. QED
        BY <4>1, <4>2, <1>2, <2>1, <2>2 DEF IInv, TypeOK
    <3>4. QED
      BY <3>1, <3>2, <3>3 DEF QueueMatches
  <2>6. NoMissedWakeup'
    BY <2>1, <2>2, <2>3 DEF NoMissedWakeup, Woken, IInv, TypeOK
  <2>7. QED
    BY <2>1, <2>3, <2>4, <2>5, <2>6
<1>4. CASE permits = 0 \/ queue = <<>>
  <2>1. pc' = [pc EXCEPT ![c] = next] /\ free' = permits /\ queue' = queue
    BY <1>4 DEF WakeUpNext, IInv, TypeOK
  <2>2. pc' \in [Caller -> Waits \cup {"idle", "cancelled"}]
    BY <2>1 DEF IInv, TypeOK, Waits
  <2>3. Holders' = K
    BY <2>1 DEF HoldersAfter, Holders, IInv, TypeOK
  <2>4. free' \in 0 .. Permits /\ PermitsConserved'
    BY <2>1, <2>3, <1>1, HttpAssumption DEF PermitsConserved
  <2>5. QueueMatches'
    BY <2>1, <1>2 DEF QueueMatches, IInv, TypeOK
  <2>6. NoMissedWakeup'
    BY <2>1, <1>4 DEF NoMissedWakeup
  <2>7. QED
    BY <2>1, <2>2, <2>4, <2>5, <2>6 DEF IInv, TypeOK
<1>5. QED
  BY <1>3, <1>4 DEF WakeUpNext

(* A caller that holds a permit leaves with it. *)
LEMMA LeavingKeepsInv ==
    ASSUME IInv, NEW c \in Caller, pc[c] \in {"requesting", "woken"},
           NEW next \in {"idle", "sleeping", "cancelled"},
           WakeUpNext(c, next, free + 1)
    PROVE  /\ pc' \in [Caller -> Waits \cup {"idle", "cancelled"}]
           /\ free' \in 0 .. Permits /\ queue' \in Seq(Caller)
           /\ PermitsConserved' /\ QueueMatches' /\ NoMissedWakeup'
<1>1. Holders \subseteq Caller /\ c \in Holders /\ HoldersAfter(c, next) = Holders \ {c}
  BY DEF Holders, HoldersAfter
<1>2. IsFiniteSet(Holders) /\ Cardinality(Holders) \in Nat
  BY <1>1, HttpAssumption, FS_Subset, FS_CardinalityType
<1>3. Cardinality(HoldersAfter(c, next)) = Cardinality(Holders) - 1
  BY <1>1, <1>2, FS_RemoveElement
<1>4. free + 1 \in Nat /\ free + 1 + Cardinality(HoldersAfter(c, next)) = Permits
  BY <1>2, <1>3 DEF IInv, TypeOK, PermitsConserved
<1>5. QED
  BY <1>4, WakeUpKeepsInv

(* The first of the queue is a caller that waits. *)
LEMMA QueueHead ==
    ASSUME IInv, queue # <<>>
    PROVE  Head(queue) \in Caller /\ pc[Head(queue)] = "queued"
<1>1. queue \in Seq(Caller) /\ Head(queue) = queue[1] /\ 1 \in 1 .. Len(queue)
  BY DEF IInv, TypeOK
<1>2. QED
  BY <1>1 DEF IInv, QueueMatches

(* Coming to the semaphore: the permit that is taken leaves `free`, and      *)
(* whoever queues beside a free permit does so behind a woken waiter.        *)
LEMMA AcquireKeepsInv ==
    ASSUME IInv, NEW c \in Caller, pc[c] \in {"idle", "sleeping"}, Acquire(c)
    PROVE  /\ pc' \in [Caller -> Waits \cup {"idle", "cancelled"}]
           /\ free' \in 0 .. Permits /\ queue' \in Seq(Caller)
           /\ PermitsConserved' /\ QueueMatches' /\ NoMissedWakeup'
<1>1. IsFiniteSet(Holders) /\ Cardinality(Holders) \in Nat
  <2>1. Holders \subseteq Caller
    BY DEF Holders
  <2>2. QED
    BY <2>1, HttpAssumption, FS_Subset, FS_CardinalityType
<1>2. c \notin Holders /\ free \in 0 .. Permits /\ Permits \in Nat
  BY HttpAssumption DEF Holders, IInv, TypeOK
<1>3. CASE free > 0 /\ queue = <<>> /\ Woken = {}
  <2>1. free' = free - 1 /\ pc' = [pc EXCEPT ![c] = "requesting"] /\ queue' = queue
    BY <1>3 DEF Acquire
  <2>2. Holders' = Holders \cup {c}
    BY <2>1 DEF Holders, IInv, TypeOK
  <2>3. Cardinality(Holders') = Cardinality(Holders) + 1
    BY <2>2, <1>1, <1>2, FS_AddElement
  <2>4. free' \in 0 .. Permits /\ PermitsConserved'
    BY <2>1, <2>3, <1>1, <1>2, <1>3 DEF PermitsConserved, IInv
  <2>5. QueueMatches'
    BY <2>1 DEF QueueMatches, IInv, TypeOK
  <2>6. NoMissedWakeup'
    BY <2>1, <1>3 DEF NoMissedWakeup
  <2>7. QED
    BY <2>1, <2>4, <2>5, <2>6 DEF IInv, TypeOK, Waits
<1>4. CASE free = 0 \/ queue # <<>> \/ Woken # {}
  <2>1. /\ free' = free /\ pc' = [pc EXCEPT ![c] = "queued"]
        /\ queue \in Seq(Caller) /\ queue' = Append(queue, c)
    BY <1>4 DEF Acquire, IInv, TypeOK
  <2>2. Holders' = Holders /\ Woken' = Woken
    BY <2>1, <1>2 DEF Holders, Woken, IInv, TypeOK
  <2>3. free' \in 0 .. Permits /\ PermitsConserved'
    BY <2>1, <2>2 DEF PermitsConserved, IInv, TypeOK
  <2>4. /\ Len(queue) \in Nat /\ Len(queue') = Len(queue) + 1
        /\ \A i \in 1 .. Len(queue) : queue'[i] = queue[i] /\ queue[i] # c
        /\ queue'[Len(queue) + 1] = c
    BY <2>1 DEF IInv, QueueMatches, TypeOK
  <2>5. QueueMatches'
    <3>1. ASSUME NEW i \in 1 .. Len(queue'), NEW j \in 1 .. Len(queue'), queue'[i] = queue'[j]
          PROVE  i = j
      BY <3>1, <2>4 DEF IInv, QueueMatches
    <3>2. ASSUME NEW d \in Caller
          PROVE  pc'[d] = "queued" <=> \E i \in 1 .. Len(queue') : queue'[i] = d
      <4>1. CASE d = c
        BY <4>1, <2>1, <2>4 DEF IInv, TypeOK
      <4>2. CASE d # c
        <5>1. pc'[d] = pc[d]
          BY <4>2, <2>1 DEF IInv, TypeOK
        <5>2. (\E i \in 1 .. Len(queue) : queue[i] = d)
                <=> (\E i \in 1 .. Len(queue') : queue'[i] = d)
          BY <4>2, <2>4
        <5>3. QED
          BY <5>1, <5>2 DEF IInv, QueueMatches
      <4>3. QED
        BY <4>1, <4>2
    <3>3. QED
      BY <3>1, <3>2 DEF QueueMatches
  <2>6. NoMissedWakeup'
    BY <2>1, <2>2, <1>4 DEF NoMissedWakeup, IInv
  <2>7. QED
    BY <2>1, <2>3, <2>5, <2>6 DEF IInv, TypeOK, Waits
<1>5. QED
  BY <1>3, <1>4 DEF Acquire

-----------------------------------------------------------------------------
LEMMA InitIInv == Init => IInv
<1> SUFFICES ASSUME Init PROVE IInv
  OBVIOUS
<1>1. TypeOK
  BY HttpAssumption DEF Init, TypeOK
<1>2. Holders = {}
  BY DEF Init, Holders
<1>3. PermitsConserved
  BY <1>2, FS_EmptySet, HttpAssumption DEF Init, PermitsConserved
<1>4. QueueMatches /\ NoMissedWakeup /\ RetryPolicy /\ AttemptsCounted
  BY DEF Init, QueueMatches, NoMissedWakeup, RetryPolicy, AttemptsCounted
<1>5. QED
  BY <1>1, <1>3, <1>4 DEF IInv

(* What RemoveAt leaves, index by index. *)
LEMMA RemoveAtIndex ==
    ASSUME NEW s \in Seq(Caller), NEW k \in 1 .. Len(s)
    PROVE  /\ RemoveAt(s, k) \in Seq(Caller) /\ Len(RemoveAt(s, k)) = Len(s) - 1
           /\ \A i \in 1 .. Len(s) - 1 :
                /\ i < k => RemoveAt(s, k)[i] = s[i]
                /\ i >= k => RemoveAt(s, k)[i] = s[i + 1]
<1> DEFINE n == Len(s)
           before == SubSeq(s, 1, k - 1)
           after == SubSeq(s, k + 1, n)
<1>1. n \in Nat /\ k \in 1 .. n
  OBVIOUS
<1>2. before \in Seq(Caller) /\ Len(before) = k - 1 /\ \A i \in 1 .. k - 1 : before[i] = s[i]
  BY <1>1
<1>3. after \in Seq(Caller) /\ Len(after) = n - k /\ \A i \in 1 .. n - k : after[i] = s[k + i]
  BY <1>1
<1>4. RemoveAt(s, k) = before \o after
  BY DEF RemoveAt
<1> HIDE DEF before, after
<1>5. /\ before \o after \in Seq(Caller)
      /\ Len(before \o after) = Len(before) + Len(after)
      /\ \A i \in 1 .. Len(before) + Len(after) : (before \o after)[i] =
            IF i <= Len(before) THEN before[i] ELSE after[i - Len(before)]
  BY <1>2, <1>3, ConcatProperties, Zenon
<1>6. Len(before) + Len(after) = n - 1
  BY <1>1, <1>2, <1>3
<1>7. RemoveAt(s, k) \in Seq(Caller) /\ Len(RemoveAt(s, k)) = n - 1
  BY <1>4, <1>5, <1>6
<1>8. ASSUME NEW i \in 1 .. n - 1
      PROVE  /\ i < k => RemoveAt(s, k)[i] = s[i]
             /\ i >= k => RemoveAt(s, k)[i] = s[i + 1]
  <2>1. RemoveAt(s, k)[i] = IF i <= k - 1 THEN before[i] ELSE after[i - (k - 1)]
    BY <1>2, <1>4, <1>5, <1>6
  <2>2. CASE i < k
    BY <2>1, <2>2, <1>1, <1>2
  <2>3. CASE i >= k
    <3>1. i - (k - 1) \in 1 .. n - k /\ k + (i - (k - 1)) = i + 1
      BY <2>3, <1>1
    <3>2. QED
      BY <2>1, <2>3, <3>1, <1>1, <1>3
  <2>4. QED
    BY <2>2, <2>3, <1>1
<1>9. QED
  BY <1>7, <1>8

(* A waiter that is cancelled leaves the queue, the others keep their order. *)
LEMMA RemoveKeepsQueue ==
    ASSUME IInv, NEW c \in Caller, pc[c] = "queued",
           NEW k \in 1 .. Len(queue), queue[k] = c, queue' = RemoveAt(queue, k),
           pc' = [pc EXCEPT ![c] = "cancelled"]
    PROVE  QueueMatches' /\ queue' \in Seq(Caller) /\ Len(queue') < Len(queue)
<1> DEFINE n == Len(queue)
           old(i) == IF i < k THEN i ELSE i + 1
<1>1. queue \in Seq(Caller) /\ n \in Nat /\ k \in 1 .. n
  BY DEF IInv, TypeOK
<1>2. /\ queue' \in Seq(Caller) /\ Len(queue') = n - 1
      /\ \A i \in 1 .. n - 1 :
           /\ i < k => queue'[i] = queue[i]
           /\ i >= k => queue'[i] = queue[i + 1]
  BY <1>1, RemoveAtIndex
<1>3. \A i \in 1 .. n - 1 : old(i) \in 1 .. n /\ old(i) # k /\ queue'[i] = queue[old(i)]
  <2>1. TAKE i \in 1 .. n - 1
  <2>2. CASE i < k
    BY <2>2, <1>1, <1>2
  <2>3. CASE i >= k
    BY <2>3, <1>1, <1>2
  <2>4. QED
    BY <2>2, <2>3, <1>1
<1>4. \A i, j \in 1 .. Len(queue') : queue'[i] = queue'[j] => i = j
  BY <1>1, <1>2, <1>3 DEF IInv, QueueMatches
<1>5. ASSUME NEW d \in Caller
      PROVE  pc'[d] = "queued" <=> \E i \in 1 .. Len(queue') : queue'[i] = d
  <2>1. CASE d = c
    <3>1. ASSUME NEW i \in 1 .. Len(queue'), queue'[i] = c PROVE FALSE
      <4>1. old(i) \in 1 .. n /\ old(i) # k /\ queue[old(i)] = queue[k]
        BY <3>1, <1>2, <1>3
      <4>2. QED
        BY <4>1, <1>1 DEF IInv, QueueMatches
    <3>2. QED
      BY <2>1, <3>1 DEF IInv, TypeOK
  <2>2. CASE d # c
    <3>1. pc'[d] = pc[d]
      BY <2>2 DEF IInv, TypeOK
    <3>2. ASSUME NEW j \in 1 .. n, queue[j] = d
          PROVE  \E i \in 1 .. Len(queue') : queue'[i] = d
      <4>1. j # k
        BY <3>2, <2>2
      <4>2. CASE j < k
        <5>1. j \in 1 .. n - 1 /\ old(j) = j
          BY <4>2, <1>1
        <5>2. QED
          BY <5>1, <3>2, <1>2, <1>3
      <4>3. CASE j > k
        <5>1. j - 1 \in 1 .. n - 1 /\ old(j - 1) = j
          BY <4>3, <1>1
        <5>2. queue'[j - 1] = d
          BY <5>1, <3>2, <1>3
        <5>3. QED
          BY <5>1, <5>2, <1>2
      <4>4. QED
        BY <4>1, <4>2, <4>3, <1>1
    <3>3. ASSUME NEW i \in 1 .. Len(queue'), queue'[i] = d
          PROVE  \E j \in 1 .. n : queue[j] = d
      BY <3>3, <1>2, <1>3
    <3>4. pc[d] = "queued" <=> \E j \in 1 .. n : queue[j] = d
      BY DEF IInv, QueueMatches
    <3>5. QED
      BY <3>1, <3>2, <3>3, <3>4
  <2>3. QED
    BY <2>1, <2>2
<1>6. QED
  BY <1>1, <1>2, <1>4, <1>5 DEF QueueMatches

-----------------------------------------------------------------------------
LEMMA StepIInv == IInv /\ [Next]_vars => IInv'
<1> SUFFICES ASSUME IInv, [Next]_vars PROVE IInv'
  OBVIOUS
<1>0. Permits \in Nat /\ free \in 0 .. Permits /\ IsFiniteSet(Holders)
      /\ Cardinality(Holders) \in Nat /\ Answers \subseteq Answer
  <2>1. Holders \subseteq Caller
    BY DEF Holders
  <2>2. QED
    BY <2>1, HttpAssumption, FS_Subset, FS_CardinalityType DEF IInv, TypeOK
<1>1. ASSUME NEW c \in Caller, Call(c) PROVE IInv'
  <2>1. /\ pc' \in [Caller -> Waits \cup {"idle", "cancelled"}]
        /\ free' \in 0 .. Permits /\ queue' \in Seq(Caller)
        /\ PermitsConserved' /\ QueueMatches' /\ NoMissedWakeup'
    BY <1>1, AcquireKeepsInv DEF Call
  <2>2. pc'[c] \in {"requesting", "queued"} /\ \A d \in Caller \ {c} : pc'[d] = pc[d]
    BY <1>1 DEF Call, Acquire, IInv, TypeOK
  <2>3. TypeOK'
    <3>1. attempt' \in [Caller -> 0 .. 2] /\ answers' \in [Caller -> Seq(Answers)]
      BY <1>1 DEF Call, TypeOK, IInv
    <3>2. outcome' \in [Caller -> {"none", "returned", "failed", "raised"}]
      BY <1>1 DEF Call, TypeOK, IInv
    <3>3. QED
      BY <3>1, <3>2, <2>1 DEF TypeOK, Waits
  <2>4. RetryPolicy' /\ AttemptsCounted'
    <3>1. /\ answers'[c] = <<>> /\ outcome'[c] = "none" /\ attempt'[c] = 0
          /\ \A d \in Caller \ {c} : /\ answers'[d] = answers[d] /\ outcome'[d] = outcome[d]
                                      /\ attempt'[d] = attempt[d]
      BY <1>1 DEF Call, IInv, TypeOK
    <3>2. RetryPolicy'
      BY <3>1 DEF RetryPolicy, IInv
    <3>3. AttemptsCounted'
      BY <3>1, <2>2 DEF AttemptsCounted, IInv
    <3>4. QED
      BY <3>2, <3>3
  <2>5. QED
    BY <2>1, <2>3, <2>4 DEF IInv
<1>2. ASSUME NEW c \in Caller, BackoffDone(c) PROVE IInv'
  <2>1. /\ pc' \in [Caller -> Waits \cup {"idle", "cancelled"}]
        /\ free' \in 0 .. Permits /\ queue' \in Seq(Caller)
        /\ PermitsConserved' /\ QueueMatches' /\ NoMissedWakeup'
    BY <1>2, AcquireKeepsInv DEF BackoffDone
  <2>2. pc'[c] \in {"requesting", "queued"} /\ \A d \in Caller \ {c} : pc'[d] = pc[d]
    BY <1>2 DEF BackoffDone, Acquire, IInv, TypeOK
  <2>3. attempt[c] < 2 /\ attempt'[c] = attempt[c] + 1
        /\ \A d \in Caller \ {c} : attempt'[d] = attempt[d]
    BY <1>2 DEF BackoffDone, IInv, TypeOK, AttemptsCounted
  <2>4. TypeOK'
    <3>1. attempt[c] + 1 \in 0 .. 2
      <4>1. attempt[c] \in 0 .. 2 /\ attempt[c] < 2
        BY <2>3 DEF TypeOK, IInv
      <4>2. QED
        BY <4>1
    <3>2. attempt' \in [Caller -> 0 .. 2]
      BY <3>1, <1>2 DEF BackoffDone, TypeOK, IInv
    <3>3. UNCHANGED <<answers, outcome>>
      BY <1>2 DEF BackoffDone
    <3>4. QED
      BY <3>2, <3>3, <2>1 DEF TypeOK, IInv, Waits
  <2>5. RetryPolicy'
    BY <1>2 DEF BackoffDone, RetryPolicy, IInv
  <2>6. AttemptsCounted'
    BY <1>2, <2>2, <2>3 DEF BackoffDone, AttemptsCounted, IInv
  <2>7. QED
    BY <2>1, <2>4, <2>5, <2>6 DEF IInv
<1>3. ASSUME NEW c \in Caller, Resume(c) PROVE IInv'
  <2>1. HoldersAfter(c, "requesting") = Holders /\ pc[c] # "queued"
    BY <1>3 DEF Resume, HoldersAfter, Holders
  <2>2. /\ pc' \in [Caller -> Waits \cup {"idle", "cancelled"}]
        /\ free' \in 0 .. Permits /\ queue' \in Seq(Caller)
        /\ PermitsConserved' /\ QueueMatches' /\ NoMissedWakeup'
    <3>1. free + Cardinality(HoldersAfter(c, "requesting")) = Permits /\ free \in Nat
      BY <2>1, <1>0 DEF IInv, PermitsConserved
    <3>2. QED
      BY <3>1, <2>1, <1>3, WakeUpKeepsInv DEF Resume
  <2>3. TypeOK' /\ RetryPolicy'
    BY <1>3, <2>2 DEF Resume, TypeOK, IInv, Waits, RetryPolicy
  <2>4. \A d \in Caller : pc'[d] = pc[d] \/ (d = c /\ pc'[d] = "requesting")
                           \/ (pc[d] = "queued" /\ pc'[d] = "woken")
    BY <1>3, QueueHead DEF Resume, WakeUpNext, IInv, TypeOK
  <2>5. AttemptsCounted'
    BY <1>3, <2>4 DEF Resume, AttemptsCounted, IInv
  <2>6. QED
    BY <2>2, <2>3, <2>5 DEF IInv
<1>4. ASSUME NEW c \in Caller, NEW a \in Answers, Answered(c, a) PROVE IInv'
  <2>1. PICK next \in {"sleeping", "idle"} :
          /\ WakeUpNext(c, next, free + 1)
          /\ next = "sleeping" => a \in Retryable /\ MayRetry(c) /\ outcome' = outcome
          /\ next = "idle" => /\ a \notin Retryable \/ ~MayRetry(c)
                             /\ outcome' = [outcome EXCEPT ![c] =
                                   IF a = "ok" THEN "returned"
                                   ELSE IF a = "broken" THEN "raised" ELSE "failed"]
    BY <1>4 DEF Answered, LeaveRequest
  <2>2. /\ pc[c] = "requesting" /\ attempt' = attempt
        /\ answers' = [answers EXCEPT ![c] = Append(@, a)]
    BY <1>4 DEF Answered
  <2>3. /\ pc' \in [Caller -> Waits \cup {"idle", "cancelled"}]
        /\ free' \in 0 .. Permits /\ queue' \in Seq(Caller)
        /\ PermitsConserved' /\ QueueMatches' /\ NoMissedWakeup'
    BY <2>1, <2>2, <1>0, LeavingKeepsInv
  <2>4. \A d \in Caller : (d = c /\ pc'[d] = next)
                           \/ (d # c /\ pc'[d] = pc[d])
                           \/ (d # c /\ pc[d] = "queued" /\ pc'[d] = "woken")
    BY <2>1, <2>2, QueueHead DEF WakeUpNext, IInv, TypeOK
  <2>5. /\ answers[c] \in Seq(Answers) /\ Len(answers[c]) = attempt[c] /\ attempt[c] \in 0 .. 2
        /\ outcome[c] = "none"
        /\ \A i \in 1 .. Len(answers[c]) : answers[c][i] \in {"busy", "lost", "unusable"}
    BY <2>2 DEF IInv, TypeOK, AttemptsCounted, RetryPolicy
  <2>6. /\ answers'[c] = Append(answers[c], a) /\ answers'[c] \in Seq(Answers)
        /\ \A d \in Caller \ {c} : answers'[d] = answers[d] /\ outcome'[d] = outcome[d]
    BY <2>1, <2>2, <2>5 DEF IInv, TypeOK
  <2>7. /\ Len(answers'[c]) = attempt[c] + 1 /\ answers'[c][attempt[c] + 1] = a
        /\ \A i \in 1 .. attempt[c] : answers'[c][i] \in {"busy", "lost", "unusable"}
    BY <2>5, <2>6
  <2>8. TypeOK'
    <3>1. outcome' \in [Caller -> {"none", "returned", "failed", "raised"}]
      BY <2>1 DEF IInv, TypeOK
    <3>2. answers' \in [Caller -> Seq(Answers)]
      BY <2>2, <2>6 DEF IInv, TypeOK
    <3>3. QED
      BY <3>1, <3>2, <2>2, <2>3 DEF IInv, TypeOK, Waits
  <2>9. RetryPolicy'
    <3>1. CASE next = "sleeping"
      <4>1. outcome'[c] = "none" /\ attempt[c] < 2 /\ a \in {"busy", "lost", "unusable"}
        BY <3>1, <2>1, <2>5 DEF MayRetry, Retryable
      <4>2. QED
        BY <4>1, <2>5, <2>6, <2>7 DEF IInv, RetryPolicy
    <3>2. CASE next = "idle"
      <4>1. outcome'[c] = IF a = "ok" THEN "returned"
                          ELSE IF a = "broken" THEN "raised" ELSE "failed"
        BY <3>2, <2>1 DEF IInv, TypeOK
      <4>2. outcome'[c] # "none"
            /\ (outcome'[c] = "failed" => a = "refused" \/ attempt[c] = 2)
            /\ (outcome'[c] = "returned" => a = "ok")
        BY <4>1, <3>2, <2>1, <2>5, <1>0 DEF MayRetry, Retryable, Answer
      <4>3. Len(answers'[c]) <= 3 /\ answers'[c] # <<>>
            /\ answers'[c][Len(answers'[c])] = a
        <5>1. attempt[c] + 1 <= 3 /\ attempt[c] + 1 # 0
          BY <2>5
        <5>2. answers'[c] # <<>>
          BY <5>1, <2>7
        <5>3. QED
          BY <5>1, <5>2, <2>7
      <4>4. outcome'[c] = "failed" => a = "refused" \/ Len(answers'[c]) = 3
        BY <4>2, <2>7
      <4>5. \A i \in 1 .. Len(answers'[c]) :
              i < Len(answers'[c]) => answers'[c][i] \in {"busy", "lost", "unusable"}
        BY <2>5, <2>7
      <4>6. QED
        <5> SUFFICES ASSUME NEW d \in Caller
                     PROVE  /\ Len(answers'[d]) <= 3
                            /\ \A i \in 1 .. Len(answers'[d]) :
                                 i < Len(answers'[d]) \/ outcome'[d] = "none"
                                   => answers'[d][i] \in {"busy", "lost", "unusable"}
                            /\ outcome'[d] = "failed"
                                 => \/ answers'[d][Len(answers'[d])] = "refused"
                                    \/ Len(answers'[d]) = 3
                            /\ outcome'[d] = "returned"
                                 => /\ answers'[d] # <<>>
                                    /\ answers'[d][Len(answers'[d])] = "ok"
          BY DEF RetryPolicy
        <5>1. CASE d = c
          BY <5>1, <4>2, <4>3, <4>4, <4>5
        <5>2. CASE d # c
          BY <5>2, <2>6 DEF IInv, RetryPolicy
        <5>3. QED
          BY <5>1, <5>2
    <3>3. QED
      BY <3>1, <3>2
  <2>10. AttemptsCounted'
    <3>1. next = "sleeping" => outcome'[c] = "none" /\ attempt[c] < 2
      BY <2>1, <2>5 DEF MayRetry
    <3>2. QED
      BY <3>1, <2>2, <2>4, <2>6, <2>7 DEF AttemptsCounted, IInv
  <2>11. QED
    BY <2>3, <2>8, <2>9, <2>10 DEF IInv
<1>5. ASSUME NEW c \in Caller, Cancel(c) PROVE IInv'
  <2>0. UNCHANGED <<attempt, answers, outcome>> /\ RetryPolicy'
    BY <1>5 DEF Cancel, IInv, RetryPolicy
  <2>1. CASE pc[c] \in {"requesting", "woken"} /\ WakeUpNext(c, "cancelled", free + 1)
    <3>1. /\ pc' \in [Caller -> Waits \cup {"idle", "cancelled"}]
          /\ free' \in 0 .. Permits /\ queue' \in Seq(Caller)
          /\ PermitsConserved' /\ QueueMatches' /\ NoMissedWakeup'
      BY <2>1, <1>0, LeavingKeepsInv
    <3>2. \A d \in Caller : (d = c /\ pc'[d] = "cancelled") \/ pc'[d] = pc[d]
                             \/ (pc[d] = "queued" /\ pc'[d] = "woken")
      BY <2>1, QueueHead DEF WakeUpNext, IInv, TypeOK
    <3>3. TypeOK'
      BY <3>1, <2>0 DEF IInv, TypeOK, Waits
    <3>4. AttemptsCounted'
      BY <3>2, <2>0, <2>1 DEF AttemptsCounted, IInv
    <3>5. QED
      BY <3>1, <3>3, <3>4, <2>0 DEF IInv
  <2>2. CASE pc[c] \in {"queued", "sleeping"}
    <3>1. pc' = [pc EXCEPT ![c] = "cancelled"] /\ free' = free
      BY <2>2, <1>5 DEF Cancel
    <3>2. Holders' = Holders /\ Woken' = Woken
      BY <2>2, <3>1 DEF Holders, Woken, IInv, TypeOK
    <3>3. /\ QueueMatches' /\ queue' \in Seq(Caller)
          /\ Len(queue') <= Len(queue)
      <4>1. CASE pc[c] = "queued"
        <5>1. PICK k \in 1 .. Len(queue) : queue[k] = c /\ queue' = RemoveAt(queue, k)
          BY <4>1, <1>5 DEF Cancel
        <5>2. QueueMatches' /\ queue' \in Seq(Caller) /\ Len(queue') < Len(queue)
          BY <4>1, <5>1, <3>1, RemoveKeepsQueue
        <5>3. QED
          BY <5>2 DEF IInv, TypeOK
      <4>2. CASE pc[c] = "sleeping"
        <5>1. queue' = queue
          BY <4>2, <1>5 DEF Cancel
        <5>2. QED
          BY <4>2, <5>1, <3>1 DEF IInv, TypeOK, QueueMatches
      <4>3. QED
        BY <4>1, <4>2, <2>2
    <3>4. PermitsConserved'
      BY <3>1, <3>2 DEF IInv, PermitsConserved
    <3>5. NoMissedWakeup'
      <4>1. queue' # <<>> => queue # <<>>
        BY <3>3 DEF IInv, TypeOK
      <4>2. QED
        BY <4>1, <3>1, <3>2 DEF IInv, NoMissedWakeup
    <3>6. TypeOK'
      BY <3>1, <3>3, <2>0 DEF IInv, TypeOK
    <3>7. AttemptsCounted'
      BY <3>1, <2>0, <2>2 DEF IInv, TypeOK, AttemptsCounted
    <3>8. QED
      BY <3>3, <3>4, <3>5, <3>6, <3>7, <2>0 DEF IInv
  <2>3. QED
    BY <2>1, <2>2, <1>5 DEF Cancel
<1>6. CASE UNCHANGED vars
  <2>1. Holders' = Holders /\ Woken' = Woken
    BY <1>6 DEF vars, Holders, Woken
  <2>2. QED
    BY <1>6, <2>1 DEF vars, IInv, TypeOK, PermitsConserved, QueueMatches,
                      NoMissedWakeup, RetryPolicy, AttemptsCounted
<1>7. QED
  BY <1>1, <1>2, <1>3, <1>4, <1>5, <1>6 DEF Next, Progress

THEOREM IInvHolds == Spec => []IInv
BY InitIInv, StepIInv, PTL DEF Spec

(* Type correctness of the client.                                           *)
THEOREM TypeCorrect == Spec => []TypeOK
<1>1. IInv => TypeOK
  BY DEF IInv
<1>2. QED
  BY IInvHolds, <1>1, PTL

(* For any number of callers and permits: whatever answers, exceptions and   *)
(* cancellations end the requests, no permit is lost and none is made up.    *)
THEOREM NoPermitIsLost == Spec => []PermitsConserved
<1>1. IInv => PermitsConserved
  BY DEF IInv
<1>2. QED
  BY IInvHolds, <1>1, PTL

Requesting == {c \in Caller : pc[c] = "requesting"}

(* What max_concurrency is for: no more than so many requests are under way, *)
(* whatever cancellations and wake-ups fall between them.                    *)
THEOREM ConcurrencyBounded == Spec => [](Cardinality(Requesting) <= Permits)
<1>1. IInv => Cardinality(Requesting) <= Permits
  <2> SUFFICES ASSUME IInv PROVE Cardinality(Requesting) <= Permits
    OBVIOUS
  <2>1. Requesting \subseteq Holders /\ Holders \subseteq Caller
    BY DEF Requesting, Holders
  <2>2. IsFiniteSet(Holders) /\ Cardinality(Holders) \in Nat
    BY <2>1, HttpAssumption, FS_Subset, FS_CardinalityType
  <2>3. Cardinality(Requesting) <= Cardinality(Holders) /\ Cardinality(Requesting) \in Nat
    BY <2>1, <2>2, FS_Subset, FS_CardinalityType
  <2>4. QED
    BY <2>2, <2>3, HttpAssumption DEF IInv, TypeOK, PermitsConserved
<1>2. QED
  BY IInvHolds, <1>1, PTL

(* The queue of the semaphore is the callers that wait, each once.           *)
THEOREM QueueIsTheWaiting == Spec => []QueueMatches
<1>1. IInv => QueueMatches
  BY DEF IInv
<1>2. QED
  BY IInvHolds, <1>1, PTL

(* A caller waits beside a free permit only behind a woken one.              *)
THEOREM WakeupsNotMissed == Spec => []NoMissedWakeup
<1>1. IInv => NoMissedWakeup
  BY DEF IInv
<1>2. QED
  BY IInvHolds, <1>1, PTL

(* request_json keeps the retry policy of docs/API_REFERENCE.md.             *)
THEOREM RetriesFollowPolicy == Spec => []RetryPolicy
<1>1. IInv => RetryPolicy
  BY DEF IInv
<1>2. QED
  BY IInvHolds, <1>1, PTL

-----------------------------------------------------------------------------
(* What a step does to those who do not take it: at most, the first of the   *)
(* queue is woken.                                                           *)
LEMMA WakeUpMoves ==
    ASSUME IInv, NEW c \in Caller, pc[c] # "queued",
           NEW next, NEW permits, WakeUpNext(c, next, permits)
    PROVE  /\ pc'[c] = next
           /\ \A d \in Caller \ {c} :
                pc'[d] = pc[d] \/ (pc[d] = "queued" /\ pc'[d] = "woken" /\ Head(queue) = d)
           /\ queue' = queue \/ (queue # <<>> /\ queue' = Tail(queue))
<1>1. CASE permits > 0 /\ queue # <<>>
  <2>1. Head(queue) \in Caller /\ pc[Head(queue)] = "queued"
    BY <1>1, QueueHead
  <2>2. queue' = Tail(queue) /\ pc' = [pc EXCEPT ![c] = next, ![Head(queue)] = "woken"]
    BY <1>1 DEF WakeUpNext
  <2>3. QED
    BY <1>1, <2>1, <2>2 DEF IInv, TypeOK
<1>2. CASE permits = 0 \/ queue = <<>>
  BY <1>2 DEF WakeUpNext, IInv, TypeOK
<1>3. QED
  BY <1>1, <1>2 DEF WakeUpNext

LEMMA AcquireMoves ==
    ASSUME IInv, NEW c \in Caller, Acquire(c)
    PROVE  /\ pc'[c] \in {"requesting", "queued"}
           /\ \A d \in Caller \ {c} : pc'[d] = pc[d]
           /\ queue' = queue \/ queue' = Append(queue, c)
BY DEF Acquire, IInv, TypeOK

(* The steps a caller still needs, at most: the awaits of the attempt it is  *)
(* in, and four for each attempt after it.                                   *)
Awaits(place) ==
    CASE place = "queued"     -> 4
      [] place = "woken"      -> 3
      [] place = "requesting" -> 2
      [] place = "sleeping"   -> 1
      [] OTHER                -> 0

CallLeft(c) ==
    IF pc[c] \in Waits THEN 4 * (2 - attempt[c]) + Awaits(pc[c]) ELSE 0

(* Each step of a caller brings the end of its call nearer, and no step of   *)
(* another, no permit taken in between and no cancellation puts it off.      *)
CallsAdvance ==
    \A c \in Caller :
        /\ CallLeft(c) \in 0 .. 12
        /\ Progress(c) => CallLeft(c)' < CallLeft(c)
        /\ Call(c) \/ CallLeft(c)' <= CallLeft(c)

(* A progress step of c. *)
LEMMA ProgressAdvances ==
    ASSUME IInv, NEW c \in Caller, Progress(c)
    PROVE  CallLeft(c)' < CallLeft(c)
<1> USE DEF IInv, TypeOK, CallLeft, Awaits, Waits
<1>0. attempt[c] \in 0 .. 2 /\ MayRetry(c) <=> attempt[c] < 2
  BY DEF MayRetry
<1>1. CASE Resume(c)
  <2>1. pc'[c] = "requesting" /\ pc[c] = "woken" /\ attempt' = attempt
    BY <1>1, WakeUpMoves DEF Resume
  <2>2. QED
    BY <2>1, <1>0
<1>2. CASE BackoffDone(c)
  <2>1. pc'[c] \in {"requesting", "queued"} /\ pc[c] = "sleeping" /\ attempt'[c] = attempt[c] + 1
    BY <1>2, AcquireMoves DEF BackoffDone
  <2>2. QED
    BY <2>1, <1>0
<1>3. ASSUME NEW a \in Answers, Answered(c, a)
      PROVE  CallLeft(c)' < CallLeft(c)
  <2>1. pc'[c] \in {"sleeping", "idle"} /\ pc[c] = "requesting" /\ attempt' = attempt
    <3>1. PICK next \in {"sleeping", "idle"} : WakeUpNext(c, next, free + 1)
      BY <1>3 DEF Answered, LeaveRequest
    <3>2. pc[c] = "requesting" /\ attempt' = attempt
      BY <1>3 DEF Answered
    <3>3. pc'[c] = next
      BY <3>1, <3>2, WakeUpMoves
    <3>4. QED
      BY <3>2, <3>3
  <2>2. QED
    BY <2>1, <1>0
<1>4. QED
  BY <1>1, <1>2, <1>3 DEF Progress

(* A step of another caller, and a cancellation. *)
LEMMA OthersDoNotDelay ==
    ASSUME IInv, NEW c \in Caller, NEW d \in Caller, d # c,
           Call(d) \/ Progress(d) \/ Cancel(d)
    PROVE  /\ attempt'[c] = attempt[c]
           /\ pc'[c] = pc[c] \/ (pc[c] = "queued" /\ pc'[c] = "woken" /\ Head(queue) = c)
<1>1. attempt'[c] = attempt[c]
  BY DEF IInv, TypeOK, Call, Progress, Resume, BackoffDone, Answered, Cancel
<1>2. CASE Acquire(d)
  BY <1>1, <1>2, AcquireMoves
<1>3. ASSUME pc[d] # "queued", NEW next, NEW permits, WakeUpNext(d, next, permits)
      PROVE  pc'[c] = pc[c] \/ (pc[c] = "queued" /\ pc'[c] = "woken" /\ Head(queue) = c)
  BY <1>3, WakeUpMoves
<1>4. CASE pc' = [pc EXCEPT ![d] = "cancelled"]
  BY <1>1, <1>4 DEF IInv, TypeOK
<1>5. QED
  BY <1>1, <1>2, <1>3, <1>4 DEF Call, Progress, Resume, BackoffDone, Answered, LeaveRequest, Cancel

LEMMA CancelEnds ==
    ASSUME IInv, NEW c \in Caller, Cancel(c)
    PROVE  pc'[c] = "cancelled"
<1>1. CASE pc[c] \in {"requesting", "woken"} /\ WakeUpNext(c, "cancelled", free + 1)
  BY <1>1, WakeUpMoves
<1>2. CASE pc' = [pc EXCEPT ![c] = "cancelled"]
  BY <1>2 DEF IInv, TypeOK
<1>3. QED
  BY <1>1, <1>2 DEF Cancel

LEMMA StepAdvances ==
    IInv /\ [Next]_vars => CallsAdvance
<1> SUFFICES ASSUME IInv, [Next]_vars, NEW c \in Caller
             PROVE  /\ CallLeft(c) \in 0 .. 12
                    /\ Progress(c) => CallLeft(c)' < CallLeft(c)
                    /\ Call(c) \/ CallLeft(c)' <= CallLeft(c)
  BY DEF CallsAdvance
<1>0. attempt[c] \in 0 .. 2
  BY DEF IInv, TypeOK
<1>1. CallLeft(c) \in 0 .. 12
  BY <1>0 DEF CallLeft, Awaits, Waits
<1>2. CASE Progress(c)
  <2>1. attempt'[c] \in 0 .. 2
    BY StepIInv DEF IInv, TypeOK
  <2>2. CallLeft(c)' \in 0 .. 12
    BY <2>1 DEF CallLeft, Awaits, Waits
  <2>3. CallLeft(c)' < CallLeft(c)
    BY <1>2, ProgressAdvances
  <2>4. QED
    BY <2>2, <2>3, <1>1
<1>3. CASE Cancel(c)
  <2>1. CallLeft(c)' = 0
    BY <1>3, CancelEnds DEF CallLeft, Waits
  <2>2. QED
    BY <1>1, <1>2, <2>1
<1>4. ASSUME NEW d \in Caller, d # c, Call(d) \/ Progress(d) \/ Cancel(d)
      PROVE  CallLeft(c)' <= CallLeft(c)
  <2>1. /\ attempt'[c] = attempt[c]
        /\ pc'[c] = pc[c] \/ (pc[c] = "queued" /\ pc'[c] = "woken")
    BY <1>4, OthersDoNotDelay
  <2>2. QED
    BY <2>1, <1>0 DEF CallLeft, Awaits, Waits
<1>5. CASE UNCHANGED vars
  <2>1. CallLeft(c)' = CallLeft(c)
    BY <1>5 DEF vars, CallLeft
  <2>2. QED
    BY <1>1, <1>2, <2>1
<1>6. QED
  BY <1>1, <1>2, <1>3, <1>4, <1>5 DEF Next

(* The safety half of CallEnds: a call of request_json has at most twelve    *)
(* steps left wherever it is, each of them leaves fewer, and whatever other  *)
(* callers do never leaves more.                                             *)
THEOREM CallsRunOut == Spec => [][CallsAdvance]_vars
BY IInvHolds, StepAdvances, PTL DEF Spec

(* The callers in front of c in the queue. *)
Ahead(c) ==
    {d \in Caller : \E i, j \in 1 .. Len(queue) : i < j /\ queue[i] = d /\ queue[j] = c}

(* Nobody overtakes a caller that waits: whoever is in front of it was there *)
(* before, it leaves the queue as its head or because it is cancelled, and   *)
(* only who was woken before gets a permit past it.                          *)
NobodyOvertakes ==
    \A c \in Caller : pc[c] = "queued" =>
        /\ \/ pc'[c] = "queued" /\ Ahead(c)' \subseteq Ahead(c)
           \/ pc'[c] = "woken" /\ Head(queue) = c
           \/ Cancel(c)
        /\ \A d \in Caller : pc'[d] = "requesting" => pc[d] \in {"woken", "requesting"}

(* What a step may do to the queue while c stays in it. *)
LEMMA QueueMoves ==
    ASSUME IInv, [Next]_vars, NEW c \in Caller
    PROVE  \/ queue' = queue
           \/ queue # <<>> /\ queue' = Tail(queue)
           \/ \E d \in Caller : pc[d] # "queued" /\ queue' = Append(queue, d)
           \/ \E k \in 1 .. Len(queue) : queue' = RemoveAt(queue, k)
<1>1. ASSUME NEW d \in Caller, pc[d] # "queued", Acquire(d)
      PROVE  queue' = queue \/ queue' = Append(queue, d)
  BY <1>1, AcquireMoves
<1>2. ASSUME NEW d \in Caller, pc[d] # "queued", NEW next, NEW permits,
             WakeUpNext(d, next, permits)
      PROVE  queue' = queue \/ (queue # <<>> /\ queue' = Tail(queue))
  BY <1>2, WakeUpMoves
<1>3. ASSUME NEW d \in Caller, Call(d) \/ BackoffDone(d)
      PROVE  queue' = queue \/ queue' = Append(queue, d)
  BY <1>1, <1>3 DEF Call, BackoffDone
<1>4. ASSUME NEW d \in Caller, Resume(d) \/ \E a \in Answers : Answered(d, a)
      PROVE  queue' = queue \/ (queue # <<>> /\ queue' = Tail(queue))
  BY <1>2, <1>4 DEF Resume, Answered, LeaveRequest
<1>5. ASSUME NEW d \in Caller, Cancel(d)
      PROVE  \/ queue' = queue
             \/ queue # <<>> /\ queue' = Tail(queue)
             \/ \E k \in 1 .. Len(queue) : queue' = RemoveAt(queue, k)
  BY <1>2, <1>5 DEF Cancel
<1>6. ASSUME NEW d \in Caller, Call(d) \/ BackoffDone(d)
      PROVE  pc[d] # "queued"
  BY <1>6 DEF Call, BackoffDone
<1>7. QED
  BY <1>3, <1>4, <1>5, <1>6 DEF Next, Progress, vars

(* The order of those who stay is the order they had. *)
LEMMA AheadShrinks ==
    ASSUME IInv, [Next]_vars, NEW c \in Caller, pc[c] = "queued"
    PROVE  Ahead(c)' \subseteq Ahead(c)
<1> SUFFICES ASSUME NEW x \in Caller,
                    NEW i \in 1 .. Len(queue'), NEW j \in 1 .. Len(queue'),
                    i < j, queue'[i] = x, queue'[j] = c
             PROVE  \E a, b \in 1 .. Len(queue) : a < b /\ queue[a] = x /\ queue[b] = c
  BY DEF Ahead
<1>0. queue \in Seq(Caller) /\ Len(queue) \in Nat
  BY DEF IInv, TypeOK
<1>1. CASE queue' = queue
  BY <1>1
<1>2. CASE queue # <<>> /\ queue' = Tail(queue)
  <2>1. /\ i + 1 \in 1 .. Len(queue) /\ queue'[i] = queue[i + 1]
        /\ j + 1 \in 1 .. Len(queue) /\ queue'[j] = queue[j + 1]
    BY <1>0, <1>2
  <2>2. QED
    BY <2>1
<1>3. ASSUME NEW d \in Caller, pc[d] # "queued", queue' = Append(queue, d)
      PROVE  \E a, b \in 1 .. Len(queue) : a < b /\ queue[a] = x /\ queue[b] = c
  <2>1. /\ Len(queue') = Len(queue) + 1 /\ queue'[Len(queue) + 1] = d
        /\ \A k \in 1 .. Len(queue) : queue'[k] = queue[k]
    BY <1>0, <1>3
  <2>2. d # c
    BY <1>3
  <2>3. j # Len(queue) + 1
    BY <2>1, <2>2
  <2>4. i \in 1 .. Len(queue) /\ j \in 1 .. Len(queue)
    BY <2>1, <2>3, <1>0
  <2>5. QED
    BY <2>1, <2>4
<1>4. ASSUME NEW k \in 1 .. Len(queue), queue' = RemoveAt(queue, k)
      PROVE  \E a, b \in 1 .. Len(queue) : a < b /\ queue[a] = x /\ queue[b] = c
  <2> DEFINE old(n) == IF n < k THEN n ELSE n + 1
  <2>0. /\ Len(queue') = Len(queue) - 1
        /\ \A n \in 1 .. Len(queue) - 1 :
             /\ n < k => queue'[n] = queue[n]
             /\ n >= k => queue'[n] = queue[n + 1]
    BY <1>0, <1>4, RemoveAtIndex
  <2>1. old(i) \in 1 .. Len(queue) /\ queue'[i] = queue[old(i)]
    <3>1. CASE i < k
      BY <3>1, <2>0, <1>0
    <3>2. CASE i >= k
      BY <3>2, <2>0, <1>0
    <3>3. QED
      BY <3>1, <3>2
  <2>2. old(j) \in 1 .. Len(queue) /\ queue'[j] = queue[old(j)]
    <3>1. CASE j < k
      BY <3>1, <2>0, <1>0
    <3>2. CASE j >= k
      BY <3>2, <2>0, <1>0
    <3>3. QED
      BY <3>1, <3>2
  <2>3. old(i) < old(j)
    OBVIOUS
  <2>4. QED
    BY <2>1, <2>2, <2>3
<1>5. QED
  BY <1>1, <1>2, <1>3, <1>4, QueueMoves

(* While somebody waits, a permit is taken by a woken caller only. *)
LEMMA PermitsGoToTheWoken ==
    ASSUME IInv, [Next]_vars, queue # <<>>,
           NEW d \in Caller, pc'[d] = "requesting"
    PROVE  pc[d] \in {"woken", "requesting"}
<1>1. ASSUME Call(d) \/ BackoffDone(d) PROVE FALSE
  <2>1. Acquire(d)
    BY <1>1 DEF Call, BackoffDone
  <2>2. pc' = [pc EXCEPT ![d] = "queued"]
    BY <2>1 DEF Acquire
  <2>3. QED
    BY <2>2 DEF IInv, TypeOK
<1>2. Resume(d) \/ (\E a \in Answers : Answered(d, a)) => pc[d] \in {"woken", "requesting"}
  BY DEF Resume, Answered
<1>3. ~Cancel(d)
  BY CancelEnds
<1>4. ASSUME NEW c \in Caller, c # d, Call(c) \/ Progress(c) \/ Cancel(c)
      PROVE  pc[d] = "requesting"
  BY <1>4, OthersDoNotDelay
<1>5. UNCHANGED vars => pc[d] = "requesting"
  BY DEF vars
<1>6. QED
  BY <1>1, <1>2, <1>3, <1>4, <1>5 DEF Next, Progress

LEMMA StepIsFair == IInv /\ [Next]_vars => NobodyOvertakes
<1> SUFFICES ASSUME IInv, [Next]_vars, NEW c \in Caller, pc[c] = "queued"
             PROVE  /\ \/ pc'[c] = "queued" /\ Ahead(c)' \subseteq Ahead(c)
                       \/ pc'[c] = "woken" /\ Head(queue) = c
                       \/ Cancel(c)
                    /\ \A d \in Caller :
                         pc'[d] = "requesting" => pc[d] \in {"woken", "requesting"}
  BY DEF NobodyOvertakes
<1>1. Ahead(c)' \subseteq Ahead(c)
  BY AheadShrinks
<1>2. ~Call(c) /\ ~Progress(c)
  BY DEF Call, Progress, Resume, BackoffDone, Answered
<1>3. ASSUME NEW d \in Caller, d # c, Call(d) \/ Progress(d) \/ Cancel(d)
      PROVE  pc'[c] = "queued" \/ (pc'[c] = "woken" /\ Head(queue) = c)
  BY <1>3, OthersDoNotDelay
<1>4. UNCHANGED vars => pc'[c] = "queued"
  BY DEF vars
<1>5. queue # <<>>
  BY DEF IInv, QueueMatches
<1>6. \A d \in Caller : pc'[d] = "requesting" => pc[d] \in {"woken", "requesting"}
  BY <1>5, PermitsGoToTheWoken
<1>7. QED
  BY <1>1, <1>2, <1>3, <1>4, <1>6 DEF Next

(* The semaphore is fair to every caller, whatever number of others call,    *)
(* pause, retry and are cancelled meanwhile: the other half of CallEnds.     *)
THEOREM QueueIsFair == Spec => [][NobodyOvertakes]_vars
BY IInvHolds, StepIsFair, PTL DEF Spec

=============================================================================
