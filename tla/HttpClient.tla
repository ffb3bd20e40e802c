------------------------------ MODULE HttpClient ------------------------------
(***************************************************************************)
(* PublicHTTPClient.request_json (src/app/clients/http.py): every request  *)
(* of the scanner goes through one client, which lets max_concurrency of   *)
(* them be under way at a time and repeats one up to twice, after a pause  *)
(* in which it holds no permit.  stop() cancels callers at whatever await  *)
(* they have reached.                                                      *)
(*                                                                         *)
(* The semaphore is asyncio's (CPython 3.11): a release counts the permit  *)
(* back in and, if somebody waits, reserves it for the first waiter, which *)
(* takes it when its task runs next.  Until then everyone who comes later  *)
(* queues, free permit or not.                                             *)
(***************************************************************************)
EXTENDS Integers, FiniteSets, Sequences, SequencesExt

CONSTANTS
    Caller,   \* the coroutines that make requests
    Permits,  \* max_concurrency
    Answers   \* how one attempt may end

(* "ok": a JSON answer.  "busy": 429 or 5xx.  "lost": a timeout or a network *)
(* error.  "unusable": no JSON, or a status httpx raises for.  "refused":    *)
(* another 4xx.  "broken": an exception request_json does not name, a        *)
(* protocol error for example.                                               *)
Answer == {"ok", "busy", "lost", "unusable", "refused", "broken"}

ASSUME HttpAssumption ==
    /\ IsFiniteSet(Caller)
    /\ Permits \in Nat \ {0}
    /\ Answers \subseteq Answer

VARIABLES
    pc,       \* the await a caller has reached
    attempt,  \* the loop variable of its call
    answers,  \* what its call has been answered so far, attempt by attempt
    outcome,  \* how its last call ended, "none" while one is under way
    free,     \* Semaphore._value
    queue     \* the waiters that no permit is reserved for

vars == <<pc, attempt, answers, outcome, free, queue>>

-----------------------------------------------------------------------------
(* Mutant of Retryable: the error raised for a 4xx is caught with the rest.  *)
RetryableOrRefused == {"busy", "lost", "unusable", "refused"}

Retryable == {"busy", "lost", "unusable"}

(* Mutant of MayRetry: one attempt too many. *)
MayRetryThrice(c) == attempt[c] < 3

MayRetry(c) == attempt[c] < 2

Woken == {c \in Caller : pc[c] = "woken"}

Init ==
    /\ pc = [c \in Caller |-> "idle"]
    /\ attempt = [c \in Caller |-> 0]
    /\ answers = [c \in Caller |-> <<>>]
    /\ outcome = [c \in Caller |-> "none"]
    /\ free = Permits /\ queue = <<>>

(* Semaphore.acquire: a free permit is taken at once only if nobody waits. *)
Acquire(c) ==
    \/ /\ free > 0 /\ queue = <<>> /\ Woken = {}
       /\ free' = free - 1 /\ pc' = [pc EXCEPT ![c] = "requesting"]
       /\ UNCHANGED queue
    \/ /\ free = 0 \/ queue # <<>> \/ Woken # {}
       /\ queue' = Append(queue, c) /\ pc' = [pc EXCEPT ![c] = "queued"]
       /\ UNCHANGED free

(* c goes on to `next` and leaves so many permits; one is reserved for the   *)
(* first waiter, if there are both (Semaphore._wake_up_next).                *)
WakeUpNext(c, next, permits) ==
    \/ /\ permits > 0 /\ queue # <<>>
       /\ free' = permits - 1 /\ queue' = Tail(queue)
       /\ pc' = [pc EXCEPT ![c] = next, ![Head(queue)] = "woken"]
    \/ /\ permits = 0 \/ queue = <<>>
       /\ free' = permits
       /\ pc' = [pc EXCEPT ![c] = next]
       /\ UNCHANGED queue

(* Mutant of LeaveRequest: the pause is taken inside the `async with`. *)
KeepWhileSleeping(c, next) ==
    IF next = "sleeping"
      THEN pc' = [pc EXCEPT ![c] = next] /\ UNCHANGED <<free, queue>>
      ELSE WakeUpNext(c, next, free + 1)

(* The `async with` is left, normally or by an exception. *)
LeaveRequest(c, next) == WakeUpNext(c, next, free + 1)

-----------------------------------------------------------------------------
(* request_json is called and comes to the semaphore. *)
Call(c) ==
    /\ pc[c] = "idle"
    /\ attempt' = [attempt EXCEPT ![c] = 0]
    /\ answers' = [answers EXCEPT ![c] = <<>>]
    /\ outcome' = [outcome EXCEPT ![c] = "none"]
    /\ Acquire(c)

(* The task of a woken waiter runs: it takes its permit, and passes on the   *)
(* wake-up to those who had to queue although a permit was free.             *)
Resume(c) ==
    /\ pc[c] = "woken"
    /\ WakeUpNext(c, "requesting", free)
    /\ UNCHANGED <<attempt, answers, outcome>>

(* One attempt is over.  An answer that is worth another attempt leads to a  *)
(* pause, or to ExternalAPIError ("failed") if it was the last.              *)
Answered(c, a) ==
    /\ pc[c] = "requesting"
    /\ answers' = [answers EXCEPT ![c] = Append(@, a)]
    /\ \/ /\ a \in Retryable /\ MayRetry(c)
          /\ LeaveRequest(c, "sleeping")
          /\ UNCHANGED outcome
       \/ /\ a \notin Retryable \/ ~MayRetry(c)
          /\ LeaveRequest(c, "idle")
          /\ outcome' = [outcome EXCEPT ![c] =
                           IF a = "ok" THEN "returned"
                           ELSE IF a = "broken" THEN "raised" ELSE "failed"]
    /\ UNCHANGED attempt

(* The pause of 0.5 or 1 second is over; the next attempt queues anew. *)
BackoffDone(c) ==
    /\ pc[c] = "sleeping"
    /\ attempt' = [attempt EXCEPT ![c] = @ + 1]
    /\ Acquire(c)
    /\ UNCHANGED <<answers, outcome>>

(* The caller's task is cancelled while it awaits and the CancelledError     *)
(* leaves request_json: nothing catches it, `async with` and the semaphore   *)
(* give back what it holds.  A cancelled task does not call again.           *)
Cancel(c) ==
    /\ \/ pc[c] \in {"requesting", "woken"} /\ WakeUpNext(c, "cancelled", free + 1)
       \/ /\ pc[c] = "queued"
          /\ \E i \in 1 .. Len(queue) : queue[i] = c /\ queue' = RemoveAt(queue, i)
          /\ pc' = [pc EXCEPT ![c] = "cancelled"]
          /\ UNCHANGED free
       \/ /\ pc[c] = "sleeping"
          /\ pc' = [pc EXCEPT ![c] = "cancelled"]
          /\ UNCHANGED <<free, queue>>
    /\ UNCHANGED <<attempt, answers, outcome>>

Progress(c) == Resume(c) \/ BackoffDone(c) \/ \E a \in Answers : Answered(c, a)

Next == \E c \in Caller : Call(c) \/ Progress(c) \/ Cancel(c)

Spec == Init /\ [][Next]_vars

(* Woken tasks run, pauses are timers, and httpx bounds every phase of a     *)
(* request by request_timeout.  Nobody has to make another call.             *)
FairSpec == Spec /\ \A c \in Caller : WF_vars(Progress(c))

-----------------------------------------------------------------------------
TypeOK ==
    /\ pc \in [Caller -> {"idle", "queued", "woken", "requesting", "sleeping", "cancelled"}]
    /\ attempt \in [Caller -> 0 .. 2]
    /\ answers \in [Caller -> Seq(Answers)]
    /\ outcome \in [Caller -> {"none", "returned", "failed", "raised"}]
    /\ free \in 0 .. Permits
    /\ queue \in Seq(Caller)

Holders == {c \in Caller : pc[c] \in {"woken", "requesting"}}

(* No permit is lost or made up, by whatever exception or cancellation, at   *)
(* whatever await, a request ends: each is free, reserved for a woken waiter *)
(* or held by a request.  So at most max_concurrency requests are under way, *)
(* and a caller that pauses holds none.                                      *)
PermitsConserved == free + Cardinality(Holders) = Permits

(* The queue is exactly the callers that wait for a permit, each once: a     *)
(* cancelled one does not stay in it.                                        *)
QueueMatches ==
    /\ \A c \in Caller : pc[c] = "queued" <=> \E i \in 1 .. Len(queue) : queue[i] = c
    /\ \A i, j \in 1 .. Len(queue) : queue[i] = queue[j] => i = j

(* No wake-up is missed: callers wait beside a free permit only while a      *)
(* woken one is about to run, which passes the wake-up on.                   *)
NoMissedWakeup == free > 0 /\ queue # <<>> => Woken # {}

(* docs/API_REFERENCE.md: "at most three attempts", "Other 4xx responses     *)
(* fail immediately".  A call gives up only on a refusal or after three      *)
(* answers worth retrying, and whatever is not is never asked for again.     *)
RetryPolicy ==
    \A c \in Caller :
        /\ Len(answers[c]) <= 3
        /\ \A i \in 1 .. Len(answers[c]) :
             i < Len(answers[c]) \/ outcome[c] = "none"
               => answers[c][i] \in {"busy", "lost", "unusable"}
        /\ outcome[c] = "failed"
             => answers[c][Len(answers[c])] = "refused" \/ Len(answers[c]) = 3
        /\ outcome[c] = "returned"
             => answers[c] # <<>> /\ answers[c][Len(answers[c])] = "ok"

(* Between any two awaits of a call, one answer has been counted for every   *)
(* attempt made, and only a call that is over has an outcome.  With it       *)
(* RetryPolicy is inductive.                                                 *)
AttemptsCounted ==
    \A c \in Caller :
        /\ pc[c] # "idle" => outcome[c] = "none"
        /\ pc[c] = "sleeping" => attempt[c] < 2
        /\ pc[c] \in {"queued", "woken", "requesting"} => Len(answers[c]) = attempt[c]
        /\ pc[c] = "sleeping" => Len(answers[c]) = attempt[c] + 1

IInv ==
    /\ TypeOK /\ PermitsConserved /\ QueueMatches /\ NoMissedWakeup
    /\ RetryPolicy /\ AttemptsCounted

(* Every call ends, however many others go on making requests: the queue is  *)
(* first in first out, pauses give way, and attempts are bounded.            *)
CallEnds ==
    \A c \in Caller :
        pc[c] \in {"queued", "woken", "requesting", "sleeping"}
            ~> pc[c] \in {"idle", "cancelled"}

=============================================================================
