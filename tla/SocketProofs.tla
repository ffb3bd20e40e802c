----------------------------- MODULE SocketProofs -----------------------------
(* Proofs about the market web socket, for any tokens, messages and limit. *)
EXTENDS MarketSocket, FiniteSetTheorems, TLAPS

(* Where the loops lead: the end of the task takes the flag back, and only   *)
(* an open connection is received from.                                      *)
LEMMA OuterOutcome ==
    ASSUME TypeOK, OuterLoop
    PROVE  \/ pc' = "done" /\ connected' = FALSE
           \/ pc' \in {"resting", "connecting"} /\ connected' = connected /\ ~stop
BY DEF OuterLoop

LEMMA InnerOutcome ==
    ASSUME TypeOK, InnerLoop
    PROVE  /\ connected' = connected
           /\ \/ pc' = "closing" /\ exit' = "stopped" /\ stop
              \/ pc' = "receiving" /\ exit' = exit
BY DEF InnerLoop, Leave

LEMMA DropOutcome ==
    ASSUME TypeOK, Drop
    PROVE  pc' = "pausing" /\ connected' \in BOOLEAN /\ failures' \in 0 .. 5
<1>1. failures \in 0 .. 5
  BY DEF TypeOK
<1>2. failures' = IF failures < 5 THEN failures + 1 ELSE failures
  BY DEF Drop
<1>3. failures' \in 0 .. 5
  BY <1>1, <1>2
<1>4. QED
  BY <1>3, Zenon DEF Drop

(* The memory after one more message is finite and within the limit.         *)
LEMMA RememberBounded ==
    ASSUME TypeOK, NEW m \in Message, Remember(m)
    PROVE  /\ seen' \subseteq Message
           /\ Cardinality(seen') \in Nat /\ Cardinality(seen') <= SeenLimit
<1>1. IsFiniteSet(seen \cup {m}) /\ Cardinality(seen \cup {m}) \in Nat
  <2>1. seen \cup {m} \subseteq Message
    BY DEF TypeOK
  <2>2. QED
    BY <2>1, SocketAssumption, FS_Subset, FS_CardinalityType
<1>2. CASE Cardinality(seen \cup {m}) > SeenLimit
  <2>1. seen' = {}
    BY <1>2 DEF Remember
  <2>2. QED
    BY <2>1, FS_EmptySet, SocketAssumption
<1>3. CASE ~(Cardinality(seen \cup {m}) > SeenLimit)
  <2>1. seen' = seen \cup {m}
    BY <1>3 DEF Remember
  <2>2. QED
    BY <2>1, <1>1, <1>3, SocketAssumption DEF TypeOK
<1>4. QED
  BY <1>2, <1>3

-----------------------------------------------------------------------------
(* The conjuncts are inductive beside TypeOK, so they are proved one by one. *)

(* A connection that is being closed was left for a reason, and because of   *)
(* stop() only if that was called; one that was left because of a            *)
(* cancellation is the last.                                                 *)
ExitFits ==
    /\ pc = "closing" => exit # "none" /\ (exit = "stopped" => stop)
    /\ exit = "cancelled" => pc \in {"closing", "cancelled"}

LEMMA InitAll == Init => TypeOK /\ ExitFits /\ ConnectedUntilClosed /\ SeenBounded
<1> SUFFICES ASSUME Init PROVE TypeOK /\ ExitFits /\ ConnectedUntilClosed /\ SeenBounded
  OBVIOUS
<1>1. TypeOK /\ ExitFits /\ ConnectedUntilClosed
  <2>1. stop \in BOOLEAN /\ connected \in BOOLEAN /\ ~connected
    BY Zenon DEF Init
  <2>2. /\ pc = "created" /\ exit = "none" /\ tokens \subseteq Token
        /\ delay = 1 /\ seen \subseteq Message
        /\ failures \in 0 .. 5 /\ handled \in [Message -> 0 .. 2]
    BY DEF Init
  <2>3. QED
    BY <2>1, <2>2 DEF TypeOK, ExitFits, ConnectedUntilClosed
<1>2. SeenBounded
  BY FS_EmptySet, SocketAssumption DEF Init, SeenBounded
<1>3. QED
  BY <1>1, <1>2

LEMMA StepType == TypeOK /\ [Next]_vars => TypeOK'
<1> SUFFICES ASSUME TypeOK, [Next]_vars PROVE TypeOK'
  OBVIOUS
<1>1. CASE Begin
  BY <1>1, OuterOutcome DEF Begin, TypeOK, history
<1>2. CASE Connect
  BY <1>2 DEF Connect, TypeOK
<1>3. CASE Subscribed
  BY <1>3, InnerOutcome DEF Subscribed, TypeOK, history
<1>4. CASE QuietFrame
  BY <1>4, InnerOutcome DEF QuietFrame, TypeOK, history
<1>5. ASSUME NEW m \in Message, HandleFrame(m) PROVE TypeOK'
  <2>1. /\ pc' \in {"receiving", "closing"} /\ connected' = connected
        /\ exit' \in {"none", "failed", "stopped", "cancelled"}
    <3>1. CASE InnerLoop
      BY <3>1, InnerOutcome DEF TypeOK
    <3>2. CASE Leave("failed")
      BY <3>2 DEF Leave
    <3>3. QED
      BY <3>1, <3>2, <1>5 DEF HandleFrame
  <2>2. /\ UNCHANGED <<stop, tokens, delay, failures>>
        /\ handled' \in [Message -> 0 .. 2]
    BY <1>5 DEF HandleFrame, TypeOK
  <2>3. seen' \subseteq Message
    BY <1>5, RememberBounded DEF HandleFrame
  <2>4. QED
    BY <2>1, <2>2, <2>3 DEF TypeOK
<1>6. CASE Refused
  BY <1>6, DropOutcome DEF Refused, TypeOK
<1>7. CASE Dropped
  BY <1>7 DEF Dropped, Leave, TypeOK, history
<1>8. CASE Closed
  <2>1. CASE exit = "failed" /\ Drop
    BY <1>8, <2>1, DropOutcome DEF Closed, TypeOK
  <2>2. CASE exit = "stopped" /\ OuterLoop /\ UNCHANGED failures
    BY <1>8, <2>2, OuterOutcome DEF Closed, TypeOK
  <2>3. CASE exit = "cancelled" /\ pc' = "cancelled" /\ UNCHANGED <<connected, failures>>
    BY <1>8, <2>3 DEF Closed, TypeOK
  <2>4. QED
    BY <1>8, <2>1, <2>2, <2>3 DEF Closed
<1>9. CASE PauseOver
  <2>1. delay' \in {1, 2, 4, 8, 16, 30}
    BY <1>9 DEF PauseOver, TypeOK
  <2>2. QED
    BY <1>9, <2>1, OuterOutcome DEF PauseOver, TypeOK, history
<1>10. CASE Cancel
  BY <1>10 DEF Cancel, Leave, TypeOK, history
<1>11. CASE Stop
  BY <1>11 DEF Stop, TypeOK, history
<1>12. ASSUME NEW ts \in SUBSET Token, SetTokens(ts) PROVE TypeOK'
  BY <1>12 DEF SetTokens, TypeOK, history
<1>13. CASE UNCHANGED vars
  BY <1>13 DEF vars, TypeOK
<1>14. QED
  BY <1>1, <1>2, <1>3, <1>4, <1>5, <1>6, <1>7, <1>8, <1>9, <1>10, <1>11, <1>12, <1>13
     DEF Next, RunStep

LEMMA StepExit == TypeOK /\ ExitFits /\ [Next]_vars => ExitFits'
<1> SUFFICES ASSUME TypeOK, ExitFits, [Next]_vars PROVE ExitFits'
  OBVIOUS
<1>1. CASE Begin \/ PauseOver
  BY <1>1, OuterOutcome DEF Begin, PauseOver, ExitFits
<1>2. CASE Connect
  BY <1>2 DEF Connect, ExitFits
<1>3. CASE Subscribed \/ QuietFrame \/ \E m \in Message : HandleFrame(m)
  BY <1>3, InnerOutcome DEF Subscribed, QuietFrame, HandleFrame, Leave, ExitFits
<1>4. CASE Refused
  BY <1>4 DEF Refused, Drop, ExitFits
<1>5. CASE Dropped
  BY <1>5 DEF Dropped, Leave, ExitFits
<1>6. CASE Closed
  BY <1>6, OuterOutcome DEF Closed, Drop, ExitFits
<1>7. CASE Cancel
  BY <1>7 DEF Cancel, Leave, ExitFits
<1>8. CASE Stop \/ (\E ts \in SUBSET Token : SetTokens(ts)) \/ UNCHANGED vars
  BY <1>8 DEF Stop, SetTokens, vars, ExitFits
<1>9. QED
  BY <1>1, <1>2, <1>3, <1>4, <1>5, <1>6, <1>7, <1>8 DEF Next, RunStep

LEMMA StepConnected ==
    TypeOK /\ ExitFits /\ ConnectedUntilClosed /\ [Next]_vars => ConnectedUntilClosed'
<1> SUFFICES ASSUME TypeOK, ExitFits, ConnectedUntilClosed, [Next]_vars
             PROVE  ConnectedUntilClosed'
  OBVIOUS
<1>1. CASE Begin
  BY <1>1, OuterOutcome DEF Begin, ConnectedUntilClosed
<1>2. CASE Connect
  BY <1>2 DEF Connect, ConnectedUntilClosed
<1>3. CASE Subscribed
  BY <1>3, InnerOutcome DEF Subscribed, ConnectedUntilClosed
<1>4. CASE QuietFrame
  BY <1>4, InnerOutcome DEF QuietFrame, ConnectedUntilClosed
<1>5. ASSUME NEW m \in Message, HandleFrame(m) PROVE ConnectedUntilClosed'
  BY <1>5, InnerOutcome DEF HandleFrame, Leave, ConnectedUntilClosed
<1>6. CASE Refused
  BY <1>6 DEF Refused, Drop, ConnectedUntilClosed
<1>7. CASE Dropped
  BY <1>7 DEF Dropped, Leave, ConnectedUntilClosed
<1>8. CASE Closed
  <2>1. CASE exit = "failed" /\ Drop
    BY <2>1 DEF Drop, ConnectedUntilClosed
  <2>2. CASE exit = "stopped" /\ OuterLoop
    BY <1>8, <2>2 DEF Closed, OuterLoop, ExitFits, ConnectedUntilClosed
  <2>3. CASE exit = "cancelled" /\ pc' = "cancelled" /\ UNCHANGED <<connected, failures>>
    BY <1>8, <2>3 DEF Closed, ConnectedUntilClosed
  <2>4. QED
    BY <1>8, <2>1, <2>2, <2>3 DEF Closed
<1>9. CASE PauseOver
  BY <1>9, OuterOutcome DEF PauseOver, ConnectedUntilClosed
<1>10. CASE Cancel
  <2>1. connected' = connected
    BY <1>10, Zenon DEF Cancel, Leave
  <2>2. CASE pc \in {"subscribing", "receiving"}
    BY <1>10, <2>1, <2>2 DEF Cancel, Leave, ConnectedUntilClosed
  <2>3. CASE pc \notin {"subscribing", "receiving"}
    <3>1. /\ pc # "cancelled" /\ pc' = "cancelled"
          /\ exit' = IF pc = "closing" THEN "cancelled" ELSE exit
      BY <1>10, <2>3, Zenon DEF Cancel
    <3>2. exit = "cancelled" => pc \in {"closing", "cancelled"}
      BY DEF ExitFits
    <3>3. QED
      BY <2>1, <2>3, <3>1, <3>2 DEF ConnectedUntilClosed
  <2>4. QED
    BY <2>2, <2>3
<1>11. CASE Stop
  BY <1>11 DEF Stop, ConnectedUntilClosed
<1>12. ASSUME NEW ts \in SUBSET Token, SetTokens(ts) PROVE ConnectedUntilClosed'
  BY <1>12 DEF SetTokens, ConnectedUntilClosed
<1>13. CASE UNCHANGED vars
  BY <1>13 DEF vars, ConnectedUntilClosed
<1>14. QED
  BY <1>1, <1>2, <1>3, <1>4, <1>5, <1>6, <1>7, <1>8, <1>9, <1>10, <1>11, <1>12, <1>13
     DEF Next, RunStep

LEMMA StepSeen == TypeOK /\ SeenBounded /\ [Next]_vars => SeenBounded'
<1> SUFFICES ASSUME TypeOK, SeenBounded, [Next]_vars PROVE SeenBounded'
  OBVIOUS
<1>1. ASSUME NEW m \in Message, HandleFrame(m) PROVE SeenBounded'
  BY <1>1, RememberBounded DEF HandleFrame, SeenBounded
<1>2. CASE seen' = seen
  BY <1>2 DEF SeenBounded
<1>3. QED
  BY <1>1, <1>2 DEF Next, RunStep, Begin, Connect, Subscribed, QuietFrame, Refused,
     Dropped, Closed, PauseOver, Cancel, Stop, SetTokens, vars

(* While the messages that came fit into the memory, it holds them all.      *)
SeenIsHandled ==
    Cardinality(Handled) <= SeenLimit => seen = Handled /\ \A m \in Message : handled[m] < 2

LEMMA StepHandled == TypeOK /\ SeenIsHandled /\ [Next]_vars => SeenIsHandled'
<1> SUFFICES ASSUME TypeOK, SeenIsHandled, [Next]_vars PROVE SeenIsHandled'
  OBVIOUS
<1>1. ASSUME NEW m \in Message, HandleFrame(m) PROVE SeenIsHandled'
  <2> SUFFICES ASSUME Cardinality(Handled') <= SeenLimit
               PROVE  seen' = Handled' /\ \A n \in Message : handled'[n] < 2
    BY DEF SeenIsHandled
  <2>1. /\ m \notin seen
        /\ handled'[m] = IF handled[m] < 2 THEN handled[m] + 1 ELSE handled[m]
        /\ \A n \in Message : n # m => handled'[n] = handled[n]
        /\ handled[m] \in 0 .. 2
    BY <1>1 DEF HandleFrame, TypeOK
  <2>2. Handled' = Handled \cup {m}
    BY <2>1 DEF Handled
  <2>3. /\ Cardinality(Handled) <= Cardinality(Handled')
        /\ Cardinality(Handled) \in Nat /\ Cardinality(Handled') \in Nat
    <3>1. Handled \subseteq Handled' /\ Handled' \subseteq Message
      BY <2>2 DEF Handled
    <3>2. QED
      BY <3>1, SocketAssumption, FS_Subset, FS_CardinalityType
  <2>4. seen = Handled /\ \A n \in Message : handled[n] < 2
    BY <2>3, SocketAssumption DEF SeenIsHandled
  <2>5. handled'[m] = 1
    BY <2>1, <2>4 DEF Handled
  <2>6. seen' = seen \cup {m}
    BY <1>1, <2>2, <2>3, <2>4, SocketAssumption DEF HandleFrame, Remember
  <2>7. QED
    BY <2>1, <2>2, <2>4, <2>5, <2>6
<1>2. CASE seen' = seen /\ handled' = handled
  BY <1>2 DEF SeenIsHandled, Handled
<1>3. QED
  BY <1>1, <1>2 DEF Next, RunStep, Begin, Connect, Subscribed, QuietFrame, Refused,
     Dropped, Closed, PauseOver, Cancel, Stop, SetTokens, vars, history

(* The pause an attempt leads to if it fails after n failures in a row.      *)
PauseAfter(n, d) ==
    \/ n = 0 /\ d = 1
    \/ n = 1 /\ d = 2
    \/ n = 2 /\ d = 4
    \/ n = 3 /\ d = 8
    \/ n = 4 /\ d = 16
    \/ n = 5 /\ d = 30

(* delay is the next pause to make, during a pause the one being made.       *)
DelayFits ==
    /\ pc \in {"created", "resting", "connecting"} => PauseAfter(failures, delay)
    /\ pc \in {"subscribing", "receiving", "closing"} => failures = 0 /\ delay = 1
    /\ pc = "pausing" => /\ failures \in 1 .. 5
                         /\ PauseAfter(failures - 1, delay) \/ (failures = 5 /\ delay = 30)

LEMMA StepDelay == TypeOK /\ ExitFits /\ DelayFits /\ [Next]_vars => DelayFits'
<1> SUFFICES ASSUME TypeOK, ExitFits, DelayFits, [Next]_vars PROVE DelayFits'
  OBVIOUS
<1> USE DEF PauseAfter
<1>1. CASE Begin
  BY <1>1, OuterOutcome DEF Begin, DelayFits, history
<1>2. CASE Connect
  BY <1>2 DEF Connect, DelayFits
<1>3. ASSUME InnerLoop \/ Leave("failed"), pc \in {"subscribing", "receiving"},
             UNCHANGED <<delay, failures>>
      PROVE  DelayFits'
  BY <1>3, InnerOutcome DEF Leave, DelayFits
<1>4. ASSUME Drop, pc \in {"connecting", "closing"}, UNCHANGED delay
      PROVE  DelayFits'
  <2>1. failures' = (IF failures < 5 THEN failures + 1 ELSE failures) /\ pc' = "pausing"
    BY <1>4, Zenon DEF Drop
  <2>2. failures \in 0 .. 5 /\ PauseAfter(failures, delay)
    BY <1>4 DEF TypeOK, DelayFits
  <2>3. QED
    BY <1>4, <2>1, <2>2 DEF DelayFits
<1>5. CASE Subscribed \/ QuietFrame \/ Dropped \/ \E m \in Message : HandleFrame(m)
  BY <1>3, <1>5 DEF Subscribed, QuietFrame, Dropped, HandleFrame, history
<1>6. CASE Refused
  BY <1>4, <1>6 DEF Refused
<1>7. CASE Closed
  <2>1. CASE exit = "failed" /\ Drop
    BY <1>4, <1>7, <2>1 DEF Closed
  <2>2. CASE exit = "stopped" /\ OuterLoop
    BY <1>7, <2>2 DEF Closed, ExitFits, OuterLoop, DelayFits
  <2>3. CASE exit = "cancelled" /\ pc' = "cancelled"
    BY <2>3 DEF DelayFits
  <2>4. QED
    BY <1>7, <2>1, <2>2, <2>3 DEF Closed
<1>8. CASE PauseOver
  <2>1. /\ pc = "pausing" /\ delay' = IF delay * 2 < 30 THEN delay * 2 ELSE 30
        /\ OuterLoop /\ failures' = failures
    BY <1>8 DEF PauseOver, history
  <2>2. PauseAfter(failures, delay')
    BY <2>1 DEF DelayFits
  <2>3. QED
    BY <2>1, <2>2, OuterOutcome DEF DelayFits
<1>9. CASE Cancel
  BY <1>9 DEF Cancel, Leave, DelayFits, history
<1>10. CASE Stop \/ (\E ts \in SUBSET Token : SetTokens(ts)) \/ UNCHANGED vars
  BY <1>10 DEF Stop, SetTokens, vars, history, DelayFits
<1>11. QED
  BY <1>1, <1>2, <1>5, <1>6, <1>7, <1>8, <1>9, <1>10 DEF Next, RunStep

-----------------------------------------------------------------------------
(* Type correctness of the web socket.                                       *)
THEOREM TypeCorrect == Spec => []TypeOK
BY InitAll, StepType, PTL DEF Spec

(* A connection being closed was left for a reason that holds.               *)
LEMMA ExitsFit == Spec => []ExitFits
BY InitAll, StepExit, TypeCorrect, PTL DEF Spec

(* self.connected is true exactly from the moment a connection is made until *)
(* its closing handshake has been awaited to the end, and for ever in a task *)
(* that was cancelled in between; in every other task that has ended, and in *)
(* every pause, it is false.                                                 *)
THEOREM ConnectedIsTrue == Spec => []ConnectedUntilClosed
BY InitAll, StepConnected, TypeCorrect, ExitsFit, PTL DEF Spec

(* Pauses double with every attempt that fails in a row, from one second up  *)
(* to thirty, and a connection resets them, whatever tokens come and go.     *)
THEOREM PausesGrow == Spec => []BackoffGrows
<1>1. Init => DelayFits
  BY DEF Init, DelayFits, PauseAfter
<1>2. DelayFits => BackoffGrows
  BY DEF DelayFits, BackoffGrows, PauseAfter
<1>3. QED
  BY <1>1, <1>2, StepDelay, TypeCorrect, ExitsFit, PTL DEF Spec

(* The memory of fingerprints never grows past SeenLimit.                    *)
THEOREM SeenStaysBounded == Spec => []SeenBounded
BY InitAll, StepSeen, TypeCorrect, PTL DEF Spec

(* While the messages that came fit into the memory, none is handled twice,  *)
(* whatever connections, faults and repetitions come between.                *)
THEOREM RepeatsAreDropped == Spec => []HandledOnce
<1>1. Init => SeenIsHandled
  BY DEF Init, SeenIsHandled, Handled
<1>2. SeenIsHandled => HandledOnce
  BY DEF SeenIsHandled, HandledOnce
<1>3. QED
  BY <1>1, <1>2, StepHandled, TypeCorrect, PTL DEF Spec

-----------------------------------------------------------------------------
(* The awaits a task that has been stopped still comes to, at most.          *)
AwaitsLeft ==
    CASE pc = "connecting"                          -> 4
      [] pc \in {"subscribing", "receiving"}        -> 3
      [] pc = "closing" /\ exit = "failed"          -> 2
      [] pc = "closing" /\ exit # "failed"          -> 1
      [] pc \in {"created", "resting", "pausing"}   -> 1
      [] OTHER                                      -> 0

(* A stopped task makes for the end: it begins no connection, no receive and *)
(* no rest, each of its steps brings it nearer to the end, and neither       *)
(* set_tokens nor a cancellation puts the end off.  So it handles at most    *)
(* the one message it is waiting for.                                        *)
WindsDown ==
    stop =>
        /\ stop'
        /\ pc' \in {"connecting", "receiving", "resting"} => pc' = pc
        /\ RunStep => AwaitsLeft' < AwaitsLeft /\ pc' # pc
        /\ AwaitsLeft' <= AwaitsLeft /\ AwaitsLeft \in 0 .. 4

LEMMA StopOutcome ==
    ASSUME TypeOK, stop
    PROVE  /\ OuterLoop => pc' = "done"
           /\ InnerLoop => pc' = "closing" /\ exit' = "stopped"
BY DEF OuterLoop, InnerLoop, Leave

LEMMA StepWindsDown == TypeOK /\ [Next]_vars => WindsDown
<1> SUFFICES ASSUME TypeOK, [Next]_vars, stop
             PROVE  /\ stop'
                    /\ pc' \in {"connecting", "receiving", "resting"} => pc' = pc
                    /\ RunStep => AwaitsLeft' < AwaitsLeft /\ pc' # pc
                    /\ AwaitsLeft' <= AwaitsLeft /\ AwaitsLeft \in 0 .. 4
  BY DEF WindsDown
<1>0. AwaitsLeft \in 0 .. 4
      /\ pc \in {"created", "resting", "connecting", "subscribing", "receiving", "closing",
                 "pausing", "done", "cancelled"}
  BY DEF AwaitsLeft, TypeOK
<1>1. CASE RunStep
  <2>1. stop'
    BY <1>1 DEF RunStep, Begin, Connect, Subscribed, QuietFrame, HandleFrame, Refused, Dropped,
       Closed, PauseOver
  <2>2. \/ pc = "connecting" /\ pc' \in {"subscribing", "pausing"}
        \/ pc \in {"subscribing", "receiving"} /\ pc' = "closing"
        \/ pc = "closing" /\ exit = "failed" /\ pc' = "pausing"
        \/ pc = "closing" /\ exit # "failed" /\ pc' \in {"done", "cancelled"}
        \/ pc \in {"created", "resting", "pausing"} /\ pc' = "done"
    <3>1. CASE Begin \/ PauseOver
      BY <3>1, StopOutcome DEF Begin, PauseOver
    <3>2. CASE Connect
      BY <3>2 DEF Connect
    <3>3. CASE Subscribed \/ QuietFrame
      BY <3>3, StopOutcome DEF Subscribed, QuietFrame
    <3>4. ASSUME NEW m \in Message, HandleFrame(m)
          PROVE  pc = "receiving" /\ pc' = "closing"
      BY <3>4, StopOutcome DEF HandleFrame, Leave
    <3>5. CASE Refused
      BY <3>5, DropOutcome DEF Refused
    <3>6. CASE Dropped
      BY <3>6 DEF Dropped, Leave
    <3>7. CASE Closed
      BY <3>7, StopOutcome, DropOutcome DEF Closed
    <3>8. QED
      BY <1>1, <3>1, <3>2, <3>3, <3>4, <3>5, <3>6, <3>7 DEF RunStep
  <2>3. AwaitsLeft' < AwaitsLeft /\ AwaitsLeft' \in 0 .. 4
    BY <2>2 DEF AwaitsLeft
  <2>4. QED
    BY <1>0, <2>1, <2>2, <2>3
<1>2. ASSUME ~RunStep, Cancel \/ Stop \/ (\E ts \in SUBSET Token : SetTokens(ts)) \/ UNCHANGED vars
      PROVE  /\ stop' /\ (pc' = pc \/ pc' \in {"closing", "cancelled"})
             /\ AwaitsLeft' <= AwaitsLeft
  <2>1. stop'
    BY <1>2 DEF Cancel, Stop, SetTokens, vars
  <2>2. \/ pc' = pc /\ exit' = exit
        \/ pc' = "closing" /\ exit' = "cancelled" /\ pc \in {"subscribing", "receiving"}
        \/ pc' = "cancelled"
    BY <1>2 DEF Cancel, Leave, Stop, SetTokens, vars
  <2>3. AwaitsLeft' <= AwaitsLeft
    BY <1>0, <2>2 DEF AwaitsLeft
  <2>4. QED
    BY <2>1, <2>2, <2>3
<1>3. QED
  BY <1>0, <1>1, <1>2 DEF Next

(* The safety half of StopEnds: stop() needs no cancellation to end the      *)
(* task, which has at most four awaits to go (connecting, subscribing,       *)
(* closing and pausing) and no connection to make.                           *)
THEOREM StoppedTaskRunsOut == Spec => [][WindsDown]_vars
BY TypeCorrect, StepWindsDown, PTL DEF Spec

-----------------------------------------------------------------------------
(* A task that was not stopped does not end by itself, and with tokens to    *)
(* ask for every step of it leads on to a connection, to the closing of a    *)
(* failed one or to a pause before the next attempt.                         *)
KeepsTrying ==
    /\ pc = "done" => stop
    /\ RunStep /\ ~stop /\ (pc = "closing" => exit # "cancelled") =>
         /\ pc' \in {"resting", "connecting", "subscribing", "receiving", "closing", "pausing"}
         /\ pc = "closing" => pc' = "pausing"
         /\ tokens # {} => pc' # "resting"

LEMMA StepKeepsTrying ==
    ASSUME TypeOK, ExitFits, RunStep, ~stop, pc = "closing" => exit # "cancelled"
    PROVE  /\ pc' \in {"resting", "connecting", "subscribing", "receiving", "closing", "pausing"}
           /\ pc = "closing" => pc' = "pausing"
           /\ tokens # {} => pc' # "resting"
<1>1. CASE Begin \/ PauseOver
  BY <1>1 DEF Begin, PauseOver, OuterLoop
<1>2. CASE Connect
  BY <1>2 DEF Connect
<1>3. CASE Subscribed \/ QuietFrame
  BY <1>3 DEF Subscribed, QuietFrame, InnerLoop
<1>4. ASSUME NEW m \in Message, HandleFrame(m)
      PROVE  pc = "receiving" /\ pc' \in {"receiving", "closing"}
  BY <1>4 DEF HandleFrame, InnerLoop, Leave
<1>5. CASE Refused
  BY <1>5, DropOutcome DEF Refused
<1>6. CASE Dropped
  BY <1>6 DEF Dropped, Leave
<1>7. CASE Closed
  BY <1>7, DropOutcome DEF Closed, ExitFits
<1>8. QED
  BY <1>1, <1>2, <1>3, <1>4, <1>5, <1>6, <1>7 DEF RunStep

LEMMA EndsOnlyStopped ==
    TypeOK /\ ExitFits /\ (pc = "done" => stop) /\ [Next]_vars => (pc = "done" => stop)'
<1> SUFFICES ASSUME TypeOK, ExitFits, pc = "done" => stop, [Next]_vars, pc' = "done"
             PROVE  stop'
  OBVIOUS
<1>1. CASE RunStep
  <2>1. pc = "closing" => exit # "cancelled"
    BY <1>1 DEF RunStep, Begin, Connect, Subscribed, QuietFrame, HandleFrame, Refused, Dropped,
       Closed, PauseOver
  <2>2. stop
    BY <1>1, <2>1, StepKeepsTrying
  <2>3. stop' = stop
    BY <1>1 DEF RunStep, Begin, Connect, Subscribed, QuietFrame, HandleFrame, Refused, Dropped,
       Closed, PauseOver
  <2>4. QED
    BY <2>2, <2>3
<1>2. CASE Cancel \/ Stop \/ (\E ts \in SUBSET Token : SetTokens(ts)) \/ UNCHANGED vars
  BY <1>2 DEF Cancel, Leave, Stop, SetTokens, vars
<1>3. QED
  BY <1>1, <1>2 DEF Next

(* The safety half of ComesBack: no failure at whatever await, no fault of   *)
(* the handler and no change of the tokens ends the task or makes it give up *)
(* connecting while there are tokens; only a cancellation does.              *)
THEOREM NeverGivesUp == Spec => [][KeepsTrying]_vars
<1>1. TypeOK /\ ExitFits /\ (pc = "done" => stop) => KeepsTrying
  BY StepKeepsTrying DEF KeepsTrying
<1>2. Init => (pc = "done" => stop)
  BY DEF Init
<1>3. QED
  BY <1>1, <1>2, EndsOnlyStopped, TypeCorrect, ExitsFit, PTL DEF Spec

=============================================================================
