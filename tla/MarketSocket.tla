----------------------------- MODULE MarketSocket -----------------------------
(***************************************************************************)
(* The market web socket (src/app/clients/websocket_client.py): a task     *)
(* that keeps one connection to the CLOB's push endpoint, subscribes it to *)
(* the tokens it finds when it connects, drops repeated messages and hands *)
(* the others to ScannerRuntime.handle_websocket.  refresh_markets changes *)
(* the tokens, stop() asks the task to end and then cancels it; both run   *)
(* on the same event loop, so they come between two awaits of the task.    *)
(*                                                                         *)
(* A message is its fingerprint.  A frame with a list of messages is a row *)
(* of frames with one.  Frames that are no JSON or have no event_type only *)
(* count as errors and are left out, like PONG.                            *)
(***************************************************************************)
EXTENDS Integers, FiniteSets

CONSTANTS
    Token,         \* what markets may ask to subscribe to
    Message,       \* fingerprints the endpoint may push
    SeenLimit,     \* 10_000 in the code
    HandlerFaults, \* may handle_websocket raise?
    Cancels        \* may the task be cancelled?

ASSUME SocketAssumption ==
    /\ IsFiniteSet(Message)
    /\ SeenLimit \in Nat \ {0}
    /\ HandlerFaults \in BOOLEAN /\ Cancels \in BOOLEAN

VARIABLES
    pc,               \* the await run() has reached, "receiving" also for a PING
    exit,             \* why the context of the connection was left last
    stop,             \* the _stop event
    tokens,           \* self.tokens, read when a connection is made
    connected,        \* self.connected
    delay,            \* the next pause in seconds
    seen,             \* self._seen
    failures,         \* (history) attempts that failed since the last connection
    handled           \* (history) how often a message was handled, up to twice

vars == <<pc, exit, stop, tokens, connected, delay, seen, failures, handled>>
history == <<failures, handled>>

-----------------------------------------------------------------------------
Init ==
    /\ pc = "created" /\ exit = "none" /\ stop = FALSE
    /\ tokens \in SUBSET Token
    /\ connected = FALSE /\ delay = 1 /\ seen = {}
    /\ failures = 0 /\ handled = [m \in Message |-> 0]

(* Mutant of OuterLoop: the flag is not taken back at the end. *)
OuterLoopStaysConnected ==
    /\ pc' = IF stop THEN "done" ELSE IF tokens = {} THEN "resting" ELSE "connecting"
    /\ UNCHANGED connected

(* `while not self._stop.is_set()` of run(). *)
OuterLoop ==
    \/ stop /\ pc' = "done" /\ connected' = FALSE
    \/ /\ ~stop /\ UNCHANGED connected
       /\ pc' = IF tokens = {} THEN "resting" ELSE "connecting"

(* Leaving `async with connect(...)`, by whatever way, awaits the closing    *)
(* handshake for up to close_timeout; self.connected is not touched before.  *)
Leave(why) == pc' = "closing" /\ exit' = why /\ UNCHANGED connected

(* Mutant of InnerLoop: it runs as long as the connection does. *)
InnerLoopForever == pc' = "receiving" /\ UNCHANGED <<connected, exit>>

(* The inner one, which stop() ends. *)
InnerLoop ==
    \/ stop /\ Leave("stopped")
    \/ ~stop /\ pc' = "receiving" /\ UNCHANGED <<connected, exit>>

Begin ==
    /\ pc \in {"created", "resting"}
    /\ OuterLoop
    /\ UNCHANGED <<exit, stop, tokens, delay, seen, history>>

(* Mutant of Connect: the pause is not reset. *)
ConnectSameDelay ==
    /\ pc = "connecting"
    /\ pc' = "subscribing" /\ connected' = TRUE
    /\ failures' = 0
    /\ UNCHANGED <<exit, stop, tokens, delay, seen, handled>>

Connect ==
    /\ pc = "connecting"
    /\ pc' = "subscribing" /\ connected' = TRUE /\ delay' = 1
    /\ failures' = 0
    /\ UNCHANGED <<exit, stop, tokens, seen, handled>>

Subscribed ==
    /\ pc = "subscribing"
    /\ InnerLoop
    /\ UNCHANGED <<stop, tokens, delay, seen, history>>

(* Mutant of Remember: a full memory is one message smaller. *)
RememberOneLess(m) ==
    seen' = IF Cardinality(seen \cup {m}) >= SeenLimit THEN {} ELSE seen \cup {m}

(* A memory that has grown past its limit is emptied, m included. *)
Remember(m) ==
    seen' = IF Cardinality(seen \cup {m}) > SeenLimit THEN {} ELSE seen \cup {m}

(* Mutant of Drop: the exception ends the task. *)
DropForGood ==
    /\ pc' = "done" /\ connected' = FALSE
    /\ failures' = IF failures < 5 THEN failures + 1 ELSE failures

(* `except Exception` of run(), reached once the context has been left. *)
Drop ==
    /\ pc' = "pausing" /\ connected' = FALSE
    /\ failures' = IF failures < 5 THEN failures + 1 ELSE failures

(* The attempt to connect fails: there is no connection to close. *)
Refused ==
    /\ pc = "connecting"
    /\ Drop
    /\ UNCHANGED <<exit, stop, tokens, delay, seen, handled>>

(* The connection fails under the subscription, a receive or a PING. *)
Dropped ==
    /\ pc \in {"subscribing", "receiving"}
    /\ Leave("failed")
    /\ UNCHANGED <<stop, tokens, delay, seen, history>>

(* The handshake is over or has been given up (the library raises neither    *)
(* way), and the exception that left the context goes on.                    *)
Closed ==
    /\ pc = "closing"
    /\ \/ exit = "failed" /\ Drop
       \/ exit = "stopped" /\ OuterLoop /\ UNCHANGED failures
       \/ exit = "cancelled" /\ pc' = "cancelled" /\ UNCHANGED <<connected, failures>>
    /\ UNCHANGED <<exit, stop, tokens, delay, seen, handled>>

(* Within ten seconds there is no message, or one that _process drops. *)
QuietFrame ==
    /\ pc = "receiving"
    /\ InnerLoop
    /\ UNCHANGED <<stop, tokens, delay, seen, history>>

(* _process remembers the message, then hands it to handle_websocket.  *)
HandleFrame(m) ==
    /\ pc = "receiving" /\ m \notin seen
    /\ Remember(m)
    /\ handled' = [handled EXCEPT ![m] = IF @ < 2 THEN @ + 1 ELSE @]
    /\ InnerLoop \/ (HandlerFaults /\ Leave("failed"))
    /\ UNCHANGED <<stop, tokens, delay, failures>>

(* Mutant of PauseOver: the pause is doubled without end. *)
PauseUncapped ==
    /\ pc = "pausing"
    /\ delay' = IF delay < 30 THEN delay * 2 ELSE delay
    /\ OuterLoop
    /\ UNCHANGED <<exit, stop, tokens, seen, history>>

(* The pause is over, or cut short by stop(). *)
PauseOver ==
    /\ pc = "pausing"
    /\ delay' = IF delay * 2 < 30 THEN delay * 2 ELSE 30
    /\ OuterLoop
    /\ UNCHANGED <<exit, stop, tokens, seen, history>>

(* CancelledError passes through run() at any await and resets nothing.  It  *)
(* leaves the context like any exception; in the closing it ends that, too.  *)
Cancel ==
    /\ Cancels /\ pc \notin {"done", "cancelled"}
    /\ IF pc \in {"subscribing", "receiving"}
         THEN Leave("cancelled")
         ELSE /\ pc' = "cancelled" /\ UNCHANGED connected
              /\ exit' = IF pc = "closing" THEN "cancelled" ELSE exit
    /\ UNCHANGED <<stop, tokens, delay, seen, history>>

(* set_tokens: nothing is sent over a connection that is up. *)
SetTokens(ts) ==
    /\ tokens' = ts
    /\ UNCHANGED <<pc, exit, stop, connected, delay, seen, history>>

Stop ==
    /\ stop' = TRUE
    /\ UNCHANGED <<pc, exit, tokens, connected, delay, seen, history>>

RunStep ==
    \/ Begin \/ Connect \/ Subscribed \/ QuietFrame
    \/ \E m \in Message : HandleFrame(m)
    \/ Refused \/ Dropped \/ Closed \/ PauseOver

Next ==
    \/ RunStep \/ Cancel \/ Stop
    \/ \E ts \in SUBSET Token : SetTokens(ts)

Spec == Init /\ [][Next]_vars

(* Every await of run() ends by itself: a sleep, a connection attempt with   *)
(* open_timeout, a receive with a timeout, a closing with close_timeout, a   *)
(* pause.                                                                    *)
Fairness == WF_vars(RunStep)

(* The endpoint accepts connections, and subscriptions, again and again.     *)
FairSpec      == Spec /\ Fairness
AcceptingSpec == FairSpec /\ SF_vars(Connect) /\ SF_vars(Subscribed)

-----------------------------------------------------------------------------
TypeOK ==
    /\ pc \in {"created", "resting", "connecting", "subscribing", "receiving",
               "closing", "pausing", "done", "cancelled"}
    /\ exit \in {"none", "failed", "stopped", "cancelled"}
    /\ stop \in BOOLEAN /\ connected \in BOOLEAN
    /\ tokens \subseteq Token
    /\ delay \in {1, 2, 4, 8, 16, 30}
    /\ seen \subseteq Message
    /\ failures \in 0 .. 5
    /\ handled \in [Message -> 0 .. 2]

(* self.connected is true from the moment a connection is made until its     *)
(* closing has been awaited to the end, at whatever await a failure, a fault *)
(* of the handler or stop() comes.  A cancellation leaves it as it was: the  *)
(* flag of a task that was cancelled with a connection, or while it was      *)
(* closing one, stays true for ever.                                         *)
ConnectedUntilClosed ==
    connected <=> \/ pc \in {"subscribing", "receiving", "closing"}
                  \/ pc = "cancelled" /\ exit = "cancelled"

(* The pause doubles with every attempt that fails in a row, up to 30        *)
(* seconds, and starts at one second after a connection.                     *)
BackoffGrows ==
    pc = "pausing" => delay = <<1, 2, 4, 8, 16>>[failures] \/ (failures = 5 /\ delay = 30)

(* The memory of fingerprints stays within its limit for ever.               *)
SeenBounded == Cardinality(seen) <= SeenLimit

Handled == {m \in Message : handled[m] > 0}

(* A repeated message is handled once: as long as no more than SeenLimit     *)
(* different ones came, across reconnections and faults of the handler.      *)
HandledOnce == Cardinality(Handled) <= SeenLimit => \A m \in Message : handled[m] < 2

(* stop() ends the task even if it were not cancelled: no await outlasts it. *)
StopEnds == stop ~> pc \in {"done", "cancelled"}

(* With tokens to ask for and an endpoint that accepts connections, a task   *)
(* that goes on comes back to receiving after every failure.                 *)
ComesBack ==
    <>[](tokens # {} /\ ~stop /\ pc # "cancelled" /\ exit # "cancelled")
        => []<>(pc = "receiving")

=============================================================================
