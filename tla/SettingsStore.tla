----------------------------- MODULE SettingsStore -----------------------------
(***************************************************************************)
(* The settings endpoints (src/app/main.py): a setting is kept twice, in   *)
(* the application_settings table and in the global `settings` object the  *)
(* scan reads.  PUT writes both, key by key and without a lock; GET, which *)
(* also answers a PUT, prefers the table.  The handlers are plain          *)
(* functions that FastAPI runs in threads, so requests interleave between  *)
(* any two of the steps below.                                             *)
(***************************************************************************)
EXTENDS Integers, Sequences

CONSTANTS
    Key,        \* the settings the console can change
    KeyOrder,   \* the fields of SettingsUpdate in their order
    Value,      \* their values, as text
    Default,    \* what get_settings reads from the environment
    Request,    \* concurrent requests
    StoreFaults, \* may a transaction of upsert_setting be refused?
    Restarts,   \* may the process be stopped, or die, and start again?
    NoValue     \* the table has no row of this key

ASSUME SettingsAssumption ==
    /\ KeyOrder \in Seq(Key) \ {<<>>}
    /\ \A k \in Key : \E i \in 1 .. Len(KeyOrder) : KeyOrder[i] = k
    /\ Default \in [Key -> Value]
    /\ StoreFaults \in BOOLEAN /\ Restarts \in BOOLEAN
    /\ NoValue \notin Value

VARIABLES
    live,      \* the attributes of the global settings object
    stored,    \* the application_settings table
    pc,        \* where the thread of a request stands
    body,      \* the validated body of the PUT, empty for a GET
    at,        \* the position in KeyOrder a loop has reached
    row,       \* what the transaction of upsert_setting has read
    seen,      \* what GET read from the table
    reply,     \* the answer as far as it has been put together
    committed, \* (history) what was ever written to the table
    settled    \* (history) keys last stored, since the start, by a PUT alone,
               \* the row being as it had read it

vars == <<live, stored, pc, body, at, row, seen, reply, committed, settled>>
history == <<committed, settled>>

Nothing == [k \in Key |-> NoValue]

-----------------------------------------------------------------------------
Init ==
    /\ live = Default /\ stored = Nothing
    /\ pc = [r \in Request |-> "idle"]
    /\ body = [r \in Request |-> Nothing]
    /\ at = [r \in Request |-> 1]
    /\ row = [r \in Request |-> NoValue]
    /\ seen = [r \in Request |-> Nothing]
    /\ reply = [r \in Request |-> Nothing]
    /\ committed = {} /\ settled = {}

Over(r) == pc[r] \in {"idle", "answered", "failed"}

Writing(r) == pc[r] \in {"store", "write", "assign"}

(* No other PUT is between its first and its last write. *)
Alone(r) == \A w \in Request : Writing(w) => w = r

(* A request arrives; a body has been validated before the handler runs. *)
Receive(r, first, b) ==
    /\ Over(r)
    /\ pc' = [pc EXCEPT ![r] = first]
    /\ body' = [body EXCEPT ![r] = b]
    /\ at' = [at EXCEPT ![r] = 1]
    /\ seen' = [seen EXCEPT ![r] = Nothing]
    /\ reply' = [reply EXCEPT ![r] = Nothing]
    /\ UNCHANGED <<live, stored, row, history>>

PutReceived(r, b) == Receive(r, "store", b)

GetReceived(r) == Receive(r, "load", Nothing)

(* Mutant of ReadRow: the live setting is assigned before it is stored. *)
AssignFirst(r) ==
    /\ pc[r] = "store"
    /\ live' = [live EXCEPT ![KeyOrder[at[r]]] = body[r][KeyOrder[at[r]]]]
    /\ row' = [row EXCEPT ![r] = stored[KeyOrder[at[r]]]]
    /\ pc' = [pc EXCEPT ![r] = "write"]
    /\ UNCHANGED <<stored, history, body, at, seen, reply>>

(* upsert_setting looks the row up, which keeps nobody from writing it ...   *)
ReadRow(r) ==
    /\ pc[r] = "store"
    /\ row' = [row EXCEPT ![r] = stored[KeyOrder[at[r]]]]
    /\ pc' = [pc EXCEPT ![r] = "write"]
    /\ UNCHANGED <<live, stored, history, body, at, seen, reply>>

(* A row that was not there is inserted, which is refused if it is by now.   *)
Clashes(r) == row[r] = NoValue /\ stored[KeyOrder[at[r]]] # NoValue

(* ... and commits: a value that is the one that was read is not written.    *)
UpsertSetting(k, found, v) ==
    /\ stored' = [stored EXCEPT ![k] = IF found = v THEN @ ELSE v]
    /\ committed' = committed \cup {<<k, stored'[k]>>}

StoreKey(r) ==
    /\ pc[r] = "write" /\ ~Clashes(r)
    /\ LET k == KeyOrder[at[r]] IN
         /\ UpsertSetting(k, row[r], body[r][k])
         /\ settled' = IF Alone(r) /\ stored[k] = row[r] THEN settled \cup {k} ELSE settled \ {k}
    /\ row' = [row EXCEPT ![r] = NoValue]
    /\ pc' = [pc EXCEPT ![r] = "assign"]
    /\ UNCHANGED <<live, body, at, seen, reply>>

(* upsert_setting raises: the request is answered with an error, the keys    *)
(* before this one stay updated.                                             *)
StoreRaises(r) ==
    /\ \/ StoreFaults /\ pc[r] \in {"store", "write"}
       \/ pc[r] = "write" /\ Clashes(r)
    /\ row' = [row EXCEPT ![r] = NoValue]
    /\ pc' = [pc EXCEPT ![r] = "failed"]
    /\ UNCHANGED <<live, stored, history, body, at, seen, reply>>

(* Mutant of AssignKey: the first key is written back for every one. *)
AssignFirstKey(r) ==
    /\ pc[r] = "assign"
    /\ live' = [live EXCEPT ![KeyOrder[1]] = body[r][KeyOrder[1]]]
    /\ IF at[r] < Len(KeyOrder)
         THEN at' = [at EXCEPT ![r] = @ + 1] /\ pc' = [pc EXCEPT ![r] = "store"]
         ELSE at' = [at EXCEPT ![r] = 1] /\ pc' = [pc EXCEPT ![r] = "load"]
    /\ UNCHANGED <<stored, history, body, row, seen, reply>>

(* Mutant of AssignKey: the loop runs one key too far. *)
AssignPastEnd(r) ==
    /\ pc[r] = "assign"
    /\ live' = [live EXCEPT ![KeyOrder[at[r]]] = body[r][KeyOrder[at[r]]]]
    /\ IF at[r] <= Len(KeyOrder)
         THEN at' = [at EXCEPT ![r] = @ + 1] /\ pc' = [pc EXCEPT ![r] = "store"]
         ELSE at' = [at EXCEPT ![r] = 1] /\ pc' = [pc EXCEPT ![r] = "load"]
    /\ UNCHANGED <<stored, history, body, row, seen, reply>>

(* setattr, and on to the next key or to the answer. *)
AssignKey(r) ==
    /\ pc[r] = "assign"
    /\ live' = [live EXCEPT ![KeyOrder[at[r]]] = body[r][KeyOrder[at[r]]]]
    /\ IF at[r] < Len(KeyOrder)
         THEN at' = [at EXCEPT ![r] = @ + 1] /\ pc' = [pc EXCEPT ![r] = "store"]
         ELSE at' = [at EXCEPT ![r] = 1] /\ pc' = [pc EXCEPT ![r] = "load"]
    /\ UNCHANGED <<stored, history, body, row, seen, reply>>

(* get_application_settings reads the whole table in one query ... *)
LoadStored(r) ==
    /\ pc[r] = "load"
    /\ seen' = [seen EXCEPT ![r] = stored]
    /\ pc' = [pc EXCEPT ![r] = "reply"]
    /\ UNCHANGED <<live, stored, history, body, at, row, reply>>

(* ... and completes it, key by key, with the live settings. *)
ReplyKey(r) ==
    /\ pc[r] = "reply"
    /\ LET k == KeyOrder[at[r]] IN
         reply' = [reply EXCEPT ![r][k] = IF seen[r][k] # NoValue THEN seen[r][k] ELSE live[k]]
    /\ IF at[r] < Len(KeyOrder)
         THEN at' = [at EXCEPT ![r] = @ + 1] /\ UNCHANGED pc
         ELSE pc' = [pc EXCEPT ![r] = "answered"] /\ UNCHANGED at
    /\ UNCHANGED <<live, stored, history, body, row, seen>>

(* The process ends with its threads and starts again: the settings object   *)
(* is built from the environment, nothing reads the table.                   *)
Restart ==
    /\ Restarts
    /\ live' = Default
    /\ pc' = [r \in Request |-> "idle"]
    /\ at' = [r \in Request |-> 1]
    /\ row' = [r \in Request |-> NoValue]
    /\ seen' = [r \in Request |-> Nothing]
    /\ reply' = [r \in Request |-> Nothing]
    /\ body' = [r \in Request |-> Nothing]
    /\ settled' = {}
    /\ UNCHANGED <<stored, committed>>

RequestStep(r) ==
    \/ \E b \in [Key -> Value] : PutReceived(r, b)
    \/ GetReceived(r)
    \/ ReadRow(r) \/ StoreKey(r) \/ StoreRaises(r) \/ AssignKey(r)
    \/ LoadStored(r) \/ ReplyKey(r)

Next == Restart \/ \E r \in Request : RequestStep(r)

Spec == Init /\ [][Next]_vars

-----------------------------------------------------------------------------
Partial == [Key -> Value \cup {NoValue}]

TypeOK ==
    /\ live \in [Key -> Value] /\ stored \in Partial
    /\ pc \in [Request -> {"idle", "store", "write", "assign", "load", "reply", "answered", "failed"}]
    /\ body \in [Request -> Partial]
    /\ \A r \in Request : Writing(r) => body[r] \in [Key -> Value]
    /\ at \in [Request -> 1 .. Len(KeyOrder)]
    /\ row \in [Request -> Value \cup {NoValue}]
    /\ seen \in [Request -> Partial] /\ reply \in [Request -> Partial]
    /\ committed \subseteq Key \X Value /\ settled \subseteq Key

(* The store runs ahead of the scan: a value the scan may be using was       *)
(* written to the table before, unless it is the environment's, and so was   *)
(* every value an answer shows; whatever requests interleave, fail half way  *)
(* or are cut off by a restart.                                              *)
StoredBeforeUse ==
    /\ \A k \in Key : live[k] = Default[k] \/ <<k, live[k]>> \in committed
    /\ \A r \in Request, k \in Key :
         reply[r][k] \notin {NoValue, Default[k]} => <<k, reply[r][k]>> \in committed

Quiet == \A r \in Request : ~Writing(r)

(* app.js: "已保存，后续扫描立即生效" (saved, later scans use it at once).  When   *)
(* no PUT is under way, a setting that was stored since the start, at a      *)
(* moment when no other PUT was writing and into the row as it had been      *)
(* read, is the one the scan uses: through PUTs that fail half way, others   *)
(* that have written other keys meanwhile, and any number of readers.        *)
SettledIsInForce ==
    Quiet => \A k \in settled : live[k] = stored[k]

(* README.md: settings "can also be persisted from the web console".  With   *)
(* no PUT under way, what the table keeps, and GET shows, is what the scan   *)
(* uses.  A restart breaks it, and so do two PUTs that interleave.           *)
PersistedIsInForce ==
    Quiet => \A k \in Key : stored[k] # NoValue => live[k] = stored[k]

=============================================================================
