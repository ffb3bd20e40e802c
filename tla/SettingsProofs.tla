---------------------------- MODULE SettingsProofs ----------------------------
(* Proofs about the settings endpoints, for any keys, values and requests. *)
EXTENDS SettingsStore, TLAPS

(* Whatever the threads carry from the table or towards it was committed.    *)
CarriedIsCommitted ==
    /\ \A k \in Key : stored[k] # NoValue => <<k, stored[k]>> \in committed
    /\ \A r \in Request :
         /\ pc[r] = "assign" => <<KeyOrder[at[r]], body[r][KeyOrder[at[r]]]>> \in committed
         /\ pc[r] = "write" /\ row[r] # NoValue
              => <<KeyOrder[at[r]], row[r]>> \in committed /\ stored[KeyOrder[at[r]]] # NoValue
         /\ \A k \in Key : seen[r][k] # NoValue => <<k, seen[r][k]>> \in committed

IInv == TypeOK /\ CarriedIsCommitted /\ StoredBeforeUse

(* The key a thread has reached is a setting, and a PUT has a value for it. *)
LEMMA KeyReached ==
    ASSUME TypeOK, NEW r \in Request
    PROVE  /\ KeyOrder[at[r]] \in Key /\ at[r] \in 1 .. Len(KeyOrder)
           /\ Len(KeyOrder) \in Nat \ {0}
           /\ Writing(r)
                => body[r] \in [Key -> Value] /\ body[r][KeyOrder[at[r]]] \in Value
<1>1. at[r] \in 1 .. Len(KeyOrder) /\ KeyOrder \in Seq(Key) /\ KeyOrder # <<>>
  BY SettingsAssumption DEF TypeOK
<1>2. KeyOrder[at[r]] \in Key /\ Len(KeyOrder) \in Nat \ {0}
  BY <1>1
<1>3. QED
  BY <1>1, <1>2 DEF TypeOK

LEMMA NothingPartial ==
    /\ Nothing \in Partial /\ \A k \in Key : Nothing[k] = NoValue
    /\ [Key -> Value] \subseteq Partial
BY DEF Nothing, Partial

-----------------------------------------------------------------------------
LEMMA InitIInv == Init => IInv
<1> SUFFICES ASSUME Init PROVE IInv
  OBVIOUS
<1>1. 1 \in 1 .. Len(KeyOrder)
  BY SettingsAssumption
<1>2. TypeOK
  BY <1>1, NothingPartial, SettingsAssumption DEF Init, TypeOK, Writing
<1>3. CarriedIsCommitted /\ StoredBeforeUse
  BY NothingPartial DEF Init, CarriedIsCommitted, StoredBeforeUse
<1>4. QED
  BY <1>2, <1>3 DEF IInv

LEMMA StepIInv == IInv /\ [Next]_vars => IInv'
<1> SUFFICES ASSUME IInv, [Next]_vars PROVE IInv'
  OBVIOUS
<1> USE DEF IInv, Writing
<1>1. ASSUME NEW r \in Request, NEW b \in [Key -> Value], PutReceived(r, b) PROVE IInv'
  <2>1. 1 \in 1 .. Len(KeyOrder) /\ b \in Partial
    BY SettingsAssumption, NothingPartial
  <2>2. TypeOK'
    BY <1>1, <2>1, NothingPartial DEF PutReceived, Receive, history, TypeOK
  <2>3. CarriedIsCommitted'
    BY <1>1, NothingPartial DEF PutReceived, Receive, history, TypeOK, CarriedIsCommitted
  <2>4. StoredBeforeUse'
    BY <1>1, NothingPartial DEF PutReceived, Receive, history, TypeOK, StoredBeforeUse
  <2>5. QED
    BY <2>2, <2>3, <2>4
<1>2. ASSUME NEW r \in Request, GetReceived(r) PROVE IInv'
  <2>1. 1 \in 1 .. Len(KeyOrder)
    BY SettingsAssumption
  <2>2. TypeOK'
    BY <1>2, <2>1, NothingPartial DEF GetReceived, Receive, history, TypeOK
  <2>3. CarriedIsCommitted'
    BY <1>2, NothingPartial DEF GetReceived, Receive, history, TypeOK, CarriedIsCommitted
  <2>4. StoredBeforeUse'
    BY <1>2, NothingPartial DEF GetReceived, Receive, history, TypeOK, StoredBeforeUse
  <2>5. QED
    BY <2>2, <2>3, <2>4
<1>3. ASSUME NEW r \in Request, StoreKey(r) PROVE IInv'
  <2> DEFINE k == KeyOrder[at[r]]
             v == body[r][k]
  <2>1. k \in Key /\ v \in Value /\ NoValue \notin Value
    BY <1>3, KeyReached, SettingsAssumption DEF StoreKey, Writing
  <2>2. /\ stored' = [stored EXCEPT ![k] = IF row[r] = v THEN stored[k] ELSE v]
        /\ committed' = committed \cup {<<k, stored'[k]>>}
        /\ row' = [row EXCEPT ![r] = NoValue]
        /\ pc' = [pc EXCEPT ![r] = "assign"] /\ UNCHANGED <<live, body, at, seen, reply>>
        /\ settled' \in {settled \cup {k}, settled \ {k}}
    BY <1>3 DEF StoreKey, UpsertSetting
  <2>3. pc[r] = "write" /\ ~Clashes(r) /\ KeyOrder[at[r]] = k /\ body[r][k] = v
    BY <1>3 DEF StoreKey
  <2>4. row[r] = v => <<k, v>> \in committed /\ stored[k] \in Value
    BY <2>1, <2>3 DEF TypeOK, Partial, CarriedIsCommitted
  <2> HIDE DEF k, v
  <2>5. \A l \in Key : stored'[l] = IF l = k THEN IF row[r] = v THEN stored[k] ELSE v
                                   ELSE stored[l]
    BY <2>2 DEF TypeOK, Partial
  <2>6. TypeOK'
    BY <2>1, <2>2, <2>3, <2>4, <2>5 DEF TypeOK, Partial, Writing
  <2>7. CarriedIsCommitted'
    BY <2>1, <2>2, <2>3, <2>4, <2>5 DEF TypeOK, CarriedIsCommitted
  <2>8. StoredBeforeUse'
    BY <2>2 DEF StoredBeforeUse
  <2>9. QED
    BY <2>6, <2>7, <2>8
<1>4. ASSUME NEW r \in Request, StoreRaises(r) PROVE IInv'
  <2>1. TypeOK'
    BY <1>4 DEF StoreRaises, history, TypeOK
  <2>2. CarriedIsCommitted' /\ StoredBeforeUse'
    BY <1>4 DEF StoreRaises, history, TypeOK, CarriedIsCommitted, StoredBeforeUse
  <2>3. QED
    BY <2>1, <2>2
<1>5. ASSUME NEW r \in Request, AssignKey(r) PROVE IInv'
  <2> DEFINE k == KeyOrder[at[r]]
             v == body[r][k]
  <2>1. /\ k \in Key /\ v \in Value /\ at[r] \in 1 .. Len(KeyOrder)
        /\ Len(KeyOrder) \in Nat \ {0} /\ pc[r] = "assign"
    BY <1>5, KeyReached DEF AssignKey, Writing
  <2>2. live' = [live EXCEPT ![k] = v] /\ UNCHANGED <<stored, committed, settled, body, row, seen, reply>>
    BY <1>5 DEF AssignKey, history
  <2>3. PICK p \in {"store", "load"}, i \in 1 .. Len(KeyOrder) :
          pc' = [pc EXCEPT ![r] = p] /\ at' = [at EXCEPT ![r] = i]
    <3>1. CASE at[r] < Len(KeyOrder)
      <4>1. at[r] + 1 \in 1 .. Len(KeyOrder)
        BY <2>1, <3>1
      <4>2. QED
        BY <3>1, <4>1, <1>5 DEF AssignKey
    <3>2. CASE ~(at[r] < Len(KeyOrder))
      <4>1. 1 \in 1 .. Len(KeyOrder)
        BY <2>1
      <4>2. QED
        BY <3>2, <4>1, <1>5 DEF AssignKey
    <3>3. QED
      BY <3>1, <3>2
  <2>4. <<k, v>> \in committed
    BY <2>1 DEF CarriedIsCommitted
  <2> HIDE DEF k, v
  <2>5. TypeOK'
    BY <2>1, <2>2, <2>3 DEF TypeOK
  <2>6. CarriedIsCommitted'
    BY <2>2, <2>3 DEF TypeOK, CarriedIsCommitted
  <2>7. \A l \in Key : live'[l] = IF l = k THEN v ELSE live[l]
    BY <2>2 DEF TypeOK
  <2>8. StoredBeforeUse'
    BY <2>2, <2>4, <2>7 DEF StoredBeforeUse
  <2>9. QED
    BY <2>5, <2>6, <2>8
<1>6. ASSUME NEW r \in Request, LoadStored(r) PROVE IInv'
  <2>1. TypeOK'
    BY <1>6 DEF LoadStored, history, TypeOK
  <2>2. CarriedIsCommitted' /\ StoredBeforeUse'
    BY <1>6 DEF LoadStored, history, TypeOK, CarriedIsCommitted, StoredBeforeUse
  <2>3. QED
    BY <2>1, <2>2
<1>7. ASSUME NEW r \in Request, ReplyKey(r) PROVE IInv'
  <2> DEFINE k == KeyOrder[at[r]]
             v == IF seen[r][k] # NoValue THEN seen[r][k] ELSE live[k]
  <2>1. /\ k \in Key /\ at[r] \in 1 .. Len(KeyOrder)
        /\ Len(KeyOrder) \in Nat \ {0} /\ pc[r] = "reply"
    BY <1>7, KeyReached DEF ReplyKey
  <2>2. reply' = [reply EXCEPT ![r][k] = v] /\ UNCHANGED <<live, stored, committed, settled, body, row, seen>>
    BY <1>7 DEF ReplyKey, history
  <2>3. PICK p \in {"reply", "answered"}, i \in 1 .. Len(KeyOrder) :
          pc' = [pc EXCEPT ![r] = p] /\ at' = [at EXCEPT ![r] = i]
    BY <1>7, <2>1 DEF ReplyKey, TypeOK
  <2>4. v \in Value /\ (v = Default[k] \/ <<k, v>> \in committed)
    BY <2>1 DEF TypeOK, Partial, CarriedIsCommitted, StoredBeforeUse
  <2> HIDE DEF k, v
  <2>5. /\ reply' \in [Request -> Partial]
        /\ \A q \in Request, l \in Key :
             reply'[q][l] = IF q = r /\ l = k THEN v ELSE reply[q][l]
    BY <2>1, <2>2, <2>4 DEF TypeOK, Partial
  <2>6. TypeOK'
    BY <2>2, <2>3, <2>5 DEF TypeOK
  <2>7. CarriedIsCommitted'
    BY <2>2, <2>3 DEF TypeOK, CarriedIsCommitted
  <2>8. StoredBeforeUse'
    BY <2>2, <2>4, <2>5 DEF StoredBeforeUse
  <2>9. QED
    BY <2>6, <2>7, <2>8
<1>8. CASE Restart
  <2>1. 1 \in 1 .. Len(KeyOrder)
    BY SettingsAssumption
  <2>2. TypeOK'
    BY <1>8, <2>1, NothingPartial, SettingsAssumption DEF Restart, TypeOK
  <2>3. CarriedIsCommitted' /\ StoredBeforeUse'
    BY <1>8, NothingPartial DEF Restart, CarriedIsCommitted, StoredBeforeUse
  <2>4. QED
    BY <2>2, <2>3
<1>9. CASE UNCHANGED vars
  BY <1>9 DEF vars, history, TypeOK, CarriedIsCommitted, StoredBeforeUse
<1>10. ASSUME NEW r \in Request, ReadRow(r) PROVE IInv'
  <2> DEFINE k == KeyOrder[at[r]]
  <2>1. k \in Key
    BY KeyReached
  <2>2. /\ pc[r] = "store" /\ pc' = [pc EXCEPT ![r] = "write"]
        /\ row' = [row EXCEPT ![r] = stored[k]]
        /\ UNCHANGED <<live, stored, committed, settled, body, at, seen, reply>>
    BY <1>10 DEF ReadRow, history
  <2>3. TypeOK'
    BY <2>1, <2>2 DEF TypeOK, Partial, Writing
  <2>4. CarriedIsCommitted'
    BY <2>1, <2>2 DEF TypeOK, CarriedIsCommitted
  <2>5. StoredBeforeUse'
    BY <2>2 DEF StoredBeforeUse
  <2>6. QED
    BY <2>3, <2>4, <2>5
<1>11. QED
  BY <1>1, <1>2, <1>3, <1>4, <1>5, <1>6, <1>7, <1>8, <1>9, <1>10 DEF Next, RequestStep

THEOREM IInvHolds == Spec => []IInv
BY InitIInv, StepIInv, PTL DEF Spec

(* Type correctness of the endpoints.                                        *)
THEOREM TypeCorrect == Spec => []TypeOK
<1>1. IInv => TypeOK
  BY DEF IInv
<1>2. QED
  BY IInvHolds, <1>1, PTL

(* Whatever requests interleave, fail half way or are cut off by a restart:  *)
(* the scan and the answers only use settings that were written before.      *)
THEOREM SettingsStoredFirst == Spec => []StoredBeforeUse
<1>1. IInv => StoredBeforeUse
  BY DEF IInv
<1>2. QED
  BY IInvHolds, <1>1, PTL

-----------------------------------------------------------------------------
(* A settled key on its way from the table to the scan carries what the      *)
(* table keeps, and one that differs is on its way.                          *)
OnItsWay ==
    \A k \in settled :
        /\ \A r \in Request : pc[r] = "assign" /\ KeyOrder[at[r]] = k => body[r][k] = stored[k]
        /\ live[k] # stored[k] => \E w \in Request : pc[w] = "assign" /\ KeyOrder[at[w]] = k

LEMMA StepOnItsWay == TypeOK /\ OnItsWay /\ [Next]_vars => OnItsWay'
<1> SUFFICES ASSUME TypeOK, OnItsWay, [Next]_vars PROVE OnItsWay'
  OBVIOUS
<1>1. ASSUME NEW r \in Request, NEW b \in [Key -> Value], PutReceived(r, b) PROVE OnItsWay'
  BY <1>1 DEF PutReceived, Receive, Over, history, TypeOK, OnItsWay
<1>2. ASSUME NEW r \in Request, GetReceived(r) PROVE OnItsWay'
  BY <1>2 DEF GetReceived, Receive, Over, history, TypeOK, OnItsWay
<1>3. ASSUME NEW r \in Request, StoreKey(r) PROVE OnItsWay'
  <2> DEFINE k == KeyOrder[at[r]]
             v == body[r][k]
  <2>1. /\ stored' = [stored EXCEPT ![k] = IF row[r] = v THEN stored[k] ELSE v]
        /\ pc' = [pc EXCEPT ![r] = "assign"]
        /\ UNCHANGED <<live, body, at>> /\ k \in Key
        /\ settled' = IF Alone(r) /\ stored[k] = row[r] THEN settled \cup {k} ELSE settled \ {k}
    BY <1>3, KeyReached DEF StoreKey, UpsertSetting
  <2>2. /\ \A l \in Key : l # k => stored'[l] = stored[l]
        /\ k \in settled' => stored'[k] = v
    BY <2>1 DEF TypeOK, Partial
  <2>3. \A w \in Request : pc'[w] = IF w = r THEN "assign" ELSE pc[w]
    BY <2>1 DEF TypeOK
  <2>4. k \in settled' => \A w \in Request : w # r => pc[w] # "assign"
    BY <2>1 DEF Alone, Writing
  <2> SUFFICES ASSUME NEW l \in settled'
               PROVE  /\ \A w \in Request :
                           pc'[w] = "assign" /\ KeyOrder[at'[w]] = l => body'[w][l] = stored'[l]
                      /\ live'[l] # stored'[l]
                           => \E w \in Request : pc'[w] = "assign" /\ KeyOrder[at'[w]] = l
    BY DEF OnItsWay
  <2>5. CASE l = k
    BY <2>1, <2>2, <2>3, <2>4, <2>5
  <2>6. CASE l # k
    <3>1. l \in settled /\ l \in Key /\ stored'[l] = stored[l] /\ live'[l] = live[l]
      BY <2>1, <2>2, <2>6 DEF TypeOK
    <3>2. QED
      BY <3>1, <2>1, <2>3, <2>6 DEF OnItsWay
  <2>7. QED
    BY <2>5, <2>6
<1>4. ASSUME NEW r \in Request, StoreRaises(r) PROVE OnItsWay'
  BY <1>4 DEF StoreRaises, history, TypeOK, OnItsWay
<1>5. ASSUME NEW r \in Request, AssignKey(r) PROVE OnItsWay'
  <2> DEFINE k == KeyOrder[at[r]]
             v == body[r][k]
  <2>1. /\ live' = [live EXCEPT ![k] = v] /\ UNCHANGED <<stored, settled, body>>
        /\ pc[r] = "assign" /\ k \in Key
    BY <1>5, KeyReached DEF AssignKey, Writing, history
  <2>2. /\ \A l \in Key : live'[l] = IF l = k THEN v ELSE live[l]
        /\ k \in settled => stored[k] = v
    BY <2>1 DEF TypeOK, OnItsWay
  <2>3. /\ pc'[r] \in {"store", "load"}
        /\ \A w \in Request : w # r => pc'[w] = pc[w] /\ at'[w] = at[w]
    BY <1>5 DEF AssignKey, TypeOK
  <2>4. settled \subseteq Key
    BY DEF TypeOK
  <2> HIDE DEF k, v
  <2>5. \A l \in settled : \A w \in Request :
          pc'[w] = "assign" /\ KeyOrder[at'[w]] = l => body'[w][l] = stored'[l]
    BY <2>1, <2>3 DEF OnItsWay
  <2>6. ASSUME NEW l \in settled, live'[l] # stored'[l]
        PROVE  \E w \in Request : pc'[w] = "assign" /\ KeyOrder[at'[w]] = l
    <3>1. l # k /\ live[l] # stored[l]
      BY <2>1, <2>2, <2>4, <2>6
    <3>2. PICK w \in Request : pc[w] = "assign" /\ KeyOrder[at[w]] = l
      BY <3>1 DEF OnItsWay
    <3>3. w # r
      BY <3>1, <3>2 DEF k
    <3>4. QED
      BY <2>3, <3>2, <3>3
  <2>7. QED
    BY <2>1, <2>5, <2>6 DEF OnItsWay
<1>6. ASSUME NEW r \in Request, LoadStored(r) PROVE OnItsWay'
  BY <1>6 DEF LoadStored, history, TypeOK, OnItsWay
<1>7. ASSUME NEW r \in Request, ReplyKey(r) PROVE OnItsWay'
  <2>1. /\ pc[r] = "reply" /\ pc'[r] \in {"reply", "answered"}
        /\ \A w \in Request : w # r => pc'[w] = pc[w] /\ at'[w] = at[w]
        /\ UNCHANGED <<live, stored, settled, body>>
    BY <1>7 DEF ReplyKey, history, TypeOK
  <2>2. QED
    BY <2>1 DEF OnItsWay
<1>8. CASE Restart
  BY <1>8 DEF Restart, OnItsWay
<1>9. CASE UNCHANGED vars
  BY <1>9 DEF vars, OnItsWay
<1>10. ASSUME NEW r \in Request, ReadRow(r) PROVE OnItsWay'
  BY <1>10 DEF ReadRow, history, TypeOK, OnItsWay
<1>11. QED
  BY <1>1, <1>2, <1>3, <1>4, <1>5, <1>6, <1>7, <1>8, <1>9, <1>10 DEF Next, RequestStep

(* Whatever requests interleave and fail: with no PUT under way, the scan    *)
(* uses what the table keeps of every setting whose last PUT wrote it alone. *)
THEOREM SettledInForce == Spec => []SettledIsInForce
<1>1. Init => OnItsWay
  BY DEF Init, OnItsWay
<1>2. OnItsWay => SettledIsInForce
  BY DEF OnItsWay, SettledIsInForce, Quiet, Writing
<1>3. QED
  BY <1>1, <1>2, StepOnItsWay, TypeCorrect, PTL DEF Spec

-----------------------------------------------------------------------------
(* What breaks README.md's promise (PersistedIsInForce): a restart, or a PUT *)
(* that starts before another has written its last key.                      *)
OneWriter == \A r, w \in Request : Writing(r) /\ Writing(w) => r = w

NoRestart == ~Restart

(* Nothing but PUTs that ran alone has filled the table since the start, and *)
(* a row is as it was read until it is written.                              *)
AllSettled ==
    /\ \A k \in Key : stored[k] # NoValue => k \in settled
    /\ \A r \in Request : pc[r] = "write" => row[r] = stored[KeyOrder[at[r]]]

LEMMA StepAllSettled ==
    TypeOK /\ OneWriter /\ AllSettled /\ [Next]_vars /\ [NoRestart]_vars => AllSettled'
<1> SUFFICES ASSUME TypeOK, OneWriter, AllSettled, [Next]_vars, [NoRestart]_vars
             PROVE  AllSettled'
  OBVIOUS
<1>1. ASSUME NEW r \in Request, StoreKey(r) PROVE AllSettled'
  <2>1. Alone(r) /\ stored[KeyOrder[at[r]]] = row[r] /\ pc[r] = "write"
    BY <1>1 DEF StoreKey, Alone, OneWriter, AllSettled, Writing
  <2>2. settled' = settled \cup {KeyOrder[at[r]]}
    BY <1>1, <2>1 DEF StoreKey
  <2>3. \A k \in Key : stored'[k] # stored[k] => k = KeyOrder[at[r]]
    BY <1>1 DEF StoreKey, UpsertSetting, TypeOK, Partial
  <2>4. \A w \in Request : pc'[w] # "write"
    BY <1>1, <2>1 DEF StoreKey, OneWriter, Writing, TypeOK
  <2>5. QED
    BY <2>2, <2>3, <2>4 DEF AllSettled
<1>2. ASSUME NEW r \in Request, ReadRow(r) PROVE AllSettled'
  BY <1>2 DEF ReadRow, history, TypeOK, AllSettled
<1>3. ASSUME NEW r \in Request, RequestStep(r), ~StoreKey(r), ~ReadRow(r)
      PROVE  /\ stored' = stored /\ settled' = settled /\ pc'[r] # "write"
             /\ \A w \in Request : w # r => pc'[w] = pc[w] /\ row'[w] = row[w] /\ at'[w] = at[w]
  BY <1>3 DEF RequestStep, PutReceived, GetReceived, Receive, Over, StoreRaises, AssignKey,
              LoadStored, ReplyKey, history, TypeOK
<1>4. ASSUME NEW r \in Request, RequestStep(r), ~StoreKey(r), ~ReadRow(r) PROVE AllSettled'
  BY <1>3, <1>4 DEF AllSettled
<1>5. CASE UNCHANGED vars
  BY <1>5 DEF vars, AllSettled
<1>6. QED
  BY <1>1, <1>2, <1>4, <1>5 DEF Next, NoRestart

(* Nothing else breaks it: until the process restarts, and as long as no two *)
(* PUTs write at a time, what the table keeps is what the scan uses whenever *)
(* no PUT is under way, though transactions fail between two keys and GETs   *)
(* read in between.                                                          *)
THEOREM PersistedUnlessRestarted ==
    Spec /\ [][NoRestart]_vars /\ []OneWriter => []PersistedIsInForce
<1>1. Init => AllSettled
  BY DEF Init, AllSettled, Nothing
<1>2. AllSettled /\ SettledIsInForce => PersistedIsInForce
  BY DEF AllSettled, SettledIsInForce, PersistedIsInForce
<1>3. QED
  BY <1>1, <1>2, StepAllSettled, TypeCorrect, SettledInForce, PTL DEF Spec

=============================================================================
