------------------------- MODULE GuestSessionProofs -------------------------
(***************************************************************************)
(* Type correctness of GuestSession and the discipline of its connection   *)
(* slots, for any number of slots, locks, jobs and fragments.              *)
(***************************************************************************)
EXTENDS GuestSession, TLAPS

USE ConnectionsAssumption, GuestSessionAssumption

Tables == [Slots -> Connection]

(* The operators on the table.                                             *)

(* Slot 0 exists.                                                          *)
LEMMA SlotZero == 0 \in Slots
BY DEF Slots

(* With slot 0 free, beginConnection takes slot 0.                         *)
LEMMA FirstFreeIsZero ==
    ASSUME NEW conns \in Tables, ~conns[0].active
    PROVE  FreeSlots(conns) # {} /\ FirstFree(conns) = 0
<1>1. 0 \in FreeSlots(conns)
  BY SlotZero DEF FreeSlots
<1>2. \A j \in FreeSlots(conns) : 0 <= j
  BY DEF FreeSlots, Slots
<1>3. \E i \in FreeSlots(conns) : \A j \in FreeSlots(conns) : i <= j
  BY <1>1, <1>2
<1>4. FirstFree(conns) \in FreeSlots(conns) /\ FirstFree(conns) <= 0
  BY <1>1, <1>3 DEF FirstFree
<1> QED BY <1>1, <1>4 DEF FreeSlots, Slots

(* incrementNonce of a nonce is a nonce.                                   *)
LEMMA IncrementType == ASSUME NEW nonce \in Nonces PROVE incrementNonce(nonce) \in Nonces
BY DEF incrementNonce, Nonces

(* beginConnection on a table whose slot 0 is free touches slot 0 alone.   *)
LEMMA BeginTable ==
    ASSUME NEW conns \in Tables, ~conns[0].active, NEW key \in Keys,
           NEW keyOk \in BOOLEAN, NEW second \in Nat
    PROVE  /\ beginConnection(conns, key, keyOk, second) \in Tables
           /\ \A i \in Slots \ {0} :
                 beginConnection(conns, key, keyOk, second)[i] = conns[i]
           /\ beginConnectionId(conns, keyOk) = IF keyOk THEN 0 ELSE ERROR_CONNECTION_ID
<1>1. FreeSlots(conns) # {} /\ FirstFree(conns) = 0
  BY FirstFreeIsZero
<1>2. generateRandomNonce(second) \in Nonces
  BY DEF generateRandomNonce, Nonces
<1> DEFINE c == IF keyOk THEN [conns[0] EXCEPT !.active = TRUE, !.key = key,
                                               !.rxNonce = generateRandomNonce(second)]
                ELSE [conns[0] EXCEPT !.active = TRUE]
<1>3. c \in Connection
  BY <1>2, SlotZero DEF Connection, Tables
<1>4. beginConnection(conns, key, keyOk, second) = [conns EXCEPT ![0] = c]
  BY <1>1, SlotZero DEF beginConnection, Tables
<1> HIDE DEF c
<1> QED BY <1>1, <1>3, <1>4, SlotZero DEF Tables, beginConnectionId

(* The operations on an open slot keep every slot's active flag.           *)
LEMMA SlotOperations ==
    ASSUME NEW conns \in Tables, NEW id \in Slots, NEW nonce \in Nonces
    PROVE  /\ genConnStep3(conns, id, nonce) \in Tables
           /\ recConnStep4(conns, id) \in Tables
           /\ encryptNative(conns, id) \in Tables
           /\ decryptNative(conns, id) \in Tables
           /\ \A i \in Slots :
                 /\ genConnStep3(conns, id, nonce)[i].active = conns[i].active
                 /\ recConnStep4(conns, id)[i].active = conns[i].active
                 /\ encryptNative(conns, id)[i].active = conns[i].active
                 /\ decryptNative(conns, id)[i].active = conns[i].active
<1>1. ASSUME NEW m \in Nonces
      PROVE  /\ [conns EXCEPT ![id].txNonce = m] \in Tables
             /\ [conns EXCEPT ![id].rxNonce = m] \in Tables
             /\ \A i \in Slots : /\ [conns EXCEPT ![id].txNonce = m][i].active = conns[i].active
                                 /\ [conns EXCEPT ![id].rxNonce = m][i].active = conns[i].active
  BY DEF Tables, Connection
<1>2. conns[id].txNonce \in Nonces /\ conns[id].rxNonce \in Nonces
  BY DEF Tables, Connection
<1>3. /\ incrementNonce(nonce) \in Nonces
      /\ incrementNonce(conns[id].txNonce) \in Nonces
      /\ incrementNonce(conns[id].rxNonce) \in Nonces
  BY <1>2, IncrementType
<1> QED BY <1>1, <1>3 DEF genConnStep3, recConnStep4, encryptNative, decryptNative

(* endConnection(0) frees slot 0 and leaves the others alone.              *)
LEMMA EndTable ==
    ASSUME NEW conns \in Tables
    PROVE  /\ endConnection(conns, 0) \in Tables
           /\ ~endConnection(conns, 0)[0].active
           /\ \A i \in Slots \ {0} : endConnection(conns, 0)[i] = conns[i]
<1> DEFINE c == [[conns[0] EXCEPT !.active = FALSE] EXCEPT !.rxNonce = ZeroNonce]
<1>1. ZeroNonce \in Nonces
  BY DEF ZeroNonce, Nonces
<1>2. c \in Connection /\ ~c.active
  BY <1>1, SlotZero DEF Tables, Connection
<1>3. endConnection(conns, 0) = [conns EXCEPT ![0] = c]
  BY SlotZero DEF endConnection, Tables
<1> HIDE DEF c
<1> QED BY <1>2, <1>3, SlotZero DEF Tables

-----------------------------------------------------------------------------
(* The buffer of guest_connection.                                         *)

GuestConnections ==
    [guest_step : {"BEGIN", "STEP3", "STEP4", "CMD_RESULT"},
     step_max_size : Nat, step_cur_size : Nat,
     step_data : LockMessages \cup {NoMessage},
     waiting_err : BOOLEAN, receive_err : BOOLEAN, connectionID : Slots]

(* An allocated buffer holds a message of the lock.                        *)
BufferHolds(g) == g.step_max_size # 0 => g.step_data \in LockMessages

(* save_message_data leaves an allocated buffer and the slot number alone. *)
LEMMA SavedType ==
    ASSUME NEW g \in GuestConnections, BufferHolds(g), NEW f \in LockMessages
    PROVE  /\ save_message_data(g, f) \in GuestConnections
           /\ save_message_data(g, f).step_data \in LockMessages
           /\ save_message_data(g, f).connectionID = g.connectionID
<1>1. Misread \in Nat
  BY DEF Misread
<1>2. f.len \in Nat /\ f.ff \in BOOLEAN
  BY DEF LockMessages
<1>3. CASE g.step_max_size = 0
  BY <1>1, <1>2, <1>3 DEF save_message_data, GuestConnections
<1>4. CASE g.step_max_size # 0
  BY <1>4 DEF save_message_data, GuestConnections, BufferHolds
<1> QED BY <1>3, <1>4

(* Releasing the data of a connection keeps the rest of it.                *)
LEMMA ReleasedType ==
    ASSUME NEW g \in GuestConnections, BufferHolds(g)
    PROVE  /\ releaseGuestConnectionData(g) \in GuestConnections
           /\ BufferHolds(releaseGuestConnectionData(g))
           /\ releaseGuestConnectionData(g).connectionID = g.connectionID
BY DEF releaseGuestConnectionData, GuestConnections, BufferHolds

-----------------------------------------------------------------------------
(* The inductive invariant: a started job has a number and a lock, the     *)
(* buffer holds a message, and the slots are as SlotDiscipline says.       *)
SessionInv ==
    /\ TypeOK
    /\ SlotDiscipline
    /\ pc # "idle" => job.id \in JobIds /\ job.lock \in Locks
    /\ BufferHolds(gc)

(* The session starts in the inductive invariant.                          *)
LEMMA InitInv == Init => SessionInv
<1> SUFFICES ASSUME Init PROVE SessionInv
  OBVIOUS
<1>1. ZeroNonce \in Nonces
  BY DEF ZeroNonce, Nonces
<1>2. ClearConnection \in Connection /\ ~ClearConnection.active
  BY <1>1 DEF ClearConnection, Connection, Keys
<1>3. connections \in [Slots -> Connection] /\ \A i \in Slots : ~connections[i].active
  BY <1>2 DEF Init, InitConnections
<1>4. gc \in GuestConnections /\ gc.connectionID = 0 /\ BufferHolds(gc)
  BY SlotZero DEF Init, initGuestConnection, GuestConnections, BufferHolds
<1>5. /\ job \in [id : 0 .. MaxJobs, lock : Keys, keyOk : BOOLEAN, cmd : Commands]
      /\ pc = "idle"
  BY DEF Init, NoJob, Keys, Commands
<1>6. /\ inbox \in Seq(LockMessages) /\ batch \in Seq(LockMessages)
      /\ wire \in Seq(BridgeMessages)
      /\ <<>> \in Seq(LockMessages)
  BY DEF Init
<1>7. peer \in [phase : Phases, job : 0 .. MaxJobs, key : Keys, rx : Nonces,
                tx : Nonces, out : Seq(LockMessages)]
  BY <1>1, <1>6 DEF Init, LinkDown, Phases, Keys
<1>8. ble_data \in [result : Errors, response : Verdicts \cup {"none"},
                    value : {"default", "fresh"}] /\ err \in Errors
  BY DEF Init, InitBleData, Errors
<1>9. TypeOK
  BY <1>3, <1>4, <1>5, <1>6, <1>7, <1>8 DEF Init, TypeOK, GuestConnections
<1>10. SlotDiscipline
  BY <1>3, <1>4, <1>5, SlotZero DEF SlotDiscipline
<1> QED BY <1>4, <1>5, <1>9, <1>10 DEF SessionInv

-----------------------------------------------------------------------------
(* One lemma per group of actions.                                         *)

(* Starting a job allocates a fresh task and touches no slot.              *)
LEMMA StartJobInv == SessionInv /\ StartJob => SessionInv'
<1> SUFFICES ASSUME SessionInv, StartJob PROVE SessionInv'
  OBVIOUS
<1> USE DEF bridgeVars, glibVars, lockVars, history
<1>1. ASSUME NEW l \in Locks, NEW keyOk \in BOOLEAN, NEW cmd \in Commands,
             HandleLockCMD(l, keyOk, cmd)
      PROVE  SessionInv'
  <2>1. gc' \in GuestConnections /\ gc'.connectionID = 0 /\ BufferHolds(gc')
    BY <1>1, SlotZero DEF HandleLockCMD, initGuestConnection, GuestConnections, BufferHolds
  <2>2. /\ job' \in [id : 0 .. MaxJobs, lock : Keys, keyOk : BOOLEAN, cmd : Commands]
        /\ job'.id \in JobIds /\ job'.lock \in Locks
    BY <1>1 DEF HandleLockCMD, SessionInv, TypeOK, Keys, JobIds
  <2>3. /\ ble_data' \in [result : Errors, response : Verdicts \cup {"none"},
                          value : {"default", "fresh"}]
        /\ err' \in Errors
    BY <1>1 DEF HandleLockCMD, InitBleData, Errors
  <2>4. TypeOK'
    BY <1>1, <2>1, <2>2, <2>3 DEF HandleLockCMD, SessionInv, TypeOK, GuestConnections
  <2>5. SlotDiscipline'
    BY <1>1, <2>1 DEF HandleLockCMD, SessionInv, SlotDiscipline
  <2> QED BY <2>1, <2>2, <2>4, <2>5 DEF SessionInv, BufferHolds
<1>2. ASSUME NEW l \in Locks, HandleUnknownCMD(l)
      PROVE  SessionInv'
  <2>0. job.id + 1 \in 0 .. MaxJobs
    BY <1>2 DEF HandleUnknownCMD, SessionInv, TypeOK
  <2>1. job' \in [id : 0 .. MaxJobs, lock : Keys, keyOk : BOOLEAN, cmd : Commands]
    BY <1>2, <2>0 DEF HandleUnknownCMD, NoJob, Keys, Commands
  <2>2. /\ reports' \in [JobIds -> {"none", "ok", "err"}]
        /\ troubled' \subseteq 0 .. MaxJobs
    <3>1. reports \in [JobIds -> {"none", "ok", "err"}] /\ troubled \subseteq 0 .. MaxJobs
      BY DEF SessionInv, TypeOK
    <3> QED BY <1>2, <2>0, <3>1 DEF HandleUnknownCMD
  <2>3. TypeOK'
    BY <1>2, <2>1, <2>2 DEF HandleUnknownCMD, SessionInv, TypeOK
  <2> QED BY <1>2, <2>3 DEF HandleUnknownCMD, SessionInv, SlotDiscipline, BufferHolds
<1> QED BY <1>1, <1>2 DEF StartJob

(* Jobs are numbered from 1, and the history of troubles keeps its type.   *)
LEMMA TroubleType ==
    ASSUME TypeOK, NEW j \in 0 .. MaxJobs, NEW met, Trouble(j, met)
    PROVE  troubled' \subseteq 0 .. MaxJobs
BY DEF TypeOK, Trouble

(* Nothing before write_guest_step1 touches a slot.                        *)
LEMMA OpeningInv ==
    ASSUME SessionInv,
           \/ \E ok \in BOOLEAN : Connect(ok)
           \/ \E ok, connected \in BOOLEAN : NotificationStart(ok, connected)
    PROVE  SessionInv'
<1> USE DEF bridgeVars, glibVars, lockVars, history
<1>1. ASSUME NEW ok \in BOOLEAN, Connect(ok) PROVE SessionInv'
  <2>1. pc = "connect" /\ TypeOK /\ job.id \in 0 .. MaxJobs
    BY <1>1 DEF Connect, SessionInv, TypeOK
  <2>2. troubled' \subseteq 0 .. MaxJobs
    BY <1>1, <2>1, TroubleType DEF Connect
  <2>3. peer' \in [phase : Phases, job : 0 .. MaxJobs, key : Keys, rx : Nonces,
                   tx : Nonces, out : Seq(LockMessages)]
    <3>1. ZeroNonce \in Nonces
      BY DEF ZeroNonce, Nonces
    <3>2. job.lock \in Keys /\ <<>> \in Seq(LockMessages)
      BY <2>1 DEF TypeOK
    <3>3. CASE ok
      BY <1>1, <2>1, <3>1, <3>2, <3>3 DEF Connect, LinkDown, Phases
    <3>4. CASE ~ok
      BY <1>1, <2>1, <3>4 DEF Connect, TypeOK
    <3> QED BY <3>3, <3>4
  <2>4. /\ pc' \in {"notify", "exit"} /\ err' \in Errors /\ gatt' \in BOOLEAN
        /\ wire' \in Seq(BridgeMessages)
    <3>1. err \in Errors /\ gatt \in BOOLEAN /\ wire \in Seq(BridgeMessages)
      BY <2>1 DEF TypeOK
    <3>2. CASE ok
      BY <1>1, <3>1, <3>2 DEF Connect
    <3>3. CASE ~ok
      BY <1>1, <3>1, <3>3 DEF Connect, Errors
    <3> QED BY <3>2, <3>3
  <2>5. TypeOK'
    BY <1>1, <2>1, <2>2, <2>3, <2>4 DEF Connect, TypeOK
  <2> QED BY <1>1, <2>1, <2>4, <2>5 DEF Connect, SessionInv, SlotDiscipline, BufferHolds
<1>2. ASSUME NEW ok \in BOOLEAN, NEW connected \in BOOLEAN,
             NotificationStart(ok, connected)
      PROVE  SessionInv'
  <2>1. pc = "notify" /\ TypeOK /\ job.id \in 0 .. MaxJobs
    BY <1>2 DEF NotificationStart, SessionInv, TypeOK
  <2>2. troubled' \subseteq 0 .. MaxJobs
    BY <1>2, <2>1, TroubleType DEF NotificationStart
  <2>3. gc' \in GuestConnections /\ gc'.connectionID = 0 /\ BufferHolds(gc')
    <3>1. gc \in GuestConnections /\ gc.connectionID = 0 /\ BufferHolds(gc)
      BY DEF SessionInv, TypeOK, SlotDiscipline, GuestConnections
    <3>2. gc' = gc \/ gc' = [gc EXCEPT !.guest_step = "BEGIN"]
      BY <1>2 DEF NotificationStart
    <3> QED BY <3>1, <3>2 DEF GuestConnections, BufferHolds
  <2>4. /\ pc' \in {"step1", "exit"} /\ err' \in Errors /\ notifying' \in BOOLEAN
        /\ timer' \in {"none", "armed", "expired", "due"}
    BY <1>2, <2>1 DEF NotificationStart, TypeOK, Errors
  <2>5. TypeOK'
    BY <1>2, <2>1, <2>2, <2>3, <2>4 DEF NotificationStart, TypeOK, GuestConnections
  <2>6. SlotDiscipline'
    BY <1>2, <2>1, <2>3, <2>4 DEF NotificationStart, SessionInv, SlotDiscipline
  <2> QED BY <1>2, <2>1, <2>3, <2>5, <2>6
          DEF NotificationStart, SessionInv, BufferHolds
<1> QED BY <1>1, <1>2

(* What the invariant says of the connection and of the next fragment.     *)
LEMMA ConnectionFacts ==
    ASSUME SessionInv
    PROVE  /\ gc \in GuestConnections /\ gc.connectionID = 0 /\ BufferHolds(gc)
           /\ connections \in Tables
           /\ job.id \in 0 .. MaxJobs /\ peer.job \in 0 .. MaxJobs
           /\ batch # <<>> => /\ Head(batch) \in LockMessages
                              /\ Tail(batch) \in Seq(LockMessages)
<1>1. TypeOK /\ SlotDiscipline /\ BufferHolds(gc)
  BY DEF SessionInv
<1>2. batch \in Seq(LockMessages)
  BY <1>1 DEF TypeOK
<1>3. batch # <<>> => Head(batch) \in LockMessages /\ Tail(batch) \in Seq(LockMessages)
  BY <1>2
<1>4. gc \in GuestConnections /\ connections \in Tables /\ gc.connectionID = 0
  BY <1>1 DEF TypeOK, GuestConnections, Tables, SlotDiscipline
<1>5. job.id \in 0 .. MaxJobs /\ peer.job \in 0 .. MaxJobs
  BY <1>1 DEF TypeOK
<1> QED BY <1>1, <1>3, <1>4, <1>5

BleData == [result : Errors, response : Verdicts \cup {"none"}, value : {"default", "fresh"}]

(* A message put on the wire keeps its type.                               *)
LEMMA WriteType ==
    ASSUME TypeOK, NEW m \in BridgeMessages, NEW reached, Write(m, reached)
    PROVE  wire' \in Seq(BridgeMessages)
BY DEF TypeOK, Write

(* Storing a result code in the data for the caller keeps its type.        *)
LEMMA ResultType ==
    ASSUME TypeOK
    PROVE  /\ ble_data \in BleData
           /\ \A e \in Errors : [ble_data EXCEPT !.result = e] \in BleData
           /\ 0 \in Errors
<1>1. ble_data \in BleData
  BY DEF TypeOK, BleData
<1>2. ASSUME NEW e \in Errors PROVE [ble_data EXCEPT !.result = e] \in BleData
  BY <1>1 DEF BleData
<1>3. 0 \in Errors
  BY DEF Errors
<1> QED BY <1>1, <1>2, <1>3

(* write_guest_step1 takes slot 0, or fails having taken it.               *)
LEMMA Step1Inv ==
    ASSUME SessionInv, NEW second \in {job.id - 1, job.id}, NEW sent \in BOOLEAN,
           NEW reached \in BOOLEAN, write_guest_step1(second, sent, reached)
    PROVE  SessionInv'
<1> USE DEF bridgeVars, glibVars, lockVars, history
<1> DEFINE id == beginConnectionId(connections, job.keyOk)
           step1 == [kind |-> "step1", key |-> NoKey, nonce |-> ZeroNonce, body |-> ZeroNonce]
<1>1. /\ pc = "step1" /\ TypeOK /\ ~connections[0].active
      /\ job.id \in JobIds /\ job.lock \in Keys /\ job.keyOk \in BOOLEAN
  BY DEF write_guest_step1, SessionInv, SlotDiscipline, TypeOK
<1>2. second \in Nat
  BY <1>1 DEF JobIds
<1>3. /\ connections' \in Tables
      /\ \A i \in Slots \ {0} : connections'[i] = connections[i]
      /\ id = IF job.keyOk THEN 0 ELSE ERROR_CONNECTION_ID
  BY <1>1, <1>2, ConnectionFacts, BeginTable DEF write_guest_step1
<1>4. step1 \in BridgeMessages
  BY DEF BridgeMessages, Keys, ZeroNonce, Nonces
<1>5. wire' \in Seq(BridgeMessages)
  <2>1. wire' = wire \/ Write(step1, reached)
    BY DEF write_guest_step1
  <2>2. wire \in Seq(BridgeMessages)
    BY <1>1 DEF TypeOK
  <2> QED BY <1>1, <1>4, <2>1, <2>2, WriteType
<1>6. gc' \in GuestConnections /\ gc'.connectionID = 0 /\ BufferHolds(gc')
  <2>1. gc' = gc \/ (id # ERROR_CONNECTION_ID /\ gc' = [gc EXCEPT !.connectionID = id])
    BY DEF write_guest_step1
  <2>2. id # ERROR_CONNECTION_ID => id = 0
    BY <1>3
  <2>3. gc' = gc \/ gc' = [gc EXCEPT !.connectionID = 0]
    BY <2>1, <2>2
  <2> HIDE DEF id
  <2> QED BY <2>3, ConnectionFacts, SlotZero DEF GuestConnections, BufferHolds
<1>7. err' \in Errors /\ pc' \in {"loop", "exit"}
  <2>1. err \in Errors
    BY <1>1 DEF TypeOK
  <2>2. /\ err' = err \/ err' = ERR_STEP1
        /\ pc' = "loop" \/ pc' = "exit"
    BY DEF write_guest_step1
  <2> QED BY <2>1, <2>2 DEF Errors
<1>8. troubled' \subseteq 0 .. MaxJobs
  BY <1>1, ConnectionFacts, TroubleType DEF write_guest_step1
<1>9. TypeOK'
  BY <1>1, <1>3, <1>5, <1>6, <1>7, <1>8
     DEF write_guest_step1, TypeOK, GuestConnections, Tables
<1>10. SlotDiscipline'
  BY <1>3, <1>6, <1>7 DEF SessionInv, SlotDiscipline
<1>11. job' = job
  BY DEF write_guest_step1
<1> QED BY <1>1, <1>6, <1>9, <1>10, <1>11 DEF SessionInv

(* The timer and the queue of sources touch neither slot nor buffer.       *)
LEMMA LoopInv ==
    ASSUME SessionInv, Expire \/ Iterate \/ stop_main_loop_func \/ LoopReturn
    PROVE  SessionInv'
<1> USE DEF bridgeVars, glibVars, lockVars, history
<1>1. TypeOK
  BY DEF SessionInv
<1>2. CASE Expire
  <2>1. troubled' \subseteq 0 .. MaxJobs
    BY <1>1, <1>2, ConnectionFacts, TroubleType DEF Expire
  <2>2. TypeOK'
    BY <1>1, <1>2, <2>1 DEF Expire, TypeOK
  <2> QED BY <1>2, <2>2 DEF Expire, SessionInv, SlotDiscipline, BufferHolds
<1>3. CASE Iterate
  <2>1. TypeOK'
    BY <1>1, <1>3 DEF Iterate, TypeOK
  <2> QED BY <1>3, <2>1 DEF Iterate, SessionInv, SlotDiscipline, BufferHolds
<1>4. CASE stop_main_loop_func
  <2>1. gc' \in GuestConnections /\ gc'.connectionID = 0 /\ BufferHolds(gc')
    BY <1>4, ConnectionFacts DEF stop_main_loop_func, GuestConnections, BufferHolds
  <2>2. TypeOK'
    BY <1>1, <1>4, <2>1 DEF stop_main_loop_func, TypeOK, GuestConnections
  <2>3. SlotDiscipline'
    BY <1>4, <2>1 DEF stop_main_loop_func, SessionInv, SlotDiscipline
  <2> QED BY <1>4, <2>1, <2>2, <2>3 DEF stop_main_loop_func, SessionInv
<1>5. CASE LoopReturn
  <2>1. err' \in Errors /\ pc = "loop" /\ pc' = "exit"
    BY <1>1, <1>5 DEF LoopReturn, TypeOK, Errors
  <2>2. TypeOK'
    BY <1>1, <1>5, <2>1 DEF LoopReturn, TypeOK
  <2> QED BY <1>5, <2>1, <2>2 DEF LoopReturn, SessionInv, SlotDiscipline, BufferHolds
<1> QED BY <1>2, <1>3, <1>4, <1>5

(* What every handler starts from: the fragment is saved, the session is   *)
(* in its loop, and the slot it works on is slot 0.                        *)
LEMMA SavedFacts ==
    ASSUME SessionInv, NEW step, Notified(step)
    PROVE  LET saved == save_message_data(gc, Head(batch)) IN
           /\ pc = "loop" /\ TypeOK
           /\ saved \in GuestConnections /\ saved.connectionID = 0
           /\ saved.step_data \in LockMessages
           /\ batch' \in Seq(LockMessages)
<1>1. pc = "loop" /\ batch # <<>> /\ batch' = Tail(batch) /\ TypeOK
  BY DEF Notified, SessionInv
<1>2. Head(batch) \in LockMessages /\ batch' \in Seq(LockMessages)
  BY <1>1, ConnectionFacts
<1> QED BY <1>1, <1>2, ConnectionFacts, SavedType

(* A stored fragment.                                                      *)
LEMMA StoreInv ==
    ASSUME SessionInv, NEW step, StoreFragment(step)
    PROVE  SessionInv'
<1> USE DEF bridgeVars, glibVars, lockVars, history
<1> DEFINE saved == save_message_data(gc, Head(batch))
<1>1. /\ pc = "loop" /\ TypeOK /\ batch' \in Seq(LockMessages) /\ gc' = saved
      /\ saved \in GuestConnections /\ saved.connectionID = 0
      /\ saved.step_data \in LockMessages
  BY SavedFacts DEF StoreFragment
<1> HIDE DEF saved
<1>2. ble_data' \in BleData
  <2>1. ble_data' = ble_data \/ ble_data' = [ble_data EXCEPT !.result = 0]
    BY DEF StoreFragment
  <2> QED BY <1>1, <2>1, ResultType
<1>3. UNCHANGED <<pc, job, connections, err, gatt, notifying, inbox, timer, quit, wire,
                  peer, handled, reports, published, troubled>>
  BY DEF StoreFragment
<1>4. TypeOK'
  BY <1>1, <1>2, <1>3 DEF TypeOK, GuestConnections, BleData
<1>5. SlotDiscipline'
  BY <1>1, <1>3 DEF SessionInv, SlotDiscipline
<1> QED BY <1>1, <1>3, <1>4, <1>5 DEF SessionInv, BufferHolds

(* handle_step2_message writes slot 0, which is the session's.             *)
LEMMA Step2Inv ==
    ASSUME SessionInv, NEW sent \in BOOLEAN, NEW reached \in BOOLEAN,
           handle_step2_message(sent, reached)
    PROVE  SessionInv'
<1> USE DEF bridgeVars, glibVars, lockVars, history
<1> DEFINE saved == save_message_data(gc, Head(batch))
           step2 == saved.step_data
           step3 == [kind |-> "step3", key |-> connections[0].key, nonce |-> step2.nonce,
                     body |-> connections[0].rxNonce]
           stepped == [saved EXCEPT !.guest_step = "STEP4"]
           failed == [saved EXCEPT !.guest_step = "STEP3", !.receive_err = TRUE]
<1>1. /\ pc = "loop" /\ TypeOK /\ batch' \in Seq(LockMessages)
      /\ saved \in GuestConnections /\ saved.connectionID = 0
      /\ step2 \in LockMessages
  BY SavedFacts DEF handle_step2_message
<1>2. step2.nonce \in Nonces
  BY <1>1 DEF LockMessages
<1>3. /\ connections' = connections \/ connections' = genConnStep3(connections, 0, step2.nonce)
      /\ wire' = wire \/ Write(step3, reached)
      /\ gc' = releaseGuestConnectionData(stepped) \/ gc' = failed
      /\ quit' = quit \/ quit' = TRUE
  BY DEF handle_step2_message, write_guest_step3
<1>4. connections' \in Tables /\ \A i \in Slots : connections'[i].active = connections[i].active
  <2> DEFINE gen == genConnStep3(connections, 0, step2.nonce)
  <2>1. gen \in Tables /\ \A i \in Slots : gen[i].active = connections[i].active
    BY <1>2, ConnectionFacts, SlotZero, SlotOperations
  <2>2. connections' = connections \/ connections' = gen
    BY <1>3
  <2> HIDE DEF gen
  <2> QED BY <2>1, <2>2, ConnectionFacts
<1>5. step3 \in BridgeMessages
  BY <1>2, ConnectionFacts, SlotZero DEF BridgeMessages, Tables, Connection
<1>6. wire' \in Seq(BridgeMessages)
  <2>1. wire \in Seq(BridgeMessages)
    BY <1>1 DEF TypeOK
  <2> HIDE DEF step3
  <2> QED BY <1>1, <1>3, <1>5, <2>1, WriteType
<1>7. /\ stepped \in GuestConnections /\ stepped.connectionID = 0 /\ BufferHolds(stepped)
      /\ failed \in GuestConnections /\ failed.connectionID = 0 /\ BufferHolds(failed)
  <2> HIDE DEF saved
  <2> QED BY <1>1 DEF GuestConnections, BufferHolds
<1>8. gc' \in GuestConnections /\ gc'.connectionID = 0 /\ BufferHolds(gc')
  <2> HIDE DEF stepped, failed
  <2> QED BY <1>3, <1>7, ReleasedType
<1>9. troubled' \subseteq 0 .. MaxJobs
  BY <1>1, ConnectionFacts, TroubleType DEF handle_step2_message
<1>10. quit' \in BOOLEAN
  BY <1>1, <1>3 DEF TypeOK
<1>11. /\ UNCHANGED <<pc, job, ble_data, err, gatt, notifying, inbox, timer, peer,
                      handled, reports, published>>
  BY DEF handle_step2_message
<1>12. TypeOK'
  BY <1>1, <1>4, <1>6, <1>8, <1>9, <1>10, <1>11 DEF TypeOK, GuestConnections, Tables
<1>13. SlotDiscipline'
  BY <1>1, <1>4, <1>8, <1>11, SlotZero DEF SessionInv, SlotDiscipline
<1> QED BY <1>8, <1>11, <1>12, <1>13 DEF SessionInv

(* handle_step4_message works on the slot of the session.                  *)
LEMMA Step4Inv ==
    ASSUME SessionInv, NEW encoded \in BOOLEAN, NEW sent \in BOOLEAN,
           NEW reached \in BOOLEAN, handle_step4_message(encoded, sent, reached)
    PROVE  SessionInv'
<1> USE DEF bridgeVars, glibVars, lockVars, history
<1> DEFINE saved == save_message_data(gc, Head(batch))
           id == saved.connectionID
           cmd == [kind |-> "cmd", key |-> connections[id].key,
                   nonce |-> connections[id].txNonce, body |-> ZeroNonce]
           rec == recConnStep4(connections, id)
           moved == [saved EXCEPT !.guest_step = IF encoded THEN "CMD_RESULT" ELSE @]
           failed == [saved EXCEPT !.receive_err = TRUE]
<1>1. /\ pc = "loop" /\ TypeOK /\ batch' \in Seq(LockMessages)
      /\ saved \in GuestConnections /\ id = 0
      /\ saved.step_data \in LockMessages
  BY SavedFacts DEF handle_step4_message
<1>2. /\ connections' = rec \/ connections' = encryptNative(rec, id)
      /\ wire' = wire \/ Write(cmd, reached)
      /\ gc' = releaseGuestConnectionData(moved) \/ gc' = failed
      /\ \/ ble_data' = [ble_data EXCEPT !.result = 0]
         \/ ble_data' = [ble_data EXCEPT !.result = ERR_CONNECTION]
  BY DEF handle_step4_message, write_cmd_request
<1>3. connections' \in Tables /\ \A i \in Slots : connections'[i].active = connections[i].active
  <2>1. ZeroNonce \in Nonces
    BY DEF ZeroNonce, Nonces
  <2>2. rec \in Tables /\ \A i \in Slots : rec[i].active = connections[i].active
    BY <1>1, <2>1, ConnectionFacts, SlotZero, SlotOperations
  <2> HIDE DEF rec, id
  <2>3. /\ encryptNative(rec, id) \in Tables
        /\ \A i \in Slots : encryptNative(rec, id)[i].active = rec[i].active
    BY <1>1, <2>1, <2>2, SlotZero, SlotOperations
  <2> QED BY <1>2, <2>2, <2>3
<1>4. cmd \in BridgeMessages
  BY <1>1, ConnectionFacts, SlotZero DEF BridgeMessages, Tables, Connection, ZeroNonce, Nonces
<1>5. wire' \in Seq(BridgeMessages)
  <2>1. wire \in Seq(BridgeMessages)
    BY <1>1 DEF TypeOK
  <2> HIDE DEF cmd
  <2> QED BY <1>1, <1>2, <1>4, <2>1, WriteType
<1>6. /\ moved \in GuestConnections /\ moved.connectionID = 0 /\ BufferHolds(moved)
      /\ failed \in GuestConnections /\ failed.connectionID = 0 /\ BufferHolds(failed)
  <2> HIDE DEF saved
  <2> QED BY <1>1 DEF GuestConnections, BufferHolds
<1>7. gc' \in GuestConnections /\ gc'.connectionID = 0 /\ BufferHolds(gc')
  <2> HIDE DEF moved, failed
  <2> QED BY <1>2, <1>6, ReleasedType
<1>8. troubled' \subseteq 0 .. MaxJobs
  BY <1>1, ConnectionFacts, TroubleType DEF handle_step4_message
<1>9. ble_data' \in BleData
  BY <1>1, <1>2, ResultType DEF Errors
<1>10. UNCHANGED <<pc, job, err, gatt, notifying, inbox, timer, quit, peer,
                   handled, reports, published>>
  BY DEF handle_step4_message
<1>11. TypeOK'
  BY <1>1, <1>3, <1>5, <1>7, <1>8, <1>9, <1>10 DEF TypeOK, GuestConnections, Tables, BleData
<1>12. SlotDiscipline'
  BY <1>1, <1>3, <1>7, <1>10, SlotZero DEF SessionInv, SlotDiscipline
<1> QED BY <1>7, <1>10, <1>11, <1>12 DEF SessionInv

(* handle_cmd_responce ends the session's slot once the response is read.  *)
LEMMA ResponseInv ==
    ASSUME SessionInv, handle_cmd_responce
    PROVE  SessionInv'
<1> USE DEF bridgeVars, glibVars, lockVars, history
<1> DEFINE saved == save_message_data(gc, Head(batch))
           resp == saved.step_data
           id == saved.connectionID
           opened == Opens(connections[id], resp.key, resp.nonce)
           fresh == IF resp.verdict = "done" THEN "fresh" ELSE ble_data.value
           answer == [result |-> 0, response |-> resp.verdict, value |-> fresh]
           dec == decryptNative(connections, id)
           failed == [saved EXCEPT !.receive_err = TRUE]
<1>1. /\ pc = "loop" /\ TypeOK /\ batch' \in Seq(LockMessages)
      /\ saved \in GuestConnections /\ id = 0
      /\ resp \in LockMessages
  BY SavedFacts DEF handle_cmd_responce
<1>2. /\ gc' = saved \/ gc' = failed
      /\ \/ connections' = endConnection(dec, id)
         \/ connections' = dec
         \/ connections' = connections
      /\ \/ ble_data' = answer
         \/ ble_data' = [ble_data EXCEPT !.result = 0]
         \/ ble_data' = [ble_data EXCEPT !.result = ERR_CMD]
      /\ quit' = TRUE
      /\ UNCHANGED <<pc, job, err, gatt, notifying, inbox, timer, wire, peer,
                     handled, reports, published, troubled>>
  <2> HIDE DEF answer, dec, failed
  <2>1. CASE opened /\ resp.good
    BY <2>1 DEF handle_cmd_responce, answer, dec, failed
  <2>2. CASE opened /\ ~resp.good
    BY <2>2 DEF handle_cmd_responce, dec, failed
  <2>3. CASE ~opened
    BY <2>3 DEF handle_cmd_responce, dec, failed
  <2> QED BY <2>1, <2>2, <2>3
<1>3. /\ connections' \in Tables
      /\ \A i \in Slots \ {0} : connections'[i].active = connections[i].active
  <2>1. ZeroNonce \in Nonces
    BY DEF ZeroNonce, Nonces
  <2>2. dec \in Tables /\ \A i \in Slots : dec[i].active = connections[i].active
    BY <1>1, <2>1, ConnectionFacts, SlotZero, SlotOperations
  <2> HIDE DEF dec, id
  <2>3. /\ endConnection(dec, id) \in Tables
        /\ \A i \in Slots \ {0} : endConnection(dec, id)[i] = dec[i]
    BY <1>1, <2>2, EndTable
  <2> QED BY <1>2, <2>2, <2>3, ConnectionFacts
<1>4. gc' \in GuestConnections /\ gc'.connectionID = 0 /\ BufferHolds(gc')
  <2> HIDE DEF saved
  <2> QED BY <1>1, <1>2 DEF GuestConnections, BufferHolds
<1>5. ble_data' \in BleData
  <2>1. resp.verdict \in Verdicts
    BY <1>1 DEF LockMessages
  <2>2. ble_data.value \in {"default", "fresh"} /\ 0 \in Errors
    BY <1>1, ResultType DEF BleData
  <2>3. answer \in BleData
    <3> HIDE DEF resp
    <3> QED BY <2>1, <2>2 DEF BleData
  <2>4. ERR_CMD \in Errors
    BY DEF Errors
  <2> HIDE DEF answer
  <2> QED BY <1>1, <1>2, <2>3, <2>4, ResultType
<1>6. TypeOK'
  BY <1>1, <1>2, <1>3, <1>4, <1>5 DEF TypeOK, GuestConnections, Tables, BleData
<1>7. SlotDiscipline'
  BY <1>1, <1>2, <1>3, <1>4 DEF SessionInv, SlotDiscipline
<1> QED BY <1>2, <1>4, <1>6, <1>7 DEF SessionInv

(* However the session ended, guest_exit leaves every slot free.           *)
LEMMA ExitInv ==
    ASSUME SessionInv, NEW stopped \in BOOLEAN, guest_exit(stopped)
    PROVE  SessionInv'
<1> USE DEF bridgeVars, glibVars, lockVars, history
<1>1. pc = "exit" /\ TypeOK /\ SlotDiscipline /\ job.id \in JobIds
  BY DEF guest_exit, SessionInv
<1>2. /\ connections' \in Tables /\ ~connections'[0].active
      /\ \A i \in Slots \ {0} : connections'[i] = connections[i]
  BY ConnectionFacts, EndTable DEF guest_exit, Close_Connection, releaseGuestConnection, saveTaskData
<1>3. gc' \in GuestConnections /\ gc'.connectionID = 0 /\ BufferHolds(gc')
  BY ConnectionFacts, ReleasedType DEF guest_exit, Close_Connection, releaseGuestConnection, saveTaskData
<1>4. ble_data' \in BleData
  <2>1. err \in Errors
    BY <1>1 DEF TypeOK
  <2> QED BY <1>1, <2>1, ResultType DEF guest_exit, Close_Connection, releaseGuestConnection, saveTaskData
<1>5. reports' \in [JobIds -> {"none", "ok", "err"}]
  <2>1. reports \in [JobIds -> {"none", "ok", "err"}]
    BY <1>1 DEF TypeOK
  <2> QED BY <1>1, <2>1 DEF guest_exit, Close_Connection, releaseGuestConnection, saveTaskData
<1>6. published' \in [JobIds -> {"none", "default", "fresh"}]
  <2>1. published \in [JobIds -> {"none", "default", "fresh"}]
    BY <1>1 DEF TypeOK
  <2>2. ble_data.value \in {"default", "fresh"}
    BY <1>1, ResultType DEF BleData
  <2> QED BY <1>1, <2>1, <2>2 DEF guest_exit, Close_Connection, releaseGuestConnection, saveTaskData
<1>7. /\ pc' = "idle" /\ notifying' = FALSE /\ gatt' \in BOOLEAN
      /\ inbox' \in Seq(LockMessages) /\ timer' = "none"
  BY DEF guest_exit, Close_Connection, releaseGuestConnection, saveTaskData
<1>8. UNCHANGED <<job, err, batch, quit, wire, peer, handled, troubled>>
  BY DEF guest_exit, Close_Connection, releaseGuestConnection, saveTaskData
<1>9. TypeOK'
  BY <1>1, <1>2, <1>3, <1>4, <1>5, <1>6, <1>7, <1>8
     DEF TypeOK, GuestConnections, Tables, BleData
<1>10. SlotDiscipline'
  BY <1>1, <1>2, <1>3, <1>7 DEF SlotDiscipline
<1> QED BY <1>3, <1>7, <1>9, <1>10 DEF SessionInv

-----------------------------------------------------------------------------
(* The lock.                                                               *)

Peers == [phase : Phases, job : 0 .. MaxJobs, key : Keys, rx : Nonces, tx : Nonces,
          out : Seq(LockMessages)]

(* The fragments of a message are a sequence of messages of the lock.      *)
LEMMA FragmentsType ==
    ASSUME NEW m \in LockMessages
    PROVE  Fragments(m) \in Seq(LockMessages)
<1>1. m.len \in Nat
  BY DEF LockMessages
<1>2. [i \in 1 .. m.len |-> m] \in Seq(LockMessages)
  BY <1>1
<1> QED BY <1>2 DEF Fragments

(* What the lock reads is a message of the bridge.                         *)
LEMMA LockReadsType ==
    ASSUME TypeOK, NEW kind, NEW phase, LockReads(kind, phase)
    PROVE  /\ Head(wire) \in BridgeMessages
           /\ wire' \in Seq(BridgeMessages)
           /\ peer \in Peers
<1>1. wire \in Seq(BridgeMessages) /\ wire # <<>> /\ wire' = Tail(wire)
  BY DEF TypeOK, LockReads
<1>2. Head(wire) \in BridgeMessages /\ Tail(wire) \in Seq(BridgeMessages)
  BY <1>1
<1>3. peer \in Peers
  BY DEF TypeOK, Peers
<1> QED BY <1>1, <1>2, <1>3

(* A sealed message is a message of the lock.                              *)
LEMMA SealedType ==
    ASSUME peer \in Peers, NEW kind \in {"step4", "response"}, NEW len \in 1 .. MaxFrags,
           NEW ff \in BOOLEAN, NEW good \in BOOLEAN, NEW verdict \in Verdicts
    PROVE  Sealed(kind, len, ff, good, verdict) \in LockMessages
BY DEF Peers, Sealed, LockMessages

(* The invariant says nothing of what only the lock changes.               *)
LEMMA LockKeepsInv ==
    ASSUME SessionInv, peer' \in Peers, wire' \in Seq(BridgeMessages),
           inbox' \in Seq(LockMessages), troubled' \subseteq 0 .. MaxJobs,
           handled' \in [JobIds -> Verdicts \cup {"no"}],
           UNCHANGED <<pc, job, gc, connections, ble_data, err, gatt, notifying, batch,
                       timer, quit, reports, published>>
    PROVE  SessionInv'
<1>1. TypeOK'
  BY DEF SessionInv, TypeOK, Peers
<1> QED BY <1>1 DEF SessionInv, SlotDiscipline, BufferHolds

(* The steps of the lock.                                                  *)
LEMMA LockInv == ASSUME SessionInv, LockStep PROVE SessionInv'
<1> USE DEF bridgeVars, glibVars, lockVars, history
<1>1. /\ TypeOK /\ peer \in Peers /\ peer.job \in 0 .. MaxJobs
      /\ inbox \in Seq(LockMessages) /\ wire \in Seq(BridgeMessages)
      /\ troubled \subseteq 0 .. MaxJobs
      /\ handled \in [JobIds -> Verdicts \cup {"no"}]
  BY DEF SessionInv, TypeOK, Peers
<1>2. ASSUME NEW len \in 1 .. MaxFrags, NEW good \in BOOLEAN, LockStep1(len, good)
      PROVE  SessionInv'
  <2> DEFINE nonce == [by |-> "lock", seed |-> peer.job, n |-> 0]
             step2 == [kind |-> "step2", len |-> len, ff |-> FALSE, good |-> good,
                       key |-> NoKey, nonce |-> nonce, verdict |-> "done"]
  <2>1. nonce \in Nonces
    BY <1>1 DEF Nonces
  <2>2. step2 \in LockMessages
    BY <2>1 DEF LockMessages, Keys, Verdicts
  <2>3. peer' = [peer EXCEPT !.phase = "wait3", !.rx = nonce, !.out = Fragments(step2)]
    BY <1>2 DEF LockStep1
  <2> HIDE DEF nonce, step2
  <2>4. peer' \in Peers
    BY <1>1, <2>1, <2>2, <2>3, FragmentsType DEF Peers, Phases
  <2>5. wire' \in Seq(BridgeMessages) /\ troubled' \subseteq 0 .. MaxJobs
    BY <1>1, <1>2, LockReadsType, TroubleType DEF LockStep1
  <2> QED BY <1>1, <1>2, <2>4, <2>5, LockKeepsInv DEF LockStep1
<1>3. ASSUME NEW len \in 1 .. MaxFrags, NEW ff \in BOOLEAN, NEW good \in BOOLEAN,
             LockStep3(len, ff, good)
      PROVE  SessionInv'
  <2> DEFINE sealed == Sealed("step4", len, ff, good, "done")
             step4 == [sealed EXCEPT !.nonce = Head(wire).body]
  <2>1. /\ Head(wire) \in BridgeMessages /\ wire' \in Seq(BridgeMessages)
        /\ troubled' \subseteq 0 .. MaxJobs
    BY <1>1, <1>3, LockReadsType, TroubleType DEF LockStep3
  <2>2. Head(wire).body \in Nonces /\ peer.rx \in Nonces
    BY <1>1, <2>1 DEF BridgeMessages, Peers
  <2>3. incrementNonce(Head(wire).body) \in Nonces /\ incrementNonce(peer.rx) \in Nonces
    BY <2>2, IncrementType
  <2>4. step4 \in LockMessages
    <3>1. sealed \in LockMessages
      BY <1>1, SealedType DEF Verdicts
    <3> HIDE DEF sealed
    <3> QED BY <2>2, <3>1 DEF LockMessages
  <2>5. peer' = [peer EXCEPT !.phase = "waitcmd", !.rx = incrementNonce(peer.rx),
                             !.tx = incrementNonce(Head(wire).body),
                             !.out = peer.out \o Fragments(step4)]
    BY <1>3 DEF LockStep3
  <2> HIDE DEF step4
  <2>6. peer.out \o Fragments(step4) \in Seq(LockMessages)
    <3>1. peer.out \in Seq(LockMessages) /\ Fragments(step4) \in Seq(LockMessages)
      BY <1>1, <2>4, FragmentsType DEF Peers
    <3> QED BY <3>1
  <2>7. peer' \in Peers
    BY <1>1, <2>3, <2>5, <2>6 DEF Peers, Phases
  <2> QED BY <1>1, <1>3, <2>1, <2>7, LockKeepsInv DEF LockStep3
<1>4. ASSUME NEW len \in 1 .. MaxFrags, NEW ff \in BOOLEAN, NEW good \in BOOLEAN,
             NEW verdict \in Verdicts, LockCommand(len, ff, good, verdict)
      PROVE  SessionInv'
  <2> DEFINE resp == Sealed("response", len, ff, good, verdict)
  <2>1. wire' \in Seq(BridgeMessages) /\ troubled' \subseteq 0 .. MaxJobs
    BY <1>1, <1>4, LockReadsType, TroubleType DEF LockCommand
  <2>2. incrementNonce(peer.tx) \in Nonces
    BY <1>1, IncrementType DEF Peers
  <2>3. resp \in LockMessages
    BY <1>1, SealedType
  <2>4. /\ peer' = [peer EXCEPT !.phase = "end", !.tx = incrementNonce(peer.tx),
                                !.out = peer.out \o Fragments(resp)]
        /\ handled' = [handled EXCEPT ![peer.job] = verdict]
    BY <1>4 DEF LockCommand
  <2> HIDE DEF resp
  <2>5. peer.out \o Fragments(resp) \in Seq(LockMessages)
    <3>1. peer.out \in Seq(LockMessages) /\ Fragments(resp) \in Seq(LockMessages)
      BY <1>1, <2>3, FragmentsType DEF Peers
    <3> QED BY <3>1
  <2>6. peer' \in Peers
    BY <1>1, <2>2, <2>4, <2>5 DEF Peers, Phases
  <2>7. handled' \in [JobIds -> Verdicts \cup {"no"}]
    BY <1>1, <2>4
  <2> QED BY <1>1, <1>4, <2>1, <2>6, <2>7, LockKeepsInv DEF LockCommand
<1>5. ASSUME LockSend PROVE SessionInv'
  <2>1. peer.out \in Seq(LockMessages) /\ peer.out # <<>>
    BY <1>1, <1>5 DEF LockSend, Peers
  <2>2. Head(peer.out) \in LockMessages /\ Tail(peer.out) \in Seq(LockMessages)
    BY <2>1
  <2>3. peer' \in Peers
    BY <1>1, <1>5, <2>2 DEF LockSend, Peers
  <2>4. inbox' \in Seq(LockMessages)
    BY <1>1, <1>5, <2>2 DEF LockSend
  <2> QED BY <1>1, <1>5, <2>3, <2>4, LockKeepsInv DEF LockSend
<1> QED BY <1>2, <1>3, <1>4, <1>5 DEF LockStep

-----------------------------------------------------------------------------
(* The theorems.                                                           *)

(* A step of the thread of WaitMQTT.                                       *)
LEMMA BridgeInv == ASSUME SessionInv, BridgeStep PROVE SessionInv'
BY OpeningInv, Step1Inv, LoopInv, StoreInv, Step2Inv, Step4Inv, ResponseInv, ExitInv
   DEF BridgeStep

(* SessionInv holds in every state of every session, whatever the lock,    *)
(* the timer and the GATT calls do.                                        *)
THEOREM SessionInvariant == Spec => []SessionInv
<1>1. SessionInv /\ [Next]_vars => SessionInv'
  <2> SUFFICES ASSUME SessionInv, [Next]_vars PROVE SessionInv'
    OBVIOUS
  <2>1. CASE StartJob
    BY <2>1, StartJobInv
  <2>2. CASE BridgeStep
    BY <2>2, BridgeInv
  <2>3. CASE Expire
    BY <2>3, LoopInv
  <2>4. CASE LockStep
    BY <2>4, LockInv
  <2>5. CASE UNCHANGED vars
    <3>1. TypeOK'
      BY <2>5 DEF vars, bridgeVars, glibVars, lockVars, history, SessionInv, TypeOK
    <3> QED BY <2>5, <3>1 DEF vars, bridgeVars, glibVars, SessionInv, SlotDiscipline, BufferHolds
  <2>6. CASE AllJobsDone
    BY <2>5, <2>6 DEF AllJobsDone
  <2> QED BY <2>1, <2>2, <2>3, <2>4, <2>5, <2>6 DEF Next
<1> QED BY <1>1, InitInv, PTL DEF Spec

(* Every variable keeps its type: in particular no session ever indexes    *)
(* connections_ outside its kMaxConnections slots.                         *)
THEOREM TypeCorrect == Spec => []TypeOK
<1>1. SessionInv => TypeOK
  BY DEF SessionInv
<1> QED BY <1>1, SessionInvariant, PTL

(* No job, however it ends, leaves a slot of connections_ active, and      *)
(* every session runs in slot 0, the slot that write_guest_step3 and       *)
(* Close_Connection name by a literal.                                     *)
THEOREM SlotsAreDisciplined == Spec => []SlotDiscipline
<1>1. SessionInv => SlotDiscipline
  BY DEF SessionInv
<1> QED BY <1>1, SessionInvariant, PTL

=============================================================================
