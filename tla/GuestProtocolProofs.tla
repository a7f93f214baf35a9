------------------------ MODULE GuestProtocolProofs ------------------------
(***************************************************************************)
(* What a guest session and its lock keep agreeing on while messages are   *)
(* under way: the buffer fits, the nonces agree, every fragment finds its  *)
(* handler, and no callback is left behind.  GuestSessionProofs gives the  *)
(* types and the slots; FlowInv says where the messages of the handshake   *)
(* are at each stage of the session.                                       *)
(***************************************************************************)
EXTENDS GuestSessionProofs

USE ConnectionsAssumption, GuestSessionAssumption

(* Where the messages are.                                                 *)

(* Nothing of the lock is under way.                                       *)
Silent == batch = <<>> /\ inbox = <<>> /\ peer.out = <<>>

BufferEmpty == gc.step_max_size = 0 /\ gc.step_cur_size = 0

AllAre(s, m) == \A i \in 1 .. Len(s) : s[i] = m

(* All that is under way from the lock, and all that is in the buffer, are *)
(* fragments of m, together no more than m has.                            *)
Carrying(m) ==
    /\ AllAre(batch, m) /\ AllAre(inbox, m) /\ AllAre(peer.out, m)
    /\ gc.step_cur_size + Len(batch) + Len(inbox) + Len(peer.out) <= m.len
    /\ \/ BufferEmpty
       \/ /\ gc.step_max_size = IF m.ff THEN Misread ELSE m.len
          /\ gc.step_data = m
          /\ gc.step_cur_size >= 1

(* The stages of a session in its loop.                                    *)
AwaitsStep2 ==
    /\ gc.guest_step = "BEGIN" /\ peer.phase = "wait1"
    /\ Silent /\ BufferEmpty

ReceivesStep2 ==
    /\ gc.guest_step = "BEGIN" /\ peer.phase = "wait3" /\ wire = <<>>
    /\ \E m \in LockMessages : Carrying(m) /\ ~m.ff /\ m.nonce = peer.rx

AwaitsStep4 ==
    /\ gc.guest_step = "STEP4" /\ peer.phase = "wait3"
    /\ Silent /\ BufferEmpty
    /\ wire # <<>> => Head(wire).body = connections[0].rxNonce
    /\ connections[0].txNonce = incrementNonce(peer.rx)

ReceivesStep4 ==
    /\ gc.guest_step = "STEP4" /\ peer.phase = "waitcmd" /\ wire = <<>>
    /\ \E m \in LockMessages :
          Carrying(m) /\ m.key = peer.key /\ m.nonce = connections[0].rxNonce
    /\ connections[0].txNonce = peer.rx
    /\ peer.tx = incrementNonce(connections[0].rxNonce)

(* Step 4 was read and no command was written.                             *)
StuckInStep4 ==
    /\ gc.guest_step = "STEP4" /\ peer.phase = "waitcmd" /\ wire = <<>>
    /\ Silent /\ BufferFits

AwaitsResponse ==
    /\ gc.guest_step = "CMD_RESULT" /\ peer.phase = "waitcmd"
    /\ Silent /\ BufferEmpty
    /\ peer.tx = connections[0].rxNonce

ReceivesResponse ==
    /\ gc.guest_step = "CMD_RESULT" /\ peer.phase = "end"
    /\ \E m \in LockMessages :
          Carrying(m) /\ m.key = peer.key /\ m.nonce = connections[0].rxNonce

Answered ==
    /\ gc.guest_step = "CMD_RESULT" /\ peer.phase = "end"
    /\ Silent /\ BufferFits /\ quit

(* Step 2 was refused or step 3 could not be written.                      *)
BrokenOff == gc.guest_step = "STEP3" /\ batch = <<>> /\ BufferFits /\ quit

InLoop ==
    \/ AwaitsStep2 \/ ReceivesStep2
    \/ AwaitsStep4 \/ ReceivesStep4 \/ StuckInStep4
    \/ AwaitsResponse \/ ReceivesResponse \/ Answered
    \/ BrokenOff

(* At most one message is under way to the lock, and the lock waits for    *)
(* it.                                                                     *)
WireInv ==
    /\ Len(wire) <= 1
    /\ wire # <<>> =>
          /\ Head(wire).kind = "step1" => peer.phase = "wait1"
          /\ Head(wire).kind = "step3" => peer.phase = "wait3" /\ LockOpens
          /\ Head(wire).kind = "cmd" => peer.phase = "waitcmd" /\ LockOpens

(* What each point of the thread has left or not yet begun.                *)
PhaseInv ==
    /\ pc \in {"idle", "connect", "notify"} => ~notifying /\ inbox = <<>> /\ timer = "none"
    /\ pc # "loop" => batch = <<>>
    /\ pc \in {"connect", "notify", "step1"} => gc.guest_step = "BEGIN" /\ BufferEmpty
    /\ pc \in {"notify", "step1"} =>
          /\ peer.phase = "wait1" /\ peer.key = job.lock
          /\ wire = <<>> /\ Silent
    /\ pc = "loop" => connections[0].key = peer.key /\ InLoop
    /\ BufferFits

FlowInv == WireInv /\ PhaseInv

-----------------------------------------------------------------------------
(* Sequences of equal messages.                                            *)

(* A sequence of length 0 is empty.                                        *)
LEMMA EmptySeq == ASSUME NEW S, NEW s \in Seq(S), Len(s) = 0 PROVE s = <<>>
OBVIOUS

(* The head of such a sequence is the message, its tail is another.        *)
LEMMA TailAll ==
    ASSUME NEW S, NEW s \in Seq(S), s # <<>>, NEW m, AllAre(s, m)
    PROVE  /\ Head(s) = m /\ AllAre(Tail(s), m)
           /\ Len(Tail(s)) = Len(s) - 1 /\ Len(s) >= 1
BY DEF AllAre

(* So is the sequence with one more of them.                               *)
LEMMA AppendAll ==
    ASSUME NEW S, NEW s \in Seq(S), NEW m \in S, AllAre(s, m)
    PROVE  AllAre(Append(s, m), m) /\ Len(Append(s, m)) = Len(s) + 1
BY DEF AllAre

(* The fragments of a message all are that message.                        *)
LEMMA FragmentsAll ==
    ASSUME NEW m \in LockMessages
    PROVE  /\ AllAre(Fragments(m), m) /\ Len(Fragments(m)) = m.len
           /\ <<>> \o Fragments(m) = Fragments(m)
<1>1. m.len \in Nat
  BY DEF LockMessages
<1>2. Fragments(m) \in Seq(LockMessages) /\ Len(Fragments(m)) = m.len
  BY <1>1 DEF Fragments
<1>3. AllAre(Fragments(m), m)
  BY <1>1, <1>2 DEF Fragments, AllAre
<1> QED BY <1>2, <1>3

-----------------------------------------------------------------------------
(* What a message under way goes through.                                  *)

(* The types that the rest needs.                                          *)
LEMMA FlowTypes ==
    ASSUME SessionInv
    PROVE  /\ gc \in GuestConnections /\ gc.connectionID = 0
           /\ connections \in Tables /\ peer \in Peers
           /\ batch \in Seq(LockMessages) /\ inbox \in Seq(LockMessages)
           /\ peer.out \in Seq(LockMessages) /\ wire \in Seq(BridgeMessages)
BY DEF SessionInv, SlotDiscipline, TypeOK, GuestConnections, Tables, Peers

(* A fragment of m that save_message_data takes from the batch is counted  *)
(* in the buffer instead, which has room for it.  When the buffer then     *)
(* counts as complete, m is all in it and nothing else is under way.       *)
LEMMA SaveCarrying ==
    ASSUME SessionInv, NEW m \in LockMessages, Carrying(m), batch # <<>>
    PROVE  LET saved == save_message_data(gc, Head(batch)) IN
           /\ saved.step_data = m
           /\ saved.step_max_size = IF m.ff THEN Misread ELSE m.len
           /\ saved.step_cur_size = gc.step_cur_size + 1
           /\ saved.step_cur_size <= saved.step_max_size
           /\ saved.guest_step = gc.guest_step
           /\ saved.step_cur_size + Len(Tail(batch)) + Len(inbox) + Len(peer.out) <= m.len
           /\ AllAre(Tail(batch), m)
           /\ Complete(saved) => Tail(batch) = <<>> /\ inbox = <<>> /\ peer.out = <<>>
<1> DEFINE saved == save_message_data(gc, Head(batch))
<1>1. m.len \in 1 .. MaxFrags /\ m.ff \in BOOLEAN
  BY DEF LockMessages
<1>2. /\ gc \in GuestConnections /\ gc.step_cur_size \in Nat /\ gc.step_max_size \in Nat
      /\ batch \in Seq(LockMessages) /\ inbox \in Seq(LockMessages)
      /\ peer.out \in Seq(LockMessages)
  BY FlowTypes DEF GuestConnections
<1>3. /\ Head(batch) = m /\ AllAre(Tail(batch), m)
      /\ Len(Tail(batch)) = Len(batch) - 1 /\ Len(batch) >= 1
  BY <1>2, TailAll DEF Carrying
<1>4. /\ saved.step_data = m
      /\ saved.step_max_size = IF m.ff THEN Misread ELSE m.len
      /\ saved.step_cur_size = gc.step_cur_size + 1
      /\ saved.guest_step = gc.guest_step
  <2>1. CASE BufferEmpty
    BY <1>2, <1>3, <2>1 DEF BufferEmpty, save_message_data, GuestConnections
  <2>2. CASE ~BufferEmpty
    <3>1. /\ gc.step_max_size = IF m.ff THEN Misread ELSE m.len
          /\ gc.step_data = m
      BY <2>2 DEF Carrying
    <3>2. gc.step_max_size = Misread \/ gc.step_max_size = m.len
      BY <3>1
    <3>3. gc.step_max_size # 0
      BY <1>1, <3>2 DEF Misread
    <3> QED BY <1>2, <3>1, <3>3 DEF save_message_data, GuestConnections
  <2> QED BY <2>1, <2>2
<1>5. /\ Len(batch) \in Nat /\ Len(inbox) \in Nat /\ Len(peer.out) \in Nat
      /\ gc.step_cur_size + Len(batch) + Len(inbox) + Len(peer.out) <= m.len
  BY <1>2 DEF Carrying
<1>6. gc.step_cur_size + 1 + Len(Tail(batch)) + Len(inbox) + Len(peer.out) <= m.len
  BY <1>1, <1>2, <1>3, <1>5
<1>7. ASSUME Complete(saved)
      PROVE  Tail(batch) = <<>> /\ inbox = <<>> /\ peer.out = <<>>
  <2>1. gc.step_cur_size + 1 = Misread \/ gc.step_cur_size + 1 = m.len
    BY <1>4, <1>7 DEF Complete
  <2>2. gc.step_cur_size + 1 = m.len
    BY <1>1, <1>2, <1>5, <2>1 DEF Misread
  <2>3. Tail(batch) \in Seq(LockMessages)
    BY <1>2, <1>3
  <2>4. \A a, b, c, n \in Nat : n + a + b + c <= n => a = 0 /\ b = 0 /\ c = 0
    OBVIOUS
  <2>5. Len(Tail(batch)) = 0 /\ Len(inbox) = 0 /\ Len(peer.out) = 0
    <3>1. Len(Tail(batch)) \in Nat /\ m.len \in Nat
      BY <1>1, <2>3
    <3>2. m.len + Len(Tail(batch)) + Len(inbox) + Len(peer.out) <= m.len
      BY <1>6, <2>2
    <3> QED BY <1>5, <2>4, <3>1, <3>2
  <2> QED BY <1>2, <2>3, <2>5, EmptySeq
<1>8. saved.step_cur_size <= saved.step_max_size
  <2>1. saved.step_max_size = Misread \/ saved.step_max_size = m.len
    BY <1>4
  <2>2. Tail(batch) \in Seq(LockMessages)
    BY <1>2, <1>3
  <2>3. \A a, b, c, d, n \in Nat : d + a + b + c <= n => d <= n
    OBVIOUS
  <2>4. gc.step_cur_size + 1 <= m.len
    <3>1. Len(Tail(batch)) \in Nat /\ m.len \in Nat /\ gc.step_cur_size + 1 \in Nat
      BY <1>1, <1>2, <2>2
    <3> QED BY <1>5, <1>6, <2>3, <3>1
  <2> HIDE DEF saved
  <2> QED BY <1>1, <1>2, <1>4, <2>1, <2>4 DEF Misread
<1> QED BY <1>3, <1>4, <1>6, <1>7, <1>8

-----------------------------------------------------------------------------
(* FlowInv is kept.                                                        *)

(* A stage depends on the step, the buffer, the messages under way, the    *)
(* lock and slot 0 only.                                                   *)
LEMMA StageKept ==
    ASSUME InLoop,
           gc'.guest_step = gc.guest_step, gc'.step_data = gc.step_data,
           gc'.step_max_size = gc.step_max_size, gc'.step_cur_size = gc.step_cur_size,
           connections'[0] = connections[0], quit => quit',
           UNCHANGED <<batch, inbox, wire, peer>>
    PROVE  InLoop'
<1>1. /\ Silent => Silent'
      /\ BufferEmpty => BufferEmpty'
      /\ BufferFits => BufferFits'
      /\ \A m : Carrying(m) => Carrying(m)'
  BY DEF Silent, BufferEmpty, BufferFits, Carrying, AllAre
<1> HIDE DEF Silent, BufferEmpty, BufferFits, Carrying
<1>2. CASE AwaitsStep2
  BY <1>1, <1>2 DEF InLoop, AwaitsStep2
<1>3. CASE ReceivesStep2
  BY <1>1, <1>3 DEF InLoop, ReceivesStep2
<1>4. CASE AwaitsStep4
  BY <1>1, <1>4 DEF InLoop, AwaitsStep4
<1>5. CASE ReceivesStep4
  BY <1>1, <1>5 DEF InLoop, ReceivesStep4
<1>6. CASE StuckInStep4
  BY <1>1, <1>6 DEF InLoop, StuckInStep4
<1>7. CASE AwaitsResponse
  BY <1>1, <1>7 DEF InLoop, AwaitsResponse
<1>8. CASE ReceivesResponse
  BY <1>1, <1>8 DEF InLoop, ReceivesResponse
<1>9. CASE Answered
  BY <1>1, <1>9 DEF InLoop, Answered
<1>10. CASE BrokenOff
  BY <1>1, <1>10 DEF InLoop, BrokenOff
<1> QED BY <1>2, <1>3, <1>4, <1>5, <1>6, <1>7, <1>8, <1>9, <1>10 DEF InLoop

(* The wire and the lock's expectations stay as they are.                  *)
LEMMA WireKept == ASSUME WireInv, UNCHANGED <<wire, peer>> PROVE WireInv'
BY DEF WireInv, LockOpens

(* Nothing is under way before the first job.                              *)
LEMMA InitFlow == Init => FlowInv
BY DEF Init, FlowInv, WireInv, PhaseInv, BufferFits, initGuestConnection

(* A new job starts from an empty buffer.                                  *)
LEMMA StartFlow == ASSUME SessionInv, FlowInv, StartJob PROVE FlowInv'
<1> USE DEF bridgeVars, glibVars, lockVars, history
<1>1. ASSUME NEW l \in Locks, NEW keyOk \in BOOLEAN, NEW cmd \in Commands,
             HandleLockCMD(l, keyOk, cmd)
      PROVE  FlowInv'
  <2>1. WireInv'
    BY <1>1, WireKept DEF HandleLockCMD, FlowInv
  <2>2. gc'.guest_step = "BEGIN" /\ BufferEmpty' /\ BufferFits'
    BY <1>1 DEF HandleLockCMD, initGuestConnection, BufferEmpty, BufferFits
  <2>3. PhaseInv'
    BY <1>1, <2>2 DEF HandleLockCMD, FlowInv, PhaseInv
  <2> QED BY <2>1, <2>3 DEF FlowInv
<1>2. ASSUME NEW l \in Locks, HandleUnknownCMD(l) PROVE FlowInv'
  <2>1. WireInv'
    BY <1>2, WireKept DEF HandleUnknownCMD, FlowInv
  <2>2. PhaseInv'
    BY <1>2 DEF HandleUnknownCMD, FlowInv, PhaseInv, BufferFits
  <2> QED BY <2>1, <2>2 DEF FlowInv
<1> QED BY <1>1, <1>2 DEF StartJob

(* A new link starts with nothing under way; message_handler is connected  *)
(* before step 1 is written.                                               *)
LEMMA OpeningFlow ==
    ASSUME SessionInv, FlowInv,
           \/ \E ok \in BOOLEAN : Connect(ok)
           \/ \E ok, connected \in BOOLEAN : NotificationStart(ok, connected)
    PROVE  FlowInv'
<1> USE DEF bridgeVars, glibVars, lockVars, history
<1>1. ASSUME NEW ok \in BOOLEAN, Connect(ok) PROVE FlowInv'
  <2>1. CASE ok
    <3>1. /\ pc = "connect" /\ pc' = "notify" /\ wire' = <<>>
          /\ peer'.phase = "wait1" /\ peer'.key = job.lock /\ peer'.out = <<>>
          /\ UNCHANGED <<job, gc, connections, notifying, inbox, batch, timer, quit>>
      BY <1>1, <2>1 DEF Connect, LinkDown
    <3>2. WireInv'
      BY <3>1 DEF WireInv
    <3>3. PhaseInv'
      BY <3>1 DEF FlowInv, PhaseInv, BufferEmpty, BufferFits, Silent
    <3> QED BY <3>2, <3>3 DEF FlowInv
  <2>2. CASE ~ok
    <3>1. /\ pc = "connect" /\ pc' = "exit"
          /\ UNCHANGED <<job, gc, connections, notifying, inbox, batch, timer, quit,
                         wire, peer>>
      BY <1>1, <2>2 DEF Connect
    <3>2. WireInv'
      BY <3>1, WireKept DEF FlowInv
    <3>3. PhaseInv'
      BY <3>1 DEF FlowInv, PhaseInv, BufferFits
    <3> QED BY <3>2, <3>3 DEF FlowInv
  <2> QED BY <2>1, <2>2
<1>2. ASSUME NEW ok \in BOOLEAN, NEW connected \in BOOLEAN,
             NotificationStart(ok, connected)
      PROVE  FlowInv'
  <2>1. /\ pc = "notify" /\ pc' \in {"step1", "exit"}
        /\ gc' = gc \/ gc' = [gc EXCEPT !.guest_step = "BEGIN"]
        /\ UNCHANGED <<job, connections, inbox, batch, quit, wire, peer>>
    BY <1>2 DEF NotificationStart
  <2>2. WireInv'
    BY <2>1, WireKept DEF FlowInv
  <2>3. gc'.guest_step = "BEGIN" /\ BufferEmpty' /\ BufferFits'
    BY <2>1, FlowTypes DEF FlowInv, PhaseInv, BufferEmpty, BufferFits, GuestConnections
  <2>4. PhaseInv'
    BY <2>1, <2>3 DEF FlowInv, PhaseInv, Silent
  <2> QED BY <2>2, <2>4 DEF FlowInv
<1> QED BY <1>1, <1>2

(* What the operations do to slot 0.                                       *)
LEMMA SlotZeroOperations ==
    ASSUME NEW conns \in Tables, NEW nonce \in Nonces
    PROVE  /\ genConnStep3(conns, 0, nonce)[0].key = conns[0].key
           /\ genConnStep3(conns, 0, nonce)[0].rxNonce = conns[0].rxNonce
           /\ genConnStep3(conns, 0, nonce)[0].txNonce = incrementNonce(nonce)
           /\ recConnStep4(conns, 0)[0].key = conns[0].key
           /\ recConnStep4(conns, 0)[0].rxNonce = incrementNonce(conns[0].rxNonce)
           /\ recConnStep4(conns, 0)[0].txNonce = conns[0].txNonce
           /\ encryptNative(conns, 0)[0].key = conns[0].key
           /\ encryptNative(conns, 0)[0].rxNonce = conns[0].rxNonce
           /\ decryptNative(conns, 0)[0].key = conns[0].key
           /\ endConnection(conns, 0)[0].key = conns[0].key
<1>1. conns[0] \in Connection /\ DOMAIN conns = Slots
  BY SlotZero DEF Tables
<1> QED BY <1>1, SlotZero
        DEF genConnStep3, recConnStep4, encryptNative, decryptNative, endConnection,
            Connection, Tables

(* The slot that beginConnection takes gets the key it was given.          *)
LEMMA BegunKey ==
    ASSUME NEW conns \in Tables, ~conns[0].active, NEW key, NEW second
    PROVE  beginConnection(conns, key, TRUE, second)[0].key = key
<1>1. FreeSlots(conns) # {} /\ FirstFree(conns) = 0
  BY FirstFreeIsZero
<1>2. conns[0] \in Connection /\ DOMAIN conns = Slots
  BY SlotZero DEF Tables
<1> QED BY <1>1, <1>2, SlotZero DEF beginConnection, Connection

(* Step 1 is the only message under way when the loop starts.              *)
LEMMA Step1Flow ==
    ASSUME SessionInv, FlowInv, NEW second \in {job.id - 1, job.id}, NEW sent \in BOOLEAN,
           NEW reached \in BOOLEAN, write_guest_step1(second, sent, reached)
    PROVE  FlowInv'
<1> USE DEF bridgeVars, glibVars, lockVars, history
<1> DEFINE id == beginConnectionId(connections, job.keyOk)
           step1 == [kind |-> "step1", key |-> NoKey, nonce |-> ZeroNonce, body |-> ZeroNonce]
<1>1. /\ pc = "step1" /\ ~connections[0].active /\ job.keyOk \in BOOLEAN
      /\ job.lock \in Keys /\ job.id \in JobIds
  BY DEF write_guest_step1, SessionInv, SlotDiscipline, TypeOK
<1>2. /\ UNCHANGED <<job, notifying, inbox, batch, timer, quit, peer>>
      /\ connections' = beginConnection(connections, job.lock, job.keyOk, second)
      /\ pc' \in {"loop", "exit"}
      /\ wire' = wire \/ wire' = Append(wire, step1)
      /\ \/ pc' = "exit" /\ gc' = gc
         \/ id # ERROR_CONNECTION_ID /\ gc' = [gc EXCEPT !.connectionID = id]
  BY DEF write_guest_step1, Write
<1>3. /\ peer.phase = "wait1" /\ peer.key = job.lock /\ wire = <<>>
      /\ Silent /\ BufferEmpty /\ gc.guest_step = "BEGIN"
  BY <1>1 DEF FlowInv, PhaseInv
<1>4. WireInv'
  <2>1. CASE wire' = <<>>
    BY <2>1 DEF WireInv
  <2>2. CASE wire' = Append(<<>>, step1)
    <3>1. Len(wire') = 1 /\ Head(wire').kind = "step1"
      BY <2>2
    <3> QED BY <1>2, <1>3, <3>1 DEF WireInv
  <2> QED BY <1>2, <1>3, <2>1, <2>2
<1>5. /\ gc'.guest_step = gc.guest_step
      /\ gc'.step_max_size = gc.step_max_size /\ gc'.step_cur_size = gc.step_cur_size
  <2> HIDE DEF id
  <2> QED BY <1>2, FlowTypes DEF GuestConnections
<1>6. AwaitsStep2' /\ BufferFits'
  BY <1>2, <1>3, <1>5 DEF AwaitsStep2, Silent, BufferEmpty, BufferFits
<1>7. ASSUME pc' = "loop" PROVE connections'[0].key = peer'.key
  <2>1. second \in Nat
    BY <1>1 DEF JobIds
  <2>2. id = IF job.keyOk THEN 0 ELSE ERROR_CONNECTION_ID
    BY <1>1, <2>1, FlowTypes, BeginTable
  <2>3. job.keyOk = TRUE
    BY <1>1, <1>2, <1>7, <2>2
  <2>4. connections' = beginConnection(connections, job.lock, TRUE, second)
    BY <1>2, <2>3
  <2>5. connections'[0].key = job.lock
    <3>1. connections \in Tables
      BY FlowTypes
    <3>2. beginConnection(connections, job.lock, TRUE, second)[0].key = job.lock
      BY <1>1, <3>1, BegunKey
    <3> QED BY <2>4, <3>2
  <2> QED BY <1>2, <1>3, <2>5
<1>8. PhaseInv'
  BY <1>2, <1>3, <1>6, <1>7 DEF PhaseInv, InLoop, Silent
<1> QED BY <1>4, <1>8 DEF FlowInv

(* The timer changes no stage.                                             *)
LEMMA TimerFlow ==
    ASSUME SessionInv, FlowInv, Expire \/ stop_main_loop_func
    PROVE  FlowInv'
<1> USE DEF bridgeVars, glibVars, lockVars, history
<1>1. /\ gc' = gc \/ gc' = [gc EXCEPT !.waiting_err = TRUE]
      /\ quit => quit'
      /\ timer # "none" /\ pc \notin {"idle", "connect", "notify"}
      /\ UNCHANGED <<pc, job, connections, notifying, inbox, batch, wire, peer>>
  <2>1. timer # "none"
    BY DEF Expire, stop_main_loop_func
  <2>2. pc \notin {"idle", "connect", "notify"}
    BY <2>1 DEF FlowInv, PhaseInv
  <2>3. CASE Expire
    BY <2>1, <2>2, <2>3 DEF Expire
  <2>4. CASE stop_main_loop_func
    BY <2>1, <2>2, <2>4 DEF stop_main_loop_func
  <2> QED BY <2>3, <2>4
<1>2. /\ gc'.guest_step = gc.guest_step /\ gc'.step_data = gc.step_data
      /\ gc'.step_max_size = gc.step_max_size /\ gc'.step_cur_size = gc.step_cur_size
  BY <1>1, FlowTypes DEF GuestConnections
<1>3. WireInv'
  BY <1>1, WireKept DEF FlowInv
<1>4. InLoop => InLoop'
  BY <1>1, <1>2, StageKept
<1>5. PhaseInv'
  BY <1>1, <1>2, <1>4 DEF FlowInv, PhaseInv, BufferEmpty, BufferFits, Silent
<1> QED BY <1>3, <1>5 DEF FlowInv

(* An iteration takes the whole queue of notifications.                    *)
LEMMA IterateFlow == ASSUME SessionInv, FlowInv, Iterate PROVE FlowInv'
<1> USE DEF bridgeVars, glibVars, lockVars, history
<1>1. /\ pc = "loop" /\ batch = <<>> /\ ~quit /\ batch' = inbox /\ inbox' = <<>>
      /\ UNCHANGED <<pc, job, gc, connections, notifying, wire, peer, quit>>
  BY DEF Iterate
<1>2. WireInv'
  BY <1>1, WireKept DEF FlowInv
<1>3. /\ Silent => Silent'
      /\ BufferEmpty => BufferEmpty'
      /\ BufferFits => BufferFits'
      /\ \A m \in LockMessages : Carrying(m) => Carrying(m)'
  <2>1. ASSUME NEW m \in LockMessages, Carrying(m) PROVE Carrying(m)'
    <3>1. Len(inbox) \in Nat /\ gc.step_cur_size \in Nat /\ Len(<<>>) = 0 /\ Len(peer.out) \in Nat
      BY FlowTypes DEF GuestConnections
    <3>2. gc.step_cur_size + Len(batch) + Len(inbox) + Len(peer.out) <= m.len
      BY <2>1 DEF Carrying
    <3>3. (gc.step_cur_size + Len(batch) + Len(inbox) + Len(peer.out))' <= m.len
      BY <1>1, <3>1, <3>2
    <3> QED BY <1>1, <2>1, <3>3 DEF Carrying, AllAre, BufferEmpty
  <2> QED BY <1>1, <2>1 DEF Silent, BufferEmpty, BufferFits
<1>4. InLoop'
  <2>1. InLoop /\ ~Answered /\ ~BrokenOff
    BY <1>1 DEF FlowInv, PhaseInv, Answered, BrokenOff
  <2> HIDE DEF Silent, BufferEmpty, BufferFits, Carrying
  <2>2. CASE AwaitsStep2
    BY <1>1, <1>3, <2>2 DEF InLoop, AwaitsStep2
  <2>3. CASE ReceivesStep2
    BY <1>1, <1>3, <2>3 DEF InLoop, ReceivesStep2
  <2>4. CASE AwaitsStep4
    BY <1>1, <1>3, <2>4 DEF InLoop, AwaitsStep4
  <2>5. CASE ReceivesStep4
    BY <1>1, <1>3, <2>5 DEF InLoop, ReceivesStep4
  <2>6. CASE StuckInStep4
    BY <1>1, <1>3, <2>6 DEF InLoop, StuckInStep4
  <2>7. CASE AwaitsResponse
    BY <1>1, <1>3, <2>7 DEF InLoop, AwaitsResponse
  <2>8. CASE ReceivesResponse
    BY <1>1, <1>3, <2>8 DEF InLoop, ReceivesResponse
  <2> QED BY <2>1, <2>2, <2>3, <2>4, <2>5, <2>6, <2>7, <2>8 DEF InLoop
<1>5. PhaseInv'
  BY <1>1, <1>3, <1>4 DEF FlowInv, PhaseInv
<1> QED BY <1>2, <1>5 DEF FlowInv

(* A fragment is dispatched only while a message of the lock is under way. *)
LEMMA NotifiedStage ==
    ASSUME SessionInv, FlowInv, NEW step, Notified(step)
    PROVE  /\ pc = "loop" /\ batch # <<>> /\ batch' = Tail(batch)
           /\ gc.guest_step = step /\ connections[0].key = peer.key
           /\ \/ step = "BEGIN" /\ ReceivesStep2
              \/ step = "STEP4" /\ ReceivesStep4
              \/ step = "CMD_RESULT" /\ ReceivesResponse
<1>1. /\ pc = "loop" /\ batch # <<>> /\ batch' = Tail(batch) /\ gc.guest_step = step
      /\ InLoop /\ connections[0].key = peer.key
  BY DEF Notified, FlowInv, PhaseInv
<1>2. /\ ~AwaitsStep2 /\ ~AwaitsStep4 /\ ~StuckInStep4 /\ ~AwaitsResponse
      /\ ~Answered /\ ~BrokenOff
  BY <1>1 DEF AwaitsStep2, AwaitsStep4, StuckInStep4, AwaitsResponse, Answered,
              BrokenOff, Silent
<1>3. /\ ReceivesStep2 => gc.guest_step = "BEGIN"
      /\ ReceivesStep4 => gc.guest_step = "STEP4"
      /\ ReceivesResponse => gc.guest_step = "CMD_RESULT"
  BY DEF ReceivesStep2, ReceivesStep4, ReceivesResponse
<1> QED BY <1>1, <1>2, <1>3 DEF InLoop

(* A stored fragment leaves its message under way.                         *)
LEMMA StoreFlow == ASSUME SessionInv, FlowInv, NEW step, StoreFragment(step) PROVE FlowInv'
<1> USE DEF bridgeVars, glibVars, lockVars, history
<1> DEFINE saved == save_message_data(gc, Head(batch))
<1>1. /\ pc = "loop" /\ batch # <<>> /\ batch' = Tail(batch) /\ gc' = saved
      /\ gc.guest_step = step /\ connections[0].key = peer.key
      /\ \/ step = "BEGIN" /\ ReceivesStep2
         \/ step = "STEP4" /\ ReceivesStep4
         \/ step = "CMD_RESULT" /\ ReceivesResponse
      /\ UNCHANGED <<pc, job, connections, notifying, inbox, timer, quit, wire, peer>>
  BY NotifiedStage DEF StoreFragment
<1>2. ASSUME NEW m \in LockMessages, Carrying(m)
      PROVE  Carrying(m)' /\ BufferFits' /\ gc'.guest_step = gc.guest_step
  <2>1. /\ saved.step_data = m
        /\ saved.step_max_size = IF m.ff THEN Misread ELSE m.len
        /\ saved.step_cur_size = gc.step_cur_size + 1
        /\ saved.step_cur_size <= saved.step_max_size
        /\ saved.guest_step = gc.guest_step
        /\ saved.step_cur_size + Len(Tail(batch)) + Len(inbox) + Len(peer.out) <= m.len
        /\ AllAre(Tail(batch), m)
    BY <1>1, <1>2, SaveCarrying
  <2> HIDE DEF saved
  <2>2. gc'.step_cur_size >= 1
    <3>1. gc.step_cur_size \in Nat
      BY FlowTypes DEF GuestConnections
    <3> QED BY <1>1, <2>1, <3>1
  <2>3. Carrying(m)'
    <3>1. AllAre(inbox, m) /\ AllAre(peer.out, m)
      BY <1>2 DEF Carrying
    <3>2. AllAre(inbox, m)' /\ AllAre(peer.out, m)' /\ AllAre(batch, m)'
      BY <1>1, <2>1, <3>1 DEF AllAre
    <3>3. (gc.step_cur_size + Len(batch) + Len(inbox) + Len(peer.out))' <= m.len
      BY <1>1, <2>1
    <3> QED BY <1>1, <2>1, <2>2, <3>2, <3>3 DEF Carrying
  <2>4. BufferFits'
    BY <1>1, <2>1 DEF BufferFits
  <2> QED BY <1>1, <2>1, <2>3, <2>4
<1>3. WireInv'
  BY <1>1, WireKept DEF FlowInv
<1>4. InLoop' /\ BufferFits'
  <2> HIDE DEF saved
  <2>1. CASE ReceivesStep2
    BY <1>1, <1>2, <2>1 DEF InLoop, ReceivesStep2
  <2>2. CASE ReceivesStep4
    BY <1>1, <1>2, <2>2 DEF InLoop, ReceivesStep4
  <2>3. CASE ReceivesResponse
    BY <1>1, <1>2, <2>3 DEF InLoop, ReceivesResponse
  <2> QED BY <1>1, <2>1, <2>2, <2>3
<1>5. PhaseInv'
  BY <1>1, <1>4 DEF FlowInv, PhaseInv
<1> QED BY <1>3, <1>5 DEF FlowInv

(* Releasing a buffer that holds a message empties it.                     *)
LEMMA ReleasedEmpty ==
    ASSUME NEW g \in GuestConnections, g.step_max_size # 0, g.step_data \in LockMessages
    PROVE  LET r == releaseGuestConnectionData(g) IN
           r.step_max_size = 0 /\ r.step_cur_size = 0 /\ r.guest_step = g.guest_step
BY NoMessageAssumption DEF releaseGuestConnectionData, GuestConnections

(* What a handler starts from when the last fragment of the message m has  *)
(* been saved.                                                             *)
LEMMA CompleteFacts ==
    ASSUME SessionInv, FlowInv, NEW step, Notified(step),
           Complete(save_message_data(gc, Head(batch))),
           NEW m \in LockMessages, Carrying(m)
    PROVE  LET saved == save_message_data(gc, Head(batch)) IN
           /\ saved \in GuestConnections /\ saved.connectionID = 0
           /\ saved.step_data = m
           /\ saved.step_max_size # 0 /\ saved.step_cur_size = saved.step_max_size
           /\ saved.guest_step = step
           /\ batch' = <<>> /\ inbox = <<>> /\ peer.out = <<>>
<1> DEFINE saved == save_message_data(gc, Head(batch))
<1>1. batch # <<>> /\ batch' = Tail(batch) /\ gc.guest_step = step
  BY NotifiedStage
<1>2. saved \in GuestConnections /\ saved.connectionID = 0
  BY SavedFacts
<1>3. /\ saved.step_data = m /\ saved.guest_step = gc.guest_step
      /\ saved.step_max_size = IF m.ff THEN Misread ELSE m.len
      /\ Tail(batch) = <<>> /\ inbox = <<>> /\ peer.out = <<>>
  BY <1>1, SaveCarrying
<1>4. saved.step_max_size # 0
  <2>1. saved.step_max_size = Misread \/ saved.step_max_size = m.len
    BY <1>3
  <2>2. m.len \in 1 .. MaxFrags
    BY DEF LockMessages
  <2> HIDE DEF saved
  <2> QED BY <2>1, <2>2 DEF Misread
<1> QED BY <1>1, <1>2, <1>3, <1>4 DEF Complete

(* Step 3 goes out with the nonce of the lock, or the session is broken    *)
(* off with nothing left to dispatch.                                      *)
LEMMA Step2Flow ==
    ASSUME SessionInv, FlowInv, NEW sent \in BOOLEAN, NEW reached \in BOOLEAN,
           handle_step2_message(sent, reached)
    PROVE  FlowInv'
<1> USE DEF bridgeVars, glibVars, lockVars, history
<1> DEFINE saved == save_message_data(gc, Head(batch))
           step2 == saved.step_data
           step3 == [kind |-> "step3", key |-> connections[0].key, nonce |-> step2.nonce,
                     body |-> connections[0].rxNonce]
           stepped == [saved EXCEPT !.guest_step = "STEP4"]
           failed == [saved EXCEPT !.guest_step = "STEP3", !.receive_err = TRUE]
           gen == genConnStep3(connections, 0, step2.nonce)
<1>1. /\ Notified("BEGIN") /\ Complete(saved) /\ pc = "loop" /\ ReceivesStep2
      /\ connections[0].key = peer.key
      /\ UNCHANGED <<pc, job, notifying, inbox, timer, peer>>
      /\ sent => reached
  BY NotifiedStage DEF handle_step2_message
<1>2. PICK m \in LockMessages : Carrying(m) /\ ~m.ff /\ m.nonce = peer.rx
  BY <1>1 DEF ReceivesStep2
<1>3. /\ saved \in GuestConnections /\ step2 = m
      /\ saved.step_max_size # 0 /\ saved.step_cur_size = saved.step_max_size
      /\ batch' = <<>> /\ inbox = <<>> /\ peer.out = <<>>
  BY <1>1, <1>2, CompleteFacts
<1>4. peer.phase = "wait3" /\ wire = <<>> /\ m.good \in BOOLEAN /\ m.nonce \in Nonces
  BY <1>1 DEF ReceivesStep2, LockMessages
<1>5. /\ gen[0].key = connections[0].key
      /\ gen[0].rxNonce = connections[0].rxNonce
      /\ gen[0].txNonce = incrementNonce(m.nonce)
  BY <1>3, <1>4, FlowTypes, SlotZeroOperations
<1>6. /\ m.good => connections' = gen /\ wire' = IF reached THEN Append(wire, step3) ELSE wire
      /\ ~m.good => connections' = connections /\ wire' = wire
      /\ m.good /\ sent => gc' = releaseGuestConnectionData(stepped)
      /\ ~(m.good /\ sent) => gc' = failed /\ quit' = TRUE
  BY <1>3 DEF handle_step2_message, write_guest_step3, Write
<1>7. WireInv'
  <2>1. CASE wire' = <<>>
    BY <2>1 DEF WireInv
  <2>2. CASE wire' = Append(<<>>, step3)
    <3>1. Len(wire') = 1 /\ Head(wire') = step3
      BY <2>2
    <3>2. step3.kind = "step3" /\ step3.key = peer.key /\ step3.nonce = peer.rx
      BY <1>1, <1>2, <1>3
    <3> HIDE DEF step3
    <3> QED BY <1>1, <1>4, <3>1, <3>2 DEF WireInv, LockOpens
  <2> HIDE DEF gen
  <2> QED BY <1>4, <1>6, <2>1, <2>2
<1>8. connections'[0].key = peer'.key
  <2> HIDE DEF gen
  <2> QED BY <1>1, <1>4, <1>5, <1>6
<1>9. ASSUME m.good, sent PROVE AwaitsStep4' /\ BufferFits'
  <2>1. stepped \in GuestConnections /\ stepped.guest_step = "STEP4"
        /\ stepped.step_max_size # 0 /\ stepped.step_data \in LockMessages
    <3> HIDE DEF saved
    <3> QED BY <1>3 DEF GuestConnections
  <2>2. gc'.step_max_size = 0 /\ gc'.step_cur_size = 0 /\ gc'.guest_step = "STEP4"
    <3> HIDE DEF stepped
    <3> QED BY <1>6, <1>9, <2>1, ReleasedEmpty
  <2>3. BufferEmpty' /\ BufferFits' /\ Silent'
    BY <1>1, <1>3, <2>2 DEF BufferEmpty, BufferFits, Silent
  <2>4. wire' = Append(<<>>, step3)
    <3> HIDE DEF step3, gen
    <3> QED BY <1>1, <1>4, <1>6, <1>9
  <2>5. Head(wire').body = connections[0].rxNonce
    <3>1. Head(wire') = step3
      BY <2>4
    <3> QED BY <3>1
  <2>6. /\ connections'[0].rxNonce = connections[0].rxNonce
        /\ connections'[0].txNonce = incrementNonce(peer'.rx)
    <3> HIDE DEF gen
    <3> QED BY <1>1, <1>2, <1>5, <1>6, <1>9
  <2> QED BY <1>1, <1>4, <2>2, <2>3, <2>5, <2>6 DEF AwaitsStep4
<1>10. ASSUME ~(m.good /\ sent) PROVE BrokenOff' /\ BufferFits'
  <2>1. /\ failed.guest_step = "STEP3"
        /\ failed.step_cur_size = failed.step_max_size /\ failed.step_max_size \in Nat
    <3> HIDE DEF saved
    <3> QED BY <1>3 DEF GuestConnections
  <2> HIDE DEF failed
  <2> QED BY <1>3, <1>6, <1>10, <2>1 DEF BrokenOff, BufferFits
<1>11. PhaseInv'
  <2> HIDE DEF saved, step2, step3, stepped, failed, gen
  <2>1. InLoop' /\ BufferFits'
    BY <1>9, <1>10 DEF InLoop
  <2> QED BY <1>1, <1>8, <2>1 DEF FlowInv, PhaseInv
<1> QED BY <1>7, <1>11 DEF FlowInv

(* The command goes out with the nonce the lock waits for, or the session  *)
(* waits in step 4 for its timer.                                          *)
LEMMA Step4Flow ==
    ASSUME SessionInv, FlowInv, NEW encoded \in BOOLEAN, NEW sent \in BOOLEAN,
           NEW reached \in BOOLEAN, handle_step4_message(encoded, sent, reached)
    PROVE  FlowInv'
<1> USE DEF bridgeVars, glibVars, lockVars, history
<1> DEFINE saved == save_message_data(gc, Head(batch))
           cmd == [kind |-> "cmd", key |-> connections[0].key,
                   nonce |-> connections[0].txNonce, body |-> ZeroNonce]
           rec == recConnStep4(connections, 0)
           moved == [saved EXCEPT !.guest_step = IF encoded THEN "CMD_RESULT" ELSE @]
           failed == [saved EXCEPT !.receive_err = TRUE]
<1>1. /\ Notified("STEP4") /\ Complete(saved) /\ pc = "loop" /\ ReceivesStep4
      /\ connections[0].key = peer.key
      /\ UNCHANGED <<pc, job, notifying, inbox, timer, peer, quit>>
      /\ reached => encoded
  BY NotifiedStage DEF handle_step4_message
<1>2. PICK m \in LockMessages :
         Carrying(m) /\ m.key = peer.key /\ m.nonce = connections[0].rxNonce
  BY <1>1 DEF ReceivesStep4
<1>3. /\ saved \in GuestConnections /\ saved.connectionID = 0 /\ saved.step_data = m
      /\ saved.step_max_size # 0 /\ saved.step_cur_size = saved.step_max_size
      /\ saved.guest_step = "STEP4"
      /\ batch' = <<>> /\ inbox = <<>> /\ peer.out = <<>>
  BY <1>1, <1>2, CompleteFacts
<1>4. /\ peer.phase = "waitcmd" /\ wire = <<>>
      /\ connections[0].txNonce = peer.rx
      /\ peer.tx = incrementNonce(connections[0].rxNonce)
      /\ connections[0].rxNonce \in Nonces
  BY <1>1, FlowTypes, SlotZero DEF ReceivesStep4, Tables, Connection
<1>5. /\ rec \in Tables
      /\ rec[0].key = connections[0].key
      /\ rec[0].rxNonce = incrementNonce(connections[0].rxNonce)
  BY <1>4, FlowTypes, SlotZero, SlotOperations, SlotZeroOperations
<1>6. /\ encryptNative(rec, 0)[0].key = connections[0].key
      /\ encryptNative(rec, 0)[0].rxNonce = rec[0].rxNonce
  <2> HIDE DEF rec
  <2> QED BY <1>4, <1>5, SlotZeroOperations
<1>7. \/ /\ connections' = IF encoded THEN encryptNative(rec, 0) ELSE rec
         /\ wire' = IF reached THEN Append(wire, cmd) ELSE wire
         /\ gc' = releaseGuestConnectionData(moved)
      \/ connections' = rec /\ wire' = wire /\ gc' = failed
  BY <1>3 DEF handle_step4_message, write_cmd_request, Write
<1>8. WireInv'
  <2>1. CASE wire' = <<>>
    BY <2>1 DEF WireInv
  <2>2. CASE wire' = Append(<<>>, cmd)
    <3>1. Len(wire') = 1 /\ Head(wire') = cmd
      BY <2>2
    <3>2. cmd.kind = "cmd" /\ cmd.key = peer.key /\ cmd.nonce = peer.rx
      BY <1>1, <1>4
    <3> HIDE DEF cmd
    <3> QED BY <1>1, <1>4, <3>1, <3>2 DEF WireInv, LockOpens
  <2> HIDE DEF rec, cmd, moved, failed
  <2> QED BY <1>4, <1>7, <2>1, <2>2
<1>9. /\ connections'[0].key = peer'.key
      /\ connections'[0].rxNonce = peer'.tx
  <2> HIDE DEF rec, cmd, moved, failed
  <2> QED BY <1>1, <1>4, <1>5, <1>6, <1>7
<1>10. Silent'
  BY <1>1, <1>3 DEF Silent
<1>11. ASSUME gc' = releaseGuestConnectionData(moved)
       PROVE  /\ BufferEmpty' /\ BufferFits'
              /\ gc'.guest_step = IF encoded THEN "CMD_RESULT" ELSE "STEP4"
  <2>1. /\ moved \in GuestConnections
        /\ moved.step_max_size # 0 /\ moved.step_data \in LockMessages
        /\ moved.guest_step = IF encoded THEN "CMD_RESULT" ELSE "STEP4"
    <3> HIDE DEF saved
    <3> QED BY <1>3 DEF GuestConnections
  <2> HIDE DEF moved
  <2>2. /\ gc'.step_max_size = 0 /\ gc'.step_cur_size = 0
        /\ gc'.guest_step = IF encoded THEN "CMD_RESULT" ELSE "STEP4"
    BY <1>11, <2>1, ReleasedEmpty
  <2> QED BY <2>2 DEF BufferEmpty, BufferFits
<1>12. ASSUME gc' = failed
       PROVE  BufferFits' /\ gc'.guest_step = "STEP4"
  <2>1. /\ failed.guest_step = "STEP4"
        /\ failed.step_cur_size = failed.step_max_size /\ failed.step_max_size \in Nat
    <3> HIDE DEF saved
    <3> QED BY <1>3 DEF GuestConnections
  <2> HIDE DEF failed
  <2> QED BY <1>12, <2>1 DEF BufferFits
<1>13. InLoop' /\ BufferFits'
  <2> HIDE DEF rec, cmd, moved, failed
  <2>1. CASE gc' = releaseGuestConnectionData(moved) /\ encoded
    BY <1>1, <1>4, <1>9, <1>10, <1>11, <2>1 DEF InLoop, AwaitsResponse
  <2>2. CASE wire' = <<>> /\ gc'.guest_step = "STEP4" /\ BufferFits'
    BY <1>1, <1>4, <1>10, <2>2 DEF InLoop, StuckInStep4
  <2>3. CASE gc' = releaseGuestConnectionData(moved) /\ ~encoded
    BY <1>1, <1>4, <1>7, <1>11, <1>12, <2>2, <2>3
  <2>4. CASE gc' = failed
    BY <1>1, <1>4, <1>7, <1>11, <1>12, <2>1, <2>2, <2>3, <2>4
  <2> QED BY <1>7, <2>1, <2>3, <2>4
<1>14. PhaseInv'
  BY <1>1, <1>9, <1>13 DEF FlowInv, PhaseInv
<1> QED BY <1>8, <1>14 DEF FlowInv

(* The response is the last that the lock sends.                           *)
LEMMA ResponseFlow == ASSUME SessionInv, FlowInv, handle_cmd_responce PROVE FlowInv'
<1> USE DEF bridgeVars, glibVars, lockVars, history
<1> DEFINE saved == save_message_data(gc, Head(batch))
           resp == saved.step_data
           opened == Opens(connections[saved.connectionID], resp.key, resp.nonce)
           dec == decryptNative(connections, 0)
           failed == [saved EXCEPT !.receive_err = TRUE]
<1>1. /\ Notified("CMD_RESULT") /\ Complete(saved) /\ pc = "loop" /\ ReceivesResponse
      /\ connections[0].key = peer.key
      /\ UNCHANGED <<pc, job, notifying, inbox, timer, wire, peer>>
      /\ quit' = TRUE
      /\ gc' = saved \/ gc' = failed
  BY NotifiedStage DEF handle_cmd_responce
<1>2. PICK m \in LockMessages :
         Carrying(m) /\ m.key = peer.key /\ m.nonce = connections[0].rxNonce
  BY <1>1 DEF ReceivesResponse
<1>3. /\ saved \in GuestConnections /\ saved.connectionID = 0
      /\ saved.step_cur_size = saved.step_max_size /\ saved.guest_step = "CMD_RESULT"
      /\ batch' = <<>> /\ inbox = <<>> /\ peer.out = <<>>
  BY <1>1, <1>2, CompleteFacts
<1>4. connections'[0].key = connections[0].key
  <2>1. \/ connections' = endConnection(dec, 0) \/ connections' = dec
        \/ connections' = connections
    <3>1. CASE opened /\ resp.good
      BY <1>3, <3>1 DEF handle_cmd_responce
    <3>2. CASE opened /\ ~resp.good
      BY <1>3, <3>2 DEF handle_cmd_responce
    <3>3. CASE ~opened
      BY <3>3 DEF handle_cmd_responce
    <3> QED BY <3>1, <3>2, <3>3
  <2>2. ZeroNonce \in Nonces
    BY DEF ZeroNonce, Nonces
  <2>3. dec \in Tables /\ dec[0].key = connections[0].key
    BY <2>2, FlowTypes, SlotZero, SlotOperations, SlotZeroOperations
  <2> HIDE DEF dec
  <2> QED BY <2>1, <2>2, <2>3, SlotZeroOperations
<1>5. /\ gc'.guest_step = "CMD_RESULT" /\ gc'.step_cur_size = gc'.step_max_size
      /\ gc'.step_max_size \in Nat
  <2> HIDE DEF saved
  <2> QED BY <1>1, <1>3 DEF GuestConnections
<1>6. Answered' /\ BufferFits'
  BY <1>1, <1>3, <1>5 DEF ReceivesResponse, Answered, Silent, BufferFits
<1>7. WireInv'
  BY <1>1, WireKept DEF FlowInv
<1>8. PhaseInv'
  BY <1>1, <1>4, <1>6 DEF FlowInv, PhaseInv, InLoop
<1> QED BY <1>7, <1>8 DEF FlowInv

(* Leaving the loop and ending the job takes down every callback.          *)
LEMMA ExitFlow ==
    ASSUME SessionInv, FlowInv,
           LoopReturn \/ \E stopped \in BOOLEAN : guest_exit(stopped)
    PROVE  FlowInv'
<1> USE DEF bridgeVars, glibVars, lockVars, history
<1>1. CASE LoopReturn
  <2>1. WireInv'
    BY <1>1, WireKept DEF LoopReturn, FlowInv
  <2>2. PhaseInv'
    BY <1>1 DEF LoopReturn, FlowInv, PhaseInv, BufferFits
  <2> QED BY <2>1, <2>2 DEF FlowInv
<1>2. ASSUME NEW stopped \in BOOLEAN, guest_exit(stopped) PROVE FlowInv'
  <2>1. /\ pc = "exit" /\ pc' = "idle" /\ inbox' = <<>> /\ timer' = "none"
        /\ notifying' = FALSE
        /\ gc' = releaseGuestConnectionData(gc)
        /\ UNCHANGED <<job, batch, quit, wire, peer>>
    BY <1>2 DEF guest_exit, Close_Connection, releaseGuestConnection
  <2>2. WireInv'
    BY <2>1, WireKept DEF FlowInv
  <2>3. BufferFits'
    BY <2>1, FlowTypes
       DEF FlowInv, PhaseInv, BufferFits, releaseGuestConnectionData, GuestConnections
  <2>4. PhaseInv'
    BY <2>1, <2>3 DEF FlowInv, PhaseInv
  <2> QED BY <2>2, <2>4 DEF FlowInv
<1> QED BY <1>1, <1>2

(* What the lock reads was the only message on the wire, and the session   *)
(* that wrote it has not ended before its loop.                            *)
LEMMA LockReadsFlow ==
    ASSUME SessionInv, FlowInv, NEW kind, NEW phase, LockReads(kind, phase)
    PROVE  /\ wire # <<>> /\ wire' = <<>> /\ peer.phase = phase
           /\ pc \notin {"notify", "step1"}
           /\ pc = "loop" => InLoop /\ connections[0].key = peer.key
<1>1. wire # <<>> /\ wire' = Tail(wire) /\ peer.phase = phase
  BY DEF LockReads
<1>2. wire \in Seq(BridgeMessages) /\ Len(wire) <= 1
  BY FlowTypes DEF FlowInv, WireInv
<1>3. wire' = <<>>
  <2>1. Tail(wire) \in Seq(BridgeMessages) /\ Len(Tail(wire)) = Len(wire) - 1 /\ Len(wire) \in Nat
    BY <1>1, <1>2
  <2>2. Len(Tail(wire)) \in Nat
    BY <2>1
  <2>3. Len(Tail(wire)) = 0
    BY <1>2, <2>1, <2>2
  <2> QED BY <1>1, <2>1, <2>3, EmptySeq
<1> QED BY <1>1, <1>3 DEF FlowInv, PhaseInv

(* A step of the lock leaves the thread where it is, so that only a        *)
(* session in its loop has more to show.                                   *)
LEMMA LockKeepsFlow ==
    ASSUME FlowInv, pc \notin {"notify", "step1"}, WireInv',
           pc = "loop" => InLoop' /\ peer'.key = peer.key,
           ~notifying => inbox' = inbox,
           UNCHANGED <<pc, job, gc, connections, notifying, batch, timer, quit>>
    PROVE  FlowInv'
<1>1. /\ BufferEmpty => BufferEmpty'
      /\ BufferFits => BufferFits'
  BY DEF BufferEmpty, BufferFits
<1>2. PhaseInv'
  BY <1>1 DEF FlowInv, PhaseInv
<1> QED BY <1>2 DEF FlowInv

(* The message m has been cut into fragments and none is read yet.         *)
LEMMA CarryingStarts ==
    ASSUME SessionInv, NEW m \in LockMessages, Silent, BufferEmpty,
           peer'.out = Fragments(m), UNCHANGED <<gc, batch, inbox>>
    PROVE  Carrying(m)'
<1>1. AllAre(Fragments(m), m) /\ Len(Fragments(m)) = m.len /\ m.len \in Nat
  BY FragmentsAll DEF LockMessages
<1>2. /\ batch' = <<>> /\ inbox' = <<>> /\ gc'.step_cur_size = 0
      /\ AllAre(<<>>, m) /\ Len(<<>>) = 0
  BY DEF Silent, BufferEmpty, AllAre
<1>3. AllAre(batch, m)' /\ AllAre(inbox, m)' /\ AllAre(peer.out, m)'
  BY <1>1, <1>2 DEF AllAre
<1>4. (gc.step_cur_size + Len(batch) + Len(inbox) + Len(peer.out))' <= m.len
  BY <1>1, <1>2
<1> QED BY <1>3, <1>4 DEF Carrying, BufferEmpty

(* Step 2 goes out with the nonce that the lock waits for.                 *)
LEMMA LockStep1Flow ==
    ASSUME SessionInv, FlowInv, NEW len \in 1 .. MaxFrags, NEW good \in BOOLEAN,
           LockStep1(len, good)
    PROVE  FlowInv'
<1> USE DEF bridgeVars, glibVars, lockVars, history
<1> DEFINE nonce == [by |-> "lock", seed |-> peer.job, n |-> 0]
           step2 == [kind |-> "step2", len |-> len, ff |-> FALSE, good |-> good,
                     key |-> NoKey, nonce |-> nonce, verdict |-> "done"]
<1>1. /\ wire # <<>> /\ wire' = <<>> /\ peer.phase = "wait1"
      /\ pc \notin {"notify", "step1"} /\ (pc = "loop" => InLoop)
      /\ UNCHANGED <<pc, job, gc, connections, notifying, inbox, batch, timer, quit>>
  BY LockReadsFlow DEF LockStep1
<1>2. step2 \in LockMessages /\ step2.ff = FALSE /\ step2.nonce = nonce
  <2>1. nonce \in Nonces
    BY FlowTypes DEF Nonces, Peers
  <2> HIDE DEF nonce
  <2> QED BY <2>1 DEF LockMessages, Keys, Verdicts
<1>3. /\ peer'.phase = "wait3" /\ peer'.rx = nonce /\ peer'.out = Fragments(step2)
      /\ peer'.key = peer.key
  <2>1. peer' = [peer EXCEPT !.phase = "wait3", !.rx = nonce, !.out = Fragments(step2)]
    BY DEF LockStep1
  <2> HIDE DEF nonce, step2
  <2> QED BY <2>1, FlowTypes DEF Peers
<1> HIDE DEF step2
<1>m. PICK m \in LockMessages : m = step2
  BY <1>2
<1>4. ASSUME pc = "loop" PROVE InLoop'
  <2>1. AwaitsStep2 \/ BrokenOff
    BY <1>1, <1>4 DEF InLoop, AwaitsStep2, ReceivesStep2, AwaitsStep4, ReceivesStep4,
                      StuckInStep4, AwaitsResponse, ReceivesResponse, Answered
  <2>2. CASE AwaitsStep2
    <3>1. Carrying(m)'
      BY <1>1, <1>3, <1>m, <2>2, CarryingStarts DEF AwaitsStep2
    <3>2. ReceivesStep2'
      BY <1>1, <1>2, <1>3, <1>m, <2>2, <3>1 DEF AwaitsStep2, ReceivesStep2
    <3> QED BY <3>2 DEF InLoop
  <2>3. CASE BrokenOff
    BY <1>1, <2>3 DEF InLoop, BrokenOff, BufferFits
  <2> QED BY <2>1, <2>2, <2>3
<1>5. WireInv'
  BY <1>1 DEF WireInv
<1> QED BY <1>1, <1>3, <1>4, <1>5, LockKeepsFlow

(* Step 4 is sealed with what step 3 carried, the nonce of slot 0.         *)
LEMMA LockStep3Flow ==
    ASSUME SessionInv, FlowInv, NEW len \in 1 .. MaxFrags, NEW ff \in BOOLEAN,
           NEW good \in BOOLEAN, LockStep3(len, ff, good)
    PROVE  FlowInv'
<1> USE DEF bridgeVars, glibVars, lockVars, history
<1> DEFINE sealed == Sealed("step4", len, ff, good, "done")
           step4 == [sealed EXCEPT !.nonce = Head(wire).body]
<1>1. /\ wire # <<>> /\ wire' = <<>> /\ peer.phase = "wait3" /\ peer \in Peers
      /\ pc \notin {"notify", "step1"}
      /\ pc = "loop" => InLoop /\ connections[0].key = peer.key
      /\ UNCHANGED <<pc, job, gc, connections, notifying, inbox, batch, timer, quit>>
  BY LockReadsFlow, FlowTypes DEF LockStep3
<1>2. Head(wire).body \in Nonces
  <2>1. Head(wire) \in BridgeMessages
    BY <1>1, FlowTypes
  <2> QED BY <2>1 DEF BridgeMessages
<1>3. step4 \in LockMessages /\ step4.key = peer.key /\ step4.nonce = Head(wire).body
  <2>1. sealed \in LockMessages /\ sealed.key = peer.key
    BY <1>1, SealedType DEF Verdicts, Sealed
  <2> HIDE DEF sealed
  <2> QED BY <1>2, <2>1 DEF LockMessages
<1>4. /\ peer'.phase = "waitcmd" /\ peer'.rx = incrementNonce(peer.rx)
      /\ peer'.tx = incrementNonce(Head(wire).body)
      /\ peer'.out = peer.out \o Fragments(step4) /\ peer'.key = peer.key
  <2>1. peer' = [peer EXCEPT !.phase = "waitcmd", !.rx = incrementNonce(@),
                             !.tx = incrementNonce(Head(wire).body),
                             !.out = @ \o Fragments(step4)]
    BY DEF LockStep3
  <2> HIDE DEF step4
  <2> QED BY <1>1, <2>1 DEF Peers
<1> HIDE DEF step4
<1>m. PICK m \in LockMessages : m = step4
  BY <1>3
<1>5. ASSUME pc = "loop" PROVE InLoop'
  <2>1. AwaitsStep4 \/ BrokenOff
    BY <1>1, <1>5 DEF InLoop, AwaitsStep2, ReceivesStep2, AwaitsStep4, ReceivesStep4,
                      StuckInStep4, AwaitsResponse, ReceivesResponse, Answered
  <2>2. CASE AwaitsStep4
    <3>1. peer'.out = Fragments(step4)
      BY <1>3, <1>4, <2>2, FragmentsAll DEF AwaitsStep4, Silent
    <3>2. Carrying(m)'
      BY <1>1, <1>m, <2>2, <3>1, CarryingStarts DEF AwaitsStep4
    <3>3. Head(wire).body = connections[0].rxNonce
      BY <1>1, <2>2 DEF AwaitsStep4
    <3>4. ReceivesStep4'
      BY <1>1, <1>3, <1>4, <1>m, <2>2, <3>2, <3>3 DEF AwaitsStep4, ReceivesStep4
    <3> QED BY <3>4 DEF InLoop
  <2>3. CASE BrokenOff
    BY <1>1, <2>3 DEF InLoop, BrokenOff, BufferFits
  <2> QED BY <2>1, <2>2, <2>3
<1>6. WireInv'
  BY <1>1 DEF WireInv
<1> QED BY <1>1, <1>4, <1>5, <1>6, LockKeepsFlow

(* The response is sealed with the next nonce of slot 0.                   *)
LEMMA LockCommandFlow ==
    ASSUME SessionInv, FlowInv, NEW len \in 1 .. MaxFrags, NEW ff \in BOOLEAN,
           NEW good \in BOOLEAN, NEW verdict \in Verdicts,
           LockCommand(len, ff, good, verdict)
    PROVE  FlowInv'
<1> USE DEF bridgeVars, glibVars, lockVars, history
<1> DEFINE resp == Sealed("response", len, ff, good, verdict)
<1>1. /\ wire # <<>> /\ wire' = <<>> /\ peer.phase = "waitcmd" /\ peer \in Peers
      /\ pc \notin {"notify", "step1"}
      /\ pc = "loop" => InLoop /\ connections[0].key = peer.key
      /\ UNCHANGED <<pc, job, gc, connections, notifying, inbox, batch, timer, quit>>
  BY LockReadsFlow, FlowTypes DEF LockCommand
<1>2. resp \in LockMessages /\ resp.key = peer.key /\ resp.nonce = peer.tx
  BY <1>1, SealedType DEF Sealed
<1>3. /\ peer'.phase = "end" /\ peer'.out = peer.out \o Fragments(resp)
      /\ peer'.key = peer.key
  <2>1. peer' = [peer EXCEPT !.phase = "end", !.tx = incrementNonce(@),
                             !.out = @ \o Fragments(resp)]
    BY DEF LockCommand
  <2> HIDE DEF resp
  <2> QED BY <1>1, <2>1 DEF Peers
<1> HIDE DEF resp
<1>m. PICK m \in LockMessages : m = resp
  BY <1>2
<1>4. ASSUME pc = "loop" PROVE InLoop'
  <2>1. AwaitsResponse \/ BrokenOff
    BY <1>1, <1>4 DEF InLoop, AwaitsStep2, ReceivesStep2, AwaitsStep4, ReceivesStep4,
                      StuckInStep4, AwaitsResponse, ReceivesResponse, Answered
  <2>2. CASE AwaitsResponse
    <3>1. peer'.out = Fragments(resp)
      BY <1>2, <1>3, <2>2, FragmentsAll DEF AwaitsResponse, Silent
    <3>2. Carrying(m)'
      BY <1>1, <1>m, <2>2, <3>1, CarryingStarts DEF AwaitsResponse
    <3>3. ReceivesResponse'
      BY <1>1, <1>2, <1>3, <1>m, <2>2, <3>2 DEF AwaitsResponse, ReceivesResponse
    <3> QED BY <3>3 DEF InLoop
  <2>3. CASE BrokenOff
    BY <1>1, <2>3 DEF InLoop, BrokenOff, BufferFits
  <2> QED BY <2>1, <2>2, <2>3
<1>5. WireInv'
  BY <1>1 DEF WireInv
<1> QED BY <1>1, <1>3, <1>4, <1>5, LockKeepsFlow

(* A fragment on its way to the queue stays a fragment under way.          *)
LEMMA LockSendFlow == ASSUME SessionInv, FlowInv, LockSend PROVE FlowInv'
<1> USE DEF bridgeVars, glibVars, lockVars, history
<1>1. /\ peer.out # <<>> /\ peer.out \in Seq(LockMessages) /\ peer \in Peers
      /\ inbox \in Seq(LockMessages) /\ batch \in Seq(LockMessages)
      /\ peer' = [peer EXCEPT !.out = Tail(@)]
      /\ inbox' = inbox \/ inbox' = Append(inbox, Head(peer.out))
      /\ ~notifying => inbox' = inbox
      /\ UNCHANGED <<pc, job, gc, connections, notifying, batch, timer, quit, wire>>
  BY FlowTypes DEF LockSend
<1>2. /\ peer'.phase = peer.phase /\ peer'.key = peer.key /\ peer'.rx = peer.rx
      /\ peer'.tx = peer.tx /\ peer'.out = Tail(peer.out)
  BY <1>1 DEF Peers
<1>3. WireInv'
  BY <1>1, <1>2 DEF FlowInv, WireInv, LockOpens
<1>4. pc \notin {"notify", "step1"}
  BY <1>1 DEF FlowInv, PhaseInv, Silent
<1>5. ASSUME NEW m \in LockMessages, Carrying(m) PROVE Carrying(m)'
  <2>1. /\ Head(peer.out) = m /\ AllAre(Tail(peer.out), m)
        /\ Len(Tail(peer.out)) = Len(peer.out) - 1 /\ Len(peer.out) >= 1
    BY <1>1, <1>5, TailAll DEF Carrying
  <2>2. AllAre(Append(inbox, m), m) /\ Len(Append(inbox, m)) = Len(inbox) + 1
    BY <1>1, <1>5, AppendAll DEF Carrying
  <2>3. AllAre(inbox', m) /\ (Len(inbox') = Len(inbox) \/ Len(inbox') = Len(inbox) + 1)
    BY <1>1, <1>5, <2>1, <2>2 DEF Carrying
  <2>4. gc.step_cur_size + Len(batch) + Len(inbox') + Len(Tail(peer.out)) <= m.len
    <3>1. /\ Len(batch) \in Nat /\ Len(inbox) \in Nat /\ Len(peer.out) \in Nat
          /\ gc.step_cur_size \in Nat /\ m.len \in Nat
      BY <1>1, FlowTypes DEF GuestConnections, LockMessages
    <3>2. gc.step_cur_size + Len(batch) + Len(inbox) + Len(peer.out) <= m.len
      BY <1>5 DEF Carrying
    <3>3. \A g, b, i, o, n \in Nat : g + b + i + o <= n =>
             /\ g + b + i + (o - 1) <= n
             /\ g + b + (i + 1) + (o - 1) <= n
      OBVIOUS
    <3> QED BY <2>1, <2>3, <3>1, <3>2, <3>3
  <2>5. AllAre(batch, m)' /\ AllAre(inbox, m)' /\ AllAre(peer.out, m)'
    BY <1>1, <1>2, <1>5, <2>1, <2>3 DEF Carrying, AllAre
  <2>6. (gc.step_cur_size + Len(batch) + Len(inbox) + Len(peer.out))' <= m.len
    BY <1>1, <1>2, <2>4
  <2> QED BY <1>1, <1>5, <2>5, <2>6 DEF Carrying, BufferEmpty
<1>6. ASSUME pc = "loop" PROVE InLoop'
  <2>1. ReceivesStep2 \/ ReceivesStep4 \/ ReceivesResponse \/ BrokenOff
    BY <1>1, <1>6 DEF FlowInv, PhaseInv, InLoop, AwaitsStep2, AwaitsStep4, StuckInStep4,
                      AwaitsResponse, Answered, Silent
  <2>2. CASE ReceivesStep2
    BY <1>1, <1>2, <1>5, <2>2 DEF InLoop, ReceivesStep2
  <2>3. CASE ReceivesStep4
    BY <1>1, <1>2, <1>5, <2>3 DEF InLoop, ReceivesStep4
  <2>4. CASE ReceivesResponse
    BY <1>1, <1>2, <1>5, <2>4 DEF InLoop, ReceivesResponse
  <2>5. CASE BrokenOff
    BY <1>1, <2>5 DEF InLoop, BrokenOff, BufferFits
  <2> QED BY <2>1, <2>2, <2>3, <2>4, <2>5
<1> QED BY <1>1, <1>2, <1>3, <1>4, <1>6, LockKeepsFlow

(* Every session keeps to the stages, whatever the lock, the timer and the *)
(* GATT calls do.                                                          *)
LEMMA FlowStep == ASSUME SessionInv, FlowInv, [Next]_vars PROVE FlowInv'
<1>1. CASE StartJob
  BY <1>1, StartFlow
<1>2. CASE BridgeStep
  BY <1>2, OpeningFlow, Step1Flow, TimerFlow, IterateFlow, StoreFlow, Step2Flow, Step4Flow,
     ResponseFlow, ExitFlow DEF BridgeStep
<1>3. CASE Expire
  BY <1>3, TimerFlow
<1>4. CASE LockStep
  BY <1>4, LockStep1Flow, LockStep3Flow, LockCommandFlow, LockSendFlow DEF LockStep
<1>5. CASE UNCHANGED vars
  <2>1. UNCHANGED <<pc, job, gc, connections, notifying, inbox, batch, timer, quit, wire, peer>>
    BY <1>5 DEF vars, bridgeVars, glibVars, lockVars, history
  <2>2. WireInv'
    BY <2>1, WireKept DEF FlowInv
  <2>3. InLoop => InLoop'
    BY <2>1, StageKept
  <2>4. PhaseInv'
    BY <2>1, <2>3 DEF FlowInv, PhaseInv, BufferEmpty, BufferFits, Silent
  <2> QED BY <2>2, <2>4 DEF FlowInv
<1>6. CASE AllJobsDone
  BY <1>5, <1>6 DEF AllJobsDone
<1> QED BY <1>1, <1>2, <1>3, <1>4, <1>5, <1>6 DEF Next

(* The stages are an invariant of every session.                           *)
THEOREM FlowInvariant == Spec => []FlowInv
<1>1. SessionInv /\ FlowInv /\ [Next]_vars => FlowInv'
  BY FlowStep
<1> QED BY <1>1, InitFlow, SessionInvariant, PTL DEF Spec

(* save_message_data never writes past the end of step_data.               *)
THEOREM BufferNeverOverflows == Spec => []BufferFits
<1>1. FlowInv => BufferFits
  BY DEF FlowInv, PhaseInv
<1> QED BY <1>1, FlowInvariant, PTL

(* message_handler is never called in the one step it has no case for.     *)
THEOREM FragmentsAreHandled == Spec => []EveryFragmentHasAHandler
<1>1. FlowInv => EveryFragmentHasAHandler
  BY DEF FlowInv, PhaseInv, EveryFragmentHasAHandler, InLoop, AwaitsStep2, ReceivesStep2,
         AwaitsStep4, ReceivesStep4, StuckInStep4, AwaitsResponse, ReceivesResponse,
         Answered, BrokenOff
<1> QED BY <1>1, FlowInvariant, PTL

(* Each side can open what the other has sent it: the nonces of slot 0 and *)
(* of the lock are incremented in step, in every interleaving of the       *)
(* writes, the reads and the timer.                                        *)
THEOREM NoncesAgree == Spec => []NonceAgreement
<1>1. SessionInv /\ FlowInv => NonceAgreement
  <2> SUFFICES ASSUME SessionInv, FlowInv PROVE NonceAgreement
    OBVIOUS
  <2>1. ASSUME wire # <<>>
        PROVE  /\ Head(wire).kind = "step3" => peer.phase = "wait3" /\ LockOpens
               /\ Head(wire).kind = "cmd" => peer.phase = "waitcmd" /\ LockOpens
    BY <2>1 DEF FlowInv, WireInv
  <2>2. ASSUME NEW i \in 1 .. Len(batch),
               \/ gc.guest_step = "STEP4" /\ batch[i].kind = "step4"
               \/ gc.guest_step = "CMD_RESULT" /\ batch[i].kind = "response"
        PROVE  Opens(connections[gc.connectionID], batch[i].key, batch[i].nonce)
    <3>1. batch # <<>> /\ gc.connectionID = 0
      BY FlowTypes
    <3>2. InLoop /\ connections[0].key = peer.key
      BY <3>1 DEF FlowInv, PhaseInv
    <3>3. ReceivesStep4 \/ ReceivesResponse
      BY <2>2, <3>1, <3>2
         DEF InLoop, AwaitsStep2, ReceivesStep2, AwaitsStep4, StuckInStep4,
             AwaitsResponse, Answered, BrokenOff, Silent
    <3>4. PICK m \in LockMessages :
             Carrying(m) /\ m.key = peer.key /\ m.nonce = connections[0].rxNonce
      BY <3>3 DEF ReceivesStep4, ReceivesResponse
    <3>5. batch[i] = m
      BY <3>4 DEF Carrying, AllAre
    <3> QED BY <3>1, <3>2, <3>4, <3>5 DEF Opens
  <2> QED BY <2>1, <2>2 DEF NonceAgreement
<1> QED BY <1>1, FlowInvariant, SessionInvariant, PTL

(* When HandleLockCMD returns, neither the timer nor message_handler can   *)
(* run with the task it has freed.                                         *)
THEOREM CallbacksEndWithTask == Spec => []NoCallbackOutlivesTask
<1>1. FlowInv => NoCallbackOutlivesTask
  BY DEF FlowInv, PhaseInv, NoCallbackOutlivesTask
<1> QED BY <1>1, FlowInvariant, PTL

=============================================================================
