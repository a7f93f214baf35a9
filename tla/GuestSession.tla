---------------------------- MODULE GuestSession ----------------------------
(***************************************************************************)
(* One job of the bridge: HandleLockCMD (ign.c) opens a GATT link to a     *)
(* lock, runs the four-message guest handshake, sends one command, waits   *)
(* for its response in a GLib main loop guarded by a 5-second timer, tears *)
(* the session down and reports (ble_guest.c, guest_connection.c).  Jobs   *)
(* run one after the other in the thread of WaitMQTT; what runs besides    *)
(* them is the lock, the timer and the queue of GATT notifications.        *)
(*                                                                         *)
(* A notification carries one 20-byte fragment.  Lengths are counted in    *)
(* fragments, and a fragment is named by the message it is a piece of.     *)
(***************************************************************************)
EXTENDS Connections, Sequences

CONSTANTS
    MaxFrags,   \* bound: fragments of one message of the lock
    NoMessage   \* the NULL of step_data

ASSUME GuestSessionAssumption == MaxFrags \in Nat \ {0}

VARIABLES
    pc,            \* where the thread of WaitMQTT is
    job,           \* the job in hand: the task_node_t and its lock
    gc,            \* the guest_connection_t of the task
    connections,   \* connections_ of connection_common.c
    gatt,          \* whether the GATT link is up
    notifying,     \* whether message_handler is connected to the link
    inbox,         \* notifications queued in the default main context
    batch,         \* those of the current iteration still to be dispatched
    timer,         \* the source of g_timeout_add_seconds ("due": in the iteration)
    quit,          \* whether g_main_loop_quit was called
    ble_data,      \* what the handlers store for the caller
    err,           \* err of guest_connection_and_do_cmd
    wire,          \* messages written to the lock and not yet read by it
    peer,          \* the lock at the other end of the link
    handled,       \* history: what the lock did with the command of each job
    reports,       \* history: what HandleLockCMD returned for each job
    published,     \* history: what saveTaskData published for each job
    troubled       \* history: jobs that met a fault outside the bridge

bridgeVars == <<job, gc, connections, ble_data, err>>
glibVars   == <<notifying, inbox, batch, timer, quit>>
lockVars   == <<wire, peer>>
history    == <<handled, reports, published, troubled>>
vars == <<pc, bridgeVars, gatt, glibVars, lockVars, history>>

-----------------------------------------------------------------------------
(* Values.                                                                 *)

ERR_CONNECTION == -999
ERR_WAITING    == -998
ERR_GATT       == -996
ERR_STEP1      == -994
ERR_CMD        == -992
Errors == {0, ERR_CONNECTION, ERR_WAITING, ERR_GATT, ERR_STEP1, ERR_CMD}

(* The commands HandleLockCMD knows, by what saveTaskData does with their  *)
(* result: it publishes that of a query (status, battery, logs) and drops  *)
(* that of an action (lock, unlock, create or delete a pin).               *)
Commands == {"act", "query"}

Verdicts == {"done", "refused"}

(* A message of the lock.  ff: its third byte on the air is 0xff.  good:   *)
(* it decodes and, for step 4, says success.                               *)
LockMessages ==
    [kind : {"step2", "step4", "response"}, len : 1 .. MaxFrags, ff : BOOLEAN,
     good : BOOLEAN, key : Keys, nonce : Nonces, verdict : Verdicts]

ASSUME NoMessageAssumption == NoMessage \notin LockMessages

BridgeMessages ==
    [kind : {"step1", "step3", "cmd"}, key : Keys, nonce : Nonces, body : Nonces]

(* What save_message_data computes as step_max_size from a header that is  *)
(* not one: 254 times the first byte and more, beyond any message.         *)
Misread == 3 * MaxFrags + 1

initGuestConnection ==
    [guest_step |-> "BEGIN", step_max_size |-> 0, step_cur_size |-> 0,
     step_data |-> NoMessage, waiting_err |-> FALSE, receive_err |-> FALSE,
     connectionID |-> 0]

InitBleData == [result |-> 0, response |-> "none", value |-> "default"]

NoJob == [id |-> 0, lock |-> NoKey, keyOk |-> FALSE, cmd |-> "act"]

LinkDown == [phase |-> "off", job |-> 0, key |-> NoKey, rx |-> ZeroNonce, tx |-> ZeroNonce,
             out |-> <<>>]

-----------------------------------------------------------------------------
Init ==
    /\ pc = "idle"
    /\ job = NoJob
    /\ gc = initGuestConnection
    /\ connections = InitConnections
    /\ gatt = FALSE
    /\ notifying = FALSE
    /\ inbox = <<>>
    /\ batch = <<>>
    /\ timer = "none"
    /\ quit = FALSE
    /\ ble_data = InitBleData
    /\ err = 0
    /\ wire = <<>>
    /\ peer = LinkDown
    /\ handled = [j \in JobIds |-> "no"]
    /\ reports = [j \in JobIds |-> "none"]
    /\ published = [j \in JobIds |-> "none"]
    /\ troubled = {}

Trouble(j, met) == troubled' = IF met THEN troubled \cup {j} ELSE troubled

-----------------------------------------------------------------------------
(* Starting a job.                                                         *)

(* HandleLockCMD allocates the task and everything it points to.  A        *)
(* command it does not know is refused before any of it is used.           *)
HandleLockCMD(l, keyOk, cmd) ==
    /\ pc = "idle"
    /\ job.id < MaxJobs
    /\ job' = [id |-> job.id + 1, lock |-> l, keyOk |-> keyOk, cmd |-> cmd]
    /\ gc' = initGuestConnection
    /\ ble_data' = InitBleData
    /\ err' = 0
    /\ quit' = FALSE
    /\ pc' = "connect"
    /\ UNCHANGED <<connections, gatt, notifying, inbox, batch, timer, lockVars, history>>

HandleUnknownCMD(l) ==
    /\ pc = "idle"
    /\ job.id < MaxJobs
    /\ job' = [NoJob EXCEPT !.id = job.id + 1, !.lock = l]
    /\ reports' = [reports EXCEPT ![job.id + 1] = "err"]
    /\ troubled' = troubled \cup {job.id + 1}
    /\ UNCHANGED <<pc, gc, connections, gatt, glibVars, ble_data, err, lockVars,
                   handled, published>>

(* gattlib_connect; the lock forgets any earlier link.                     *)
Connect(ok) ==
    /\ pc = "connect"
    /\ IF ok
       THEN /\ gatt' = TRUE
            /\ peer' = [LinkDown EXCEPT !.phase = "wait1", !.job = job.id,
                                        !.key = job.lock]
            /\ wire' = <<>>
            /\ pc' = "notify"
            /\ err' = err
       ELSE /\ err' = ERR_GATT
            /\ pc' = "exit"
            /\ UNCHANGED <<gatt, lockVars>>
    /\ Trouble(job.id, ~ok)
    /\ UNCHANGED <<job, gc, connections, ble_data, glibVars, handled, reports, published>>

(* gattlib_notification_start: when it fails, message_handler may have     *)
(* been connected or not.  On success the timer is armed.                  *)
NotificationStart(ok, connected) ==
    /\ pc = "notify"
    /\ ok => connected
    /\ notifying' = connected
    /\ IF ok
       THEN /\ gc' = [gc EXCEPT !.guest_step = "BEGIN"]
            /\ timer' = "armed"
            /\ pc' = "step1"
            /\ err' = err
       ELSE /\ err' = ERR_GATT
            /\ pc' = "exit"
            /\ UNCHANGED <<gc, timer>>
    /\ Trouble(job.id, ~ok)
    /\ UNCHANGED <<job, connections, ble_data, gatt, inbox, batch, quit, lockVars,
                   handled, reports, published>>

(* write_char_by_uuid_multi_atts: a write that fails on its last fragment  *)
(* may still have reached the lock.                                        *)
Write(m, reached) == wire' = IF reached THEN Append(wire, m) ELSE wire

(* write_guest_step1, called before the loop runs.                         *)
write_guest_step1(second, sent, reached) ==
    LET id == beginConnectionId(connections, job.keyOk) IN
    /\ pc = "step1"
    /\ sent => reached
    /\ connections' = beginConnection(connections, job.lock, job.keyOk, second)
    /\ IF id = ERROR_CONNECTION_ID
       THEN /\ err' = ERR_STEP1
            /\ pc' = "exit"
            /\ Trouble(job.id, ~job.keyOk)
            /\ UNCHANGED <<gc, wire>>
       ELSE /\ gc' = [gc EXCEPT !.connectionID = id]
            /\ Write([kind |-> "step1", key |-> NoKey, nonce |-> ZeroNonce,
                      body |-> ZeroNonce], reached)
            /\ err' = IF sent THEN err ELSE ERR_STEP1
            /\ pc' = IF sent THEN "loop" ELSE "exit"
            /\ Trouble(job.id, ~sent)
    /\ UNCHANGED <<job, ble_data, gatt, glibVars, peer, handled, reports, published>>

-----------------------------------------------------------------------------
(* The main loop.                                                          *)

(* Five seconds have passed since the timer was armed.                     *)
Expire ==
    /\ timer = "armed"
    /\ timer' = "expired"
    /\ Trouble(job.id, TRUE)
    /\ UNCHANGED <<pc, bridgeVars, gatt, notifying, inbox, batch, quit, lockVars,
                   handled, reports, published>>

(* An iteration takes every source that is ready, the timer first because  *)
(* it was attached first, and dispatches them all, even after a handler    *)
(* has called g_main_loop_quit.                                            *)
Iterate ==
    /\ pc = "loop"
    /\ batch = <<>> /\ timer # "due"
    /\ ~quit
    /\ timer = "expired" \/ inbox # <<>>
    /\ timer' = IF timer = "expired" THEN "due" ELSE timer
    /\ batch' = inbox
    /\ inbox' = <<>>
    /\ UNCHANGED <<pc, bridgeVars, gatt, notifying, quit, lockVars, history>>

(* Mutant of stop_main_loop_func: the loop is not asked to quit.           *)
StopWithoutQuit ==
    /\ pc = "loop"
    /\ timer = "due"
    /\ timer' = "none"
    /\ gc' = [gc EXCEPT !.waiting_err = TRUE]
    /\ UNCHANGED <<pc, job, connections, ble_data, err, gatt, notifying, inbox, batch,
                   quit, lockVars, history>>

stop_main_loop_func ==
    /\ pc = "loop"
    /\ timer = "due"
    /\ timer' = "none"
    /\ gc' = [gc EXCEPT !.waiting_err = TRUE]
    /\ quit' = TRUE
    /\ UNCHANGED <<pc, job, connections, ble_data, err, gatt, notifying, inbox, batch,
                   lockVars, history>>

(* guest_connection after save_message_data(fragment).                     *)
save_message_data(g, fragment) ==
    IF g.step_max_size = 0
    THEN [g EXCEPT !.step_max_size = IF fragment.ff THEN Misread ELSE fragment.len,
                   !.step_cur_size = 1,
                   !.step_data = fragment]
    ELSE [g EXCEPT !.step_cur_size = @ + 1]

(* Mutant of releaseGuestConnectionData: the buffer is kept.               *)
KeepConnectionData(g) == g

releaseGuestConnectionData(g) ==
    IF g.step_max_size # 0 /\ g.step_data # NoMessage
    THEN [g EXCEPT !.step_max_size = 0, !.step_cur_size = 0, !.step_data = NoMessage]
    ELSE g

Complete(g) == g.step_max_size = g.step_cur_size

(* message_handler is called with the next fragment in the given step.  It *)
(* has no case for BLE_GUEST_STEP3, and EveryFragmentHasAHandler says that *)
(* it needs none.                                                          *)
Notified(step) ==
    /\ pc = "loop"
    /\ timer # "due"
    /\ batch # <<>>
    /\ gc.guest_step = step
    /\ batch' = Tail(batch)

(* A fragment that does not complete its message is stored, nothing more.  *)
(* In BLE_GUEST_STEP4 the handler also clears the result on its way out.   *)
StoreFragment(step) ==
    LET saved == save_message_data(gc, Head(batch)) IN
    /\ Notified(step)
    /\ ~Complete(saved)
    /\ gc' = saved
    /\ ble_data' = IF step = "STEP4" THEN [ble_data EXCEPT !.result = 0] ELSE ble_data
    /\ UNCHANGED <<pc, job, connections, err, gatt, notifying, inbox, timer, quit,
                   lockVars, history>>

(* write_guest_step3 uses slot 0 of connections_ whatever slot step 1      *)
(* began.                                                                  *)
write_guest_step3(step2, reached) ==
    LET step3 == [kind |-> "step3", key |-> connections[0].key, nonce |-> step2.nonce,
                  body |-> connections[0].rxNonce]
    IN
    IF step2.good
    THEN /\ connections' = genConnStep3(connections, 0, step2.nonce)
         /\ Write(step3, reached)
    ELSE UNCHANGED <<connections, wire>>

(* Mutant of handle_step2_message: the loop is not left when step 3 could  *)
(* not be written.                                                         *)
Step2WithoutQuit(sent, reached) ==
    LET saved == save_message_data(gc, Head(batch))
        step2 == saved.step_data
    IN
    /\ Notified("BEGIN")
    /\ Complete(saved)
    /\ sent => reached
    /\ write_guest_step3(step2, reached)
    /\ gc' = IF step2.good /\ sent
             THEN releaseGuestConnectionData([saved EXCEPT !.guest_step = "STEP4"])
             ELSE [saved EXCEPT !.guest_step = "STEP3", !.receive_err = TRUE]
    /\ Trouble(job.id, step2.good /\ ~sent)
    /\ UNCHANGED <<pc, job, ble_data, err, gatt, notifying, inbox, timer, quit, peer,
                   handled, reports, published>>

(* handle_step2_message with the last fragment.                            *)
handle_step2_message(sent, reached) ==
    LET saved == save_message_data(gc, Head(batch))
        step2 == saved.step_data
    IN
    /\ Notified("BEGIN")
    /\ Complete(saved)
    /\ sent => reached
    /\ write_guest_step3(step2, reached)
    /\ IF step2.good /\ sent
       THEN /\ gc' = releaseGuestConnectionData([saved EXCEPT !.guest_step = "STEP4"])
            /\ quit' = quit
       ELSE /\ gc' = [saved EXCEPT !.guest_step = "STEP3", !.receive_err = TRUE]
            /\ quit' = TRUE
    /\ Trouble(job.id, step2.good /\ ~sent)
    /\ UNCHANGED <<pc, job, ble_data, err, gatt, notifying, inbox, timer, peer,
                   handled, reports, published>>

(* write_cmd_request, on the table conns that step 4 left: a command that  *)
(* was encoded is encrypted, and moves the session to CMD_RESULT.          *)
write_cmd_request(conns, saved, encoded, reached) ==
    LET id  == saved.connectionID
        cmd == [kind |-> "cmd", key |-> connections[id].key,
                nonce |-> connections[id].txNonce, body |-> ZeroNonce]
    IN
    /\ connections' = IF encoded THEN encryptNative(conns, id) ELSE conns
    /\ Write(cmd, reached)
    /\ gc' = releaseGuestConnectionData(
                [saved EXCEPT !.guest_step = IF encoded THEN "CMD_RESULT" ELSE @])

(* handle_step4_message with the last fragment.  A step 4 that does not    *)
(* open leaves the loop running: the timer ends the session.  Otherwise    *)
(* write_cmd_request follows, whose return value nobody looks at.          *)
handle_step4_message(encoded, sent, reached) ==
    LET saved  == save_message_data(gc, Head(batch))
        step4  == saved.step_data
        id     == saved.connectionID
        opened == Opens(connections[id], step4.key, step4.nonce) /\ step4.good
        rec    == recConnStep4(connections, id)
    IN
    /\ Notified("STEP4")
    /\ Complete(saved)
    /\ sent => reached
    /\ reached => encoded
    /\ IF opened
       THEN /\ write_cmd_request(rec, saved, encoded, reached)
            /\ ble_data' = [ble_data EXCEPT !.result = 0]
       ELSE /\ gc' = [saved EXCEPT !.receive_err = TRUE]
            /\ connections' = rec
            /\ ble_data' = [ble_data EXCEPT !.result = ERR_CONNECTION]
            /\ wire' = wire
    /\ Trouble(job.id, opened /\ ~sent)
    /\ UNCHANGED <<pc, job, err, gatt, notifying, inbox, timer, quit, peer,
                   handled, reports, published>>

(* handle_cmd_responce with the last fragment.  The result the response    *)
(* carries is stored and then overwritten at LOCK_RESPONCE_EXIT by err,    *)
(* which a decoding error leaves at 0 (the err it sets is an inner one).   *)
handle_cmd_responce ==
    LET saved  == save_message_data(gc, Head(batch))
        resp   == saved.step_data
        id     == saved.connectionID
        opened == Opens(connections[id], resp.key, resp.nonce)
        fresh  == IF resp.verdict = "done" THEN "fresh" ELSE ble_data.value
    IN
    /\ Notified("CMD_RESULT")
    /\ Complete(saved)
    /\ gc' = IF opened /\ resp.good THEN saved ELSE [saved EXCEPT !.receive_err = TRUE]
    /\ connections' =
           CASE opened /\ resp.good  -> endConnection(decryptNative(connections, id), id)
             [] opened /\ ~resp.good -> decryptNative(connections, id)
             [] OTHER                -> connections
    /\ ble_data' =
           CASE opened /\ resp.good  -> [result |-> 0, response |-> resp.verdict, value |-> fresh]
             [] opened /\ ~resp.good -> [ble_data EXCEPT !.result = 0]
             [] OTHER                -> [ble_data EXCEPT !.result = ERR_CMD]
    /\ quit' = TRUE
    /\ UNCHANGED <<pc, job, err, gatt, notifying, inbox, timer, lockVars, history>>

(* Mutant of LoopReturn: only receive_err is looked at.                    *)
ReturnIgnoringTimeout ==
    /\ pc = "loop"
    /\ quit
    /\ batch = <<>> /\ timer # "due"
    /\ err' = IF gc.receive_err THEN ERR_WAITING ELSE err
    /\ pc' = "exit"
    /\ UNCHANGED <<job, gc, connections, ble_data, gatt, glibVars, lockVars, history>>

(* g_main_loop_run returns and the two error flags are looked at.          *)
LoopReturn ==
    /\ pc = "loop"
    /\ quit
    /\ batch = <<>> /\ timer # "due"
    /\ err' = IF gc.waiting_err \/ gc.receive_err THEN ERR_WAITING ELSE err
    /\ pc' = "exit"
    /\ UNCHANGED <<job, gc, connections, ble_data, gatt, glibVars, lockVars, history>>

-----------------------------------------------------------------------------
(* From GUEST_ERROR_EXIT to the end of HandleLockCMD: the result becomes   *)
(* err, Close_Connection ends the slot and releases the connection, the    *)
(* timer is removed, and only a job without an error is saved.             *)

(* gattlib_notification_stop fails when message_handler was never          *)
(* connected, and may fail after disconnecting it; either way              *)
(* releaseGuestConnection returns before gattlib_disconnect.               *)
releaseGuestConnection(stopped) ==
    /\ notifying' = FALSE
    /\ gatt' = (gatt /\ ~(notifying /\ stopped))

Close_Connection(stopped) ==
    /\ connections' = endConnection(connections, gc.connectionID)
    /\ gc' = releaseGuestConnectionData(gc)
    /\ releaseGuestConnection(stopped)

(* The result of a query is published, that of an action is not.           *)
saveTaskData ==
    published' = IF err = 0 /\ job.cmd = "query"
                 THEN [published EXCEPT ![job.id] = ble_data.value]
                 ELSE published

(* Mutant of guest_exit: the timer is not removed.                         *)
ExitKeepsTimer(stopped) ==
    /\ pc = "exit"
    /\ ble_data' = [ble_data EXCEPT !.result = err]
    /\ Close_Connection(stopped)
    /\ inbox' = <<>>
    /\ reports' = [reports EXCEPT ![job.id] = IF err = 0 THEN "ok" ELSE "err"]
    /\ saveTaskData
    /\ pc' = "idle"
    /\ UNCHANGED <<timer, job, err, batch, quit, lockVars, handled, troubled>>

guest_exit(stopped) ==
    /\ pc = "exit"
    /\ ble_data' = [ble_data EXCEPT !.result = err]
    /\ Close_Connection(stopped)
    /\ inbox' = <<>>
    /\ timer' = "none"
    /\ reports' = [reports EXCEPT ![job.id] = IF err = 0 THEN "ok" ELSE "err"]
    /\ saveTaskData
    /\ pc' = "idle"
    /\ UNCHANGED <<job, err, batch, quit, lockVars, handled, troubled>>

-----------------------------------------------------------------------------
(* The lock, as far as the bridge's code relies on it: it answers step 1   *)
(* with its nonce, step 3 with step 4, the command with a response, each   *)
(* sealed with the bridge's nonce; or it fails in one of the ways the      *)
(* handlers look out for.                                                  *)

Fragments(m) == [i \in 1 .. m.len |-> m]

Sealed(kind, len, ff, good, verdict) ==
    [kind |-> kind, len |-> len, ff |-> ff, good |-> good, key |-> peer.key,
     nonce |-> peer.tx, verdict |-> verdict]

(* What the lock takes from the head of the wire.  A message it cannot     *)
(* open, or does not expect, it leaves unanswered.                         *)
LockReads(kind, phase) ==
    /\ wire # <<>>
    /\ Head(wire).kind = kind
    /\ peer.phase = phase
    /\ wire' = Tail(wire)

LockOpens == Head(wire).key = peer.key /\ Head(wire).nonce = peer.rx

LockStep1(len, good) ==
    LET nonce == [by |-> "lock", seed |-> peer.job, n |-> 0]
        step2 == [kind |-> "step2", len |-> len, ff |-> FALSE, good |-> good,
                  key |-> NoKey, nonce |-> nonce, verdict |-> "done"]
    IN
    /\ LockReads("step1", "wait1")
    /\ peer' = [peer EXCEPT !.phase = "wait3", !.rx = nonce, !.out = Fragments(step2)]
    /\ Trouble(peer.job, ~good)
    /\ UNCHANGED <<pc, bridgeVars, gatt, glibVars, handled, reports, published>>

LockStep3(len, ff, good) ==
    LET step4 == [Sealed("step4", len, ff, good, "done") EXCEPT !.nonce = Head(wire).body]
    IN
    /\ LockReads("step3", "wait3")
    /\ LockOpens
    /\ peer' = [peer EXCEPT !.phase = "waitcmd", !.rx = incrementNonce(@),
                            !.tx = incrementNonce(Head(wire).body),
                            !.out = @ \o Fragments(step4)]
    /\ Trouble(peer.job, ff \/ ~good)
    /\ UNCHANGED <<pc, bridgeVars, gatt, glibVars, handled, reports, published>>

LockCommand(len, ff, good, verdict) ==
    LET resp == Sealed("response", len, ff, good, verdict) IN
    /\ LockReads("cmd", "waitcmd")
    /\ LockOpens
    /\ handled' = [handled EXCEPT ![peer.job] = verdict]
    /\ peer' = [peer EXCEPT !.phase = "end", !.tx = incrementNonce(@),
                            !.out = @ \o Fragments(resp)]
    /\ Trouble(peer.job, ff \/ ~good)
    /\ UNCHANGED <<pc, bridgeVars, gatt, glibVars, reports, published>>

(* One fragment goes out as a notification; nobody hears it unless         *)
(* message_handler is connected.                                           *)
LockSend ==
    /\ peer.out # <<>>
    /\ peer' = [peer EXCEPT !.out = Tail(@)]
    /\ inbox' = IF notifying THEN Append(inbox, Head(peer.out)) ELSE inbox
    /\ UNCHANGED <<pc, bridgeVars, gatt, notifying, batch, timer, quit, wire, history>>

-----------------------------------------------------------------------------
(* Every job the bound allows has been run.                                *)
AllJobsDone ==
    /\ pc = "idle"
    /\ job.id = MaxJobs
    /\ UNCHANGED vars

StartJob ==
    \E l \in Locks :
        \/ \E keyOk \in BOOLEAN, cmd \in Commands : HandleLockCMD(l, keyOk, cmd)
        \/ HandleUnknownCMD(l)

(* A step of the thread of WaitMQTT inside a job.                          *)
BridgeStep ==
    \/ \E ok \in BOOLEAN : Connect(ok)
    \/ \E ok, connected \in BOOLEAN : NotificationStart(ok, connected)
    \/ \E second \in {job.id - 1, job.id}, sent, reached \in BOOLEAN :
           write_guest_step1(second, sent, reached)
    \/ Iterate
    \/ stop_main_loop_func
    \/ \E step \in {"BEGIN", "STEP4", "CMD_RESULT"} : StoreFragment(step)
    \/ \E sent, reached \in BOOLEAN : handle_step2_message(sent, reached)
    \/ \E encoded, sent, reached \in BOOLEAN :
           handle_step4_message(encoded, sent, reached)
    \/ handle_cmd_responce
    \/ LoopReturn
    \/ \E stopped \in BOOLEAN : guest_exit(stopped)

LockStep ==
    \/ \E len \in 1 .. MaxFrags, good \in BOOLEAN : LockStep1(len, good)
    \/ \E len \in 1 .. MaxFrags, ff, good \in BOOLEAN : LockStep3(len, ff, good)
    \/ \E len \in 1 .. MaxFrags, ff, good \in BOOLEAN, verdict \in Verdicts :
           LockCommand(len, ff, good, verdict)
    \/ LockSend

Next == StartJob \/ BridgeStep \/ Expire \/ LockStep \/ AllJobsDone

Spec == Init /\ [][Next]_vars

(* The thread runs on, every gattlib call returns, and the timer goes off  *)
(* in the end.  The lock owes nothing.                                     *)
FairSpec == Spec /\ WF_vars(BridgeStep) /\ WF_vars(Expire)

-----------------------------------------------------------------------------
(* Properties.                                                             *)

Phases == {"off", "wait1", "wait3", "waitcmd", "end"}

(* Every variable keeps its type; in particular connectionID always names  *)
(* a slot of connections_, which is what getConnection, encryptNative and  *)
(* decryptNative index the table with after checking it only against       *)
(* kMaxConnections itself.                                                 *)
TypeOK ==
    /\ pc \in {"idle", "connect", "notify", "step1", "loop", "exit"}
    /\ job \in [id : 0 .. MaxJobs, lock : Keys, keyOk : BOOLEAN, cmd : Commands]
    /\ gc \in [guest_step : {"BEGIN", "STEP3", "STEP4", "CMD_RESULT"},
               step_max_size : Nat, step_cur_size : Nat,
               step_data : LockMessages \cup {NoMessage},
               waiting_err : BOOLEAN, receive_err : BOOLEAN, connectionID : Slots]
    /\ connections \in [Slots -> Connection]
    /\ gatt \in BOOLEAN
    /\ notifying \in BOOLEAN
    /\ inbox \in Seq(LockMessages)
    /\ batch \in Seq(LockMessages)
    /\ timer \in {"none", "armed", "expired", "due"}
    /\ quit \in BOOLEAN
    /\ ble_data \in [result : Errors, response : Verdicts \cup {"none"},
                     value : {"default", "fresh"}]
    /\ err \in Errors
    /\ wire \in Seq(BridgeMessages)
    /\ peer \in [phase : Phases, job : 0 .. MaxJobs, key : Keys, rx : Nonces,
                 tx : Nonces, out : Seq(LockMessages)]
    /\ handled \in [JobIds -> Verdicts \cup {"no"}]
    /\ reports \in [JobIds -> {"none", "ok", "err"}]
    /\ published \in [JobIds -> {"none", "default", "fresh"}]
    /\ troubled \subseteq 0 .. MaxJobs

(* write_guest_step3 works on slot 0 of connections_ by a literal, and     *)
(* Close_Connection ends slot 0 when beginConnection failed.  Both are     *)
(* right because a session always gets slot 0: whichever way a job ends,   *)
(* and whatever beginConnection left half-initialised, it leaves no slot   *)
(* active behind.                                                          *)
SlotDiscipline ==
    /\ \A i \in Slots \ {0} : ~connections[i].active
    /\ pc \in {"idle", "connect", "notify", "step1"} => ~connections[0].active
    /\ gc.connectionID = 0

(* save_message_data writes into step_data without looking at its size     *)
(* (ble_guest.c:563 says there is certainly room).  There is, as long as   *)
(* the lock sends what its header announces: each step starts from a       *)
(* released buffer and no fragment of one message lands in another's.      *)
BufferFits == gc.step_cur_size <= gc.step_max_size

(* message_handler is never called in a step it has no case for: a failed  *)
(* write_guest_step3 leaves the loop before the lock's answer to it, if    *)
(* step 3 reached the lock all the same, can be dispatched.                *)
EveryFragmentHasAHandler ==
    pc = "loop" /\ batch # <<>> => gc.guest_step \in {"BEGIN", "STEP4", "CMD_RESULT"}

(* The two sides stay on the same nonces: what is on the wire opens at the *)
(* lock, and what the lock has sent opens in the session's slot, until     *)
(* each is read.                                                           *)
NonceAgreement ==
    /\ wire # <<>> =>
          /\ Head(wire).kind = "step3" => peer.phase = "wait3" /\ LockOpens
          /\ Head(wire).kind = "cmd" => peer.phase = "waitcmd" /\ LockOpens
    /\ \A i \in 1 .. Len(batch) :
          \/ gc.guest_step = "STEP4" /\ batch[i].kind = "step4"
          \/ gc.guest_step = "CMD_RESULT" /\ batch[i].kind = "response"
          => Opens(connections[gc.connectionID], batch[i].key, batch[i].nonce)

(* A job fails only for a cause outside the session's own code: a GATT     *)
(* call that failed, a key of the wrong length, an unknown command, a lock *)
(* that answered badly, a header misread because of an 0xff byte, or five  *)
(* seconds gone.  An undisturbed session succeeds, whatever the earlier    *)
(* ones left behind.                                                       *)
FailureHasCause == \A j \in JobIds : reports[j] = "err" => j \in troubled

(* The timer and message_handler have the task node as user data, which    *)
(* HandleLockCMD frees, and reach the guest connection through it, which   *)
(* Close_Connection frees: when it returns neither may run again.          *)
NoCallbackOutlivesTask ==
    pc = "idle" => timer = "none" /\ ~notifying /\ inbox = <<>> /\ batch = <<>>

(* Only a query is published, and only when the lock has handled it and    *)
(* the job is reported as done: a late or missing answer never updates the *)
(* server's view of a lock (saveTaskData).                                 *)
PublishedWasHandled ==
    \A j \in JobIds :
        published[j] # "none" => reports[j] = "ok" /\ handled[j] # "no"

(* The session implements CommandService: one report per job, at most one  *)
(* handling, "ok" only after it.                                           *)
Service == INSTANCE CommandService WITH submitted <- job.id
ImplementsCommandService == Service!Spec

(* Every job that was started is reported: HandleLockCMD returns and       *)
(* WaitMQTT goes on receiving.                                             *)
SessionEnds == pc # "idle" ~> pc = "idle"

(* ble_guest.h says of ble_guest_result_t.result that it tells simply      *)
(* whether there was an error: a command the lock refused is not reported  *)
(* as done.                                                                *)
RefusalIsReported == \A j \in JobIds : handled[j] = "refused" => reports[j] # "ok"

(* The comment above guest_connection_and_do_cmd lists what is released on *)
(* error: everything in ble_connection.  After a job the link is down.     *)
LinkReleased == pc = "idle" => ~gatt

(* The log line at the end of handle_cmd_responce says that once the       *)
(* response is there it should not time out.                               *)
AnsweredIsNotTimedOut == ble_data.response # "none" => ~gc.waiting_err

=============================================================================
