------------------------------ MODULE Pairing ------------------------------
(***************************************************************************)
(* Pairing over Bluetooth: runs of the client of ble_pairing.c, with the   *)
(* cryptography of pairing_connection.c, against one PairingServer.  A run *)
(* (test/pair.c, test/wifi_pairing.c) is a process that drives one task    *)
(* through the rows of pairing_fsm_table and exits.  Runs may overlap, and *)
(* may be killed: a client waits for an answer without a timer.            *)
(*                                                                         *)
(* A write is synchronous: when gattlib_write_char_by_uuid returns, the    *)
(* server has run chr_write_value and its reply, a notification to every   *)
(* subscribed client, is queued.  A client dispatches notifications only   *)
(* inside the main loop of its two waiting states.                         *)
(***************************************************************************)
EXTENDS PairingServer

VARIABLES
    client,    \* per session: the task node and its pairing connection
    notes,     \* per session: notifications not yet dispatched
    server,    \* the accepting process
    troubled   \* history: a call failed, a reply was lost, or two runs met

vars == <<client, notes, server, troubled>>

FSMStates == {"BEGIN", "STEP1", "STEP2", "STEP3", "STEP4", "COMMIT"}
Ended     == {"end", "dead"}

NewClient ==
    [state |-> "idle", pairing_step |-> "BEGIN", out |-> <<>>, msg |-> None,
     quit |-> FALSE, notifying |-> FALSE, sharedKey |-> None, txNonce |-> None,
     rxNonce |-> None, result |-> None]

Init ==
    /\ client = [s \in Sessions |-> NewClient]
    /\ notes = [s \in Sessions |-> <<>>]
    /\ server = InitServer
    /\ troubled = FALSE

-----------------------------------------------------------------------------
(* addPairingTask: the doing list has this one task.                       *)
addPairingTask(s) ==
    /\ client[s].state = "idle"
    /\ client' = [client EXCEPT ![s].state = "BEGIN"]
    /\ troubled' = (troubled \/ \E t \in Sessions : client[t].state # "idle")
    /\ UNCHANGED <<notes, server>>

(* Every error exit sets the result and ends the GATT connection; then     *)
(* FSMHandle gives up and the process exits.                               *)
ErrorExit(c) == [c EXCEPT !.state = "end", !.out = <<>>, !.result = "err",
                          !.notifying = FALSE]

(* write_pairing_step1 has no return statement after its error exit, so    *)
(* FSMHandle may take the call for a success and go on to wait, with the   *)
(* connection closed.                                                      *)
FallsThrough(c) == [ErrorExit(c) EXCEPT !.state = "STEP2"]

register_pairing_notfication(s, connected, started) ==
    /\ client[s].state = "BEGIN"
    /\ client' = [client EXCEPT ![s] =
           IF connected /\ started
           THEN [@ EXCEPT !.state = "STEP1", !.pairing_step = "STEP1", !.notifying = TRUE]
           ELSE ErrorExit(@)]
    /\ troubled' = (troubled \/ ~(connected /\ started))
    /\ UNCHANGED <<notes, server>>

(* beginConnection and genPairingStep1.  When uECC_make_key fails the      *)
(* function returns without a result, and saveTaskData reads through NULL. *)
write_pairing_step1(s, made) ==
    /\ client[s].state = "STEP1" /\ client[s].out = <<>>
    /\ client' = [client EXCEPT ![s] =
           IF made
           THEN [@ EXCEPT !.rxNonce = [by |-> s, n |-> 0],
                          !.out = Fragments([kind |-> "step1", s |-> s, key |-> None,
                                             nonce |-> None, body |-> None])]
           ELSE [@ EXCEPT !.state = "dead", !.notifying = FALSE]]
    /\ troubled' = (troubled \/ ~made)
    /\ UNCHANGED <<notes, server>>

(* genPairingStep3Native: only a step 2 gives a key; an empty buffer or    *)
(* another reply is refused.  Step 3 is sealed with the server's nonce.    *)
write_pairing_step3(s) ==
    /\ client[s].state = "STEP3" /\ client[s].out = <<>>
    /\ client' = [client EXCEPT ![s] =
           IF @.msg.kind = "step2"
           THEN LET key == <<s, @.msg.draw>>
                IN  [@ EXCEPT !.sharedKey = key,
                              !.txNonce = incrementNonce(client[s].msg.nonce),
                              !.out = Fragments([kind |-> "step3", s |-> s, key |-> key,
                                                 nonce |-> client[s].msg.nonce,
                                                 body |-> client[s].rxNonce])]
           ELSE ErrorExit(@)]
    /\ UNCHANGED <<notes, server, troubled>>

(* recPairingStep4Native decrypts with rxNonce, which it then advances     *)
(* whether or not the message opened; an empty buffer it refuses at once.  *)
recPairingStep4(c) ==
    c.msg.kind = "step4" /\ c.msg.key = c.sharedKey /\ c.msg.nonce = c.rxNonce

(* What write_pairing_commit makes of the task when step 4 opens, and when *)
(* it does not.                                                            *)
SealedCommit(s, c) ==
    [c EXCEPT !.rxNonce = incrementNonce(@),
              !.txNonce = incrementNonce(@),
              !.out = Fragments([kind |-> "commit", s |-> s, key |-> c.sharedKey,
                                 nonce |-> c.txNonce, body |-> None])]

RefusedStep4(c) ==
    IF c.msg.kind = "empty" THEN ErrorExit(c)
    ELSE [ErrorExit(c) EXCEPT !.rxNonce = incrementNonce(@)]

(* Mutant of write_pairing_commit: the result of recPairingStep4 is not    *)
(* looked at.                                                              *)
CommitWithoutStep4(s) ==
    /\ client[s].state = "COMMIT" /\ client[s].out = <<>>
    /\ client' = [client EXCEPT ![s] = SealedCommit(s, @)]
    /\ UNCHANGED <<notes, server, troubled>>

write_pairing_commit(s) ==
    /\ client[s].state = "COMMIT" /\ client[s].out = <<>>
    /\ client' = [client EXCEPT ![s] =
           IF recPairingStep4(@) THEN SealedCommit(s, @) ELSE RefusedStep4(@)]
    /\ UNCHANGED <<notes, server, troubled>>

-----------------------------------------------------------------------------
(* One turn of the loop in write_char_by_uuid_multi_atts.                  *)

(* What the function that called it does once all fragments are written.   *)
Written(c) ==
    CASE c.state = "STEP1"  -> [c EXCEPT !.state = "STEP2", !.pairing_step = "STEP1"]
      [] c.state = "STEP3"  -> [c EXCEPT !.state = "STEP4", !.pairing_step = "STEP3",
                                         !.msg = None]
      [] c.state = "COMMIT" -> [c EXCEPT !.state = "end", !.pairing_step = "DONE",
                                         !.result = "success", !.notifying = FALSE]

AfterFragment(c) ==
    LET rest == [c EXCEPT !.out = Tail(@)]
    IN  IF rest.out = <<>> THEN Written(rest) ELSE rest

AfterFailedWrite(c) ==
    IF c.state = "STEP1" THEN {ErrorExit(c), FallsThrough(c)} ELSE {ErrorExit(c)}

(* What can go wrong in the server at this point.                          *)
Lucks ==
    {"fine"} \cup IF server.fsm = "PAIRING_BEGIN" THEN {"make_key", "shared_secret", "cast"}
                  ELSE IF server.fsm = "PAIRING_STEP4" THEN {"connect"} ELSE {}

(* chr_write: BlueZ sends the new value to every subscribed client.        *)
Notify(reply) ==
    notes' = [s \in Sessions |-> IF client'[s].notifying /\ reply # None
                                 THEN Append(notes[s], reply)
                                 ELSE IF client'[s].notifying THEN notes[s] ELSE <<>>]

(* gattlib_write_char_by_uuid returns success, or an error whether or not  *)
(* the server got the fragment.                                            *)
WriteFragment(s, ok, delivered, luck, len, decodes) ==
    LET f == Head(client[s].out)
    IN  /\ client[s].out # <<>>
        /\ ok => delivered
        /\ luck \in Lucks /\ len \in Announced(f)
        /\ \E c \in IF ok THEN {AfterFragment(client[s])} ELSE AfterFailedWrite(client[s]) :
               client' = [client EXCEPT ![s] = c]
        /\ server' = IF delivered THEN chr_write_value(server, f, len, luck, decodes)
                     ELSE server
        /\ Notify(IF delivered THEN server'.reply ELSE None)
        /\ troubled' = (troubled \/ ~ok \/ luck # "fine")

-----------------------------------------------------------------------------
(* waiting_pairing_step2 and waiting_pairing_step4.                        *)

Waiting(s) == client[s].state \in {"STEP2", "STEP4"}

(* message_handler, with save_message_data and the two step handlers.  A   *)
(* reply of one byte saves nothing, and the sizes 0 and 0 are equal: it is *)
(* taken for a complete message.  Any other reply comes in one piece.      *)
message_handler(s) ==
    LET c == client[s]
    IN  /\ Waiting(s) /\ notes[s] # <<>>
        /\ notes' = [notes EXCEPT ![s] = Tail(@)]
        /\ client' = [client EXCEPT ![s] =
               IF c.pairing_step \in {"STEP1", "STEP3"}
               THEN [c EXCEPT !.msg = Head(notes[s]), !.quit = TRUE,
                              !.pairing_step = IF @ = "STEP1" THEN "STEP2" ELSE "STEP4"]
               ELSE c]
        /\ UNCHANGED <<server, troubled>>

LoopReturns(s) ==
    /\ Waiting(s) /\ client[s].quit
    /\ client' = [client EXCEPT ![s].quit = FALSE,
                                ![s].state = IF @ = "STEP2" THEN "STEP3" ELSE "COMMIT"]
    /\ UNCHANGED <<notes, server, troubled>>

(* A notification that does not arrive whole: one longer than the MTU is   *)
(* cut, and a step 4 with 0xff as its third byte is read as the beginning  *)
(* of a longer message.  Either way nothing more comes.                    *)
NotificationCut(s) ==
    /\ notes[s] # <<>>
    /\ notes' = [notes EXCEPT ![s] = Tail(@)]
    /\ troubled' = TRUE
    /\ UNCHANGED <<client, server>>

(* The client process is killed; a client that waits has no other end.     *)
Kill(s) ==
    /\ client[s].state \in FSMStates
    /\ client' = [client EXCEPT ![s].state = "dead", ![s].out = <<>>, ![s].notifying = FALSE]
    /\ notes' = [notes EXCEPT ![s] = <<>>]
    /\ troubled' = TRUE
    /\ UNCHANGED server

-----------------------------------------------------------------------------
FSMHandle(s) ==
    \/ \E connected, started \in BOOLEAN : register_pairing_notfication(s, connected, started)
    \/ \E made \in BOOLEAN : write_pairing_step1(s, made)
    \/ write_pairing_step3(s)
    \/ write_pairing_commit(s)
    \/ \E ok, delivered, decodes \in BOOLEAN, luck \in Lucks, len \in Lengths :
             WriteFragment(s, ok, delivered, luck, len, decodes)
    \/ message_handler(s)
    \/ LoopReturns(s)

Next ==
    \E s \in Sessions :
        addPairingTask(s) \/ FSMHandle(s) \/ NotificationCut(s) \/ Kill(s)

Spec == Init /\ [][Next]_vars

(* A client process runs on and its gattlib calls return.                  *)
FairSpec == Spec /\ \A s \in Sessions : WF_vars(FSMHandle(s))

-----------------------------------------------------------------------------
(* Properties.                                                             *)

(* Every variable keeps its type, and the server's buffer never holds more *)
(* than was announced, however writes of several clients are mixed.        *)
TypeOK ==
    /\ \A s \in Sessions :
          /\ client[s].state \in {"idle"} \cup FSMStates \cup Ended
          /\ client[s].pairing_step \in {"BEGIN", "STEP1", "STEP2", "STEP3", "STEP4", "DONE"}
          /\ client[s].out \in Seq(Fragment)
          /\ client[s].msg \in Replies \cup {None}
          /\ client[s].quit \in BOOLEAN /\ client[s].notifying \in BOOLEAN
          /\ client[s].sharedKey \in Keys
          /\ client[s].txNonce \in Nonces /\ client[s].rxNonce \in Nonces
          /\ client[s].result \in {None, "err", "success"}
          /\ notes[s] \in Seq(Replies)
    /\ server.recv.data \in Seq(Fragment)
    /\ server.recv.recv_len <= server.recv.data_len
    /\ server.admin_key \in Keys
    /\ server.server_nonce \in Nonces /\ server.client_nonce \in Nonces
    /\ troubled \in BOOLEAN

(* A client that reports success shares its key with the server, which     *)
(* holds the nonce of this very run: no mix-up of fragments, replies meant *)
(* for someone else or the one-byte answer to a step 3 that did not open   *)
(* makes a client believe that it is paired when it is not.                *)
SuccessIsShared ==
    \A s \in Sessions :
        client[s].result = "success" =>
            /\ server.admin_key = client[s].sharedKey
            /\ server.client_nonce = [by |-> s, n |-> 0]
            /\ server.crypt # None => server.crypt.key = client[s].sharedKey

(* Once the server has opened a run's step 3 it stands on the nonce that   *)
(* the run will seal its commit with, and the run on the nonce that sealed *)
(* step 4.                                                                 *)
NoncesInStep ==
    \A s \in Sessions :
        /\ server.client_nonce = [by |-> s, n |-> 0]
        /\ client[s].state = "STEP4" \/ (client[s].state = "COMMIT" /\ client[s].out = <<>>)
        => /\ client[s].txNonce = server.server_nonce
           /\ client[s].rxNonce = server.client_nonce

(* A single run whose calls all succeed ends in success, with its key      *)
(* handed to wifi_server.                                                  *)
UndisturbedRunPairs ==
    \A s \in Sessions :
        client[s].state = "BEGIN" ~>
            \/ troubled
            \/ /\ client[s].result = "success"
               /\ server.crypt # None
               /\ server.crypt.key = client[s].sharedKey

(* handleWriteCommit logs that the client wrote its commit: the package    *)
(* that completed the pairing is one.                                      *)
CommitWasWritten ==
    server.fsm \in {"PAIRING_COMPLETE", "SET_WIFI_BEGIN"} =>
        Whole(server.recv) /\ server.recv.data[1].msg.kind = "commit"

=============================================================================
