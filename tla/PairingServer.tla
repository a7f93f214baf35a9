--------------------------- MODULE PairingServer ---------------------------
(***************************************************************************)
(* The accepting side of a pairing: the process `server' (server.c) with   *)
(* the reassembly of writes and the handshake of pairing.c and the table   *)
(* machine of fsm1.c.  It has one characteristic, one RecvData and one FSM *)
(* for everyone who writes.  Everything here is an operator on the value   *)
(* of the server; Pairing holds it as a variable and says when a write     *)
(* arrives.                                                                *)
(*                                                                         *)
(* A message is named by its kind, the session that wrote it and, when it  *)
(* is encrypted, the key and the nonce that sealed it.  The shared secret  *)
(* of a session and the n-th key pair of the server is <<session, n>>.     *)
(***************************************************************************)
EXTENDS RecvData

CONSTANTS
    Sessions,     \* runs of the pairing client (ble_pairing.c)
    Junk,         \* a public key put together from several messages
    None          \* no key, no message, nothing handed over

Kinds == {"step1", "step3", "commit"}

ASSUME PairingServerAssumption ==
    /\ Junk \notin Sessions /\ None \notin Sessions \cup {Junk, "success"}
    /\ None \notin [by : Sessions \cup {"server"}, n : Nat]
    /\ DOMAIN PkgLen = Kinds

Keys   == {None} \cup ((Sessions \cup {Junk}) \X Nat)
Nonces == {None} \cup [by : Sessions \cup {"server"}, n : Nat]

Message == [kind : Kinds, s : Sessions, key : Keys, nonce : Nonces, body : Nonces]
Fragment == [msg : Message, i : Nat]

incrementNonce(nonce) == [nonce EXCEPT !.n = @ + 1]

-----------------------------------------------------------------------------
(* The server and its table of transitions.                                *)

Replies == [kind : {"step2", "step4", "empty"}, key : Keys, nonce : Nonces, draw : Nat]

Step2(draw, nonce) == [kind |-> "step2", key |-> None, nonce |-> nonce, draw |-> draw]
Step4(key, nonce)  == [kind |-> "step4", key |-> key, nonce |-> nonce, draw |-> 0]
EmptyReply         == [kind |-> "empty", key |-> None, nonce |-> None, draw |-> 0]

InitServer ==
    [fsm |-> "PAIRING_BEGIN", event |-> "C_SUBSCRIBE", recv |-> EmptyRecv, draws |-> 0,
     admin_key |-> None, server_nonce |-> None, client_nonce |-> None, reply |-> None,
     crypt |-> None]

(* initPairingFsm.  fillFSMTransItem stores a row at the index of its      *)
(* event, so the row from PAIRING_COMPLETE back to PAIRING_BEGIN is        *)
(* replaced by the one to SET_WIFI_BEGIN filled after it.                  *)
TransTable ==
    [C_WRITE_STEP1      |-> [cur_state |-> "PAIRING_BEGIN", next_state |-> "PAIRING_STEP1"],
     S_REPLY_STEP2      |-> [cur_state |-> "PAIRING_STEP1", next_state |-> "PAIRING_STEP2"],
     C_WRITE_STEP3      |-> [cur_state |-> "PAIRING_STEP2", next_state |-> "PAIRING_STEP3"],
     S_REPLY_STEP4      |-> [cur_state |-> "PAIRING_STEP3", next_state |-> "PAIRING_STEP4"],
     C_WRITE_COMMIT     |-> [cur_state |-> "PAIRING_STEP4", next_state |-> "PAIRING_COMPLETE"],
     S_PAIRING_COMPLETE |-> [cur_state |-> "PAIRING_COMPLETE", next_state |-> "SET_WIFI_BEGIN"]]

(* What an action function returns: 0 and the server after it, or 1.       *)
Returns(ret, srv) == [ret |-> ret, srv |-> srv]

(* handleEvent runs the action of the event's row if the machine is in the *)
(* row's state, and moves on only if the action returned 0; done is what   *)
(* the action makes of srv.                                                *)
handleEvent(srv, event, done) ==
    CASE srv.fsm # TransTable[event].cur_state -> srv
      [] srv.fsm = TransTable[event].cur_state /\ done.ret = 0 ->
            [done.srv EXCEPT !.fsm = TransTable[event].next_state]
      [] OTHER -> done.srv

(* handleWriteStep1, handleWriteStep3 and handleWriteCommit only log.      *)
JustLogs(srv) == Returns(0, srv)

(* The public key a package is decoded to.  Fragments of several messages  *)
(* behind the first one of a step 1 may still decode.                      *)
PublicKey(recv, decodes) ==
    LET first == recv.data[1]
    IN  IF recv.data = <<>> \/ first.msg.kind # "step1" THEN None
        ELSE IF Whole(recv) THEN first.msg.s
        ELSE IF first.i = 1 /\ decodes THEN Junk ELSE None

(* server_gen_pairing_step2, then the test of handleReplyStep2 on the      *)
(* encoded bytes as if they were the struct: byte 12 of them (24 on 64     *)
(* bits) is a byte of the public key, and when it is 0 the reply is not    *)
(* sent.  On every error the package stays in the buffer.                  *)
handleReplyStep2(srv, luck, decodes) ==
    LET public == PublicKey(srv.recv, decodes)
        nonce  == [by |-> "server", n |-> 0]
        drawn  == [srv EXCEPT !.server_nonce = nonce]
        keyed  == [drawn EXCEPT !.draws = @ + 1]
        shared == [keyed EXCEPT !.admin_key = <<public, keyed.draws>>]
    IN  IF public = None THEN Returns(1, srv)
        ELSE CASE luck = "make_key"      -> Returns(1, drawn)
               [] luck = "shared_secret" -> Returns(1, keyed)
               [] luck = "cast"          -> Returns(1, shared)
               [] OTHER -> Returns(0, [shared EXCEPT !.reply = Step2(shared.draws, nonce),
                                                     !.recv = resetRecvData(@)])

(* decryptClientData: the package opens only if it is one message sealed   *)
(* with the server's key and nonce.                                        *)
Opens(srv) ==
    /\ Whole(srv.recv)
    /\ srv.recv.data[1].msg.kind # "step1"
    /\ srv.recv.data[1].msg.key = srv.admin_key
    /\ srv.recv.data[1].msg.nonce = srv.server_nonce

(* Mutant of ig_pairing_step4: the server's nonce is not advanced.         *)
Step4WithoutIncrement(srv) ==
    IF ~Opens(srv) THEN [srv EXCEPT !.reply = EmptyReply]
    ELSE [srv EXCEPT !.client_nonce = srv.recv.data[1].msg.body,
                     !.reply = Step4(srv.admin_key, srv.recv.data[1].msg.body)]

(* ig_pairing_step4: step 3 carries the nonce that seals step 4.  When     *)
(* step 3 does not open, the length written stays 0.                       *)
ig_pairing_step4(srv) ==
    IF ~Opens(srv) THEN [srv EXCEPT !.reply = EmptyReply]
    ELSE [srv EXCEPT !.server_nonce = incrementNonce(@),
                     !.client_nonce = srv.recv.data[1].msg.body,
                     !.reply = Step4(srv.admin_key, srv.recv.data[1].msg.body)]

(* handleReplyStep4 ignores what ig_pairing_step4 returned and looks only  *)
(* for a length of UINT32_MAX: a step 3 that does not open is answered     *)
(* with a package of one zero byte, and the machine moves on.              *)
handleReplyStep4(srv) ==
    Returns(0, [ig_pairing_step4(srv) EXCEPT !.recv = resetRecvData(@)])

(* handlePairingComplete hands the key and both nonces to wifi_server over *)
(* a socket that is made once, in main.                                    *)
handlePairingComplete(srv, luck) ==
    IF luck = "connect" THEN Returns(1, srv)
    ELSE Returns(0, [srv EXCEPT !.crypt = [key |-> srv.admin_key,
                                           server_nonce |-> srv.server_nonce,
                                           client_nonce |-> srv.client_nonce]])

(* decideEvent has no case for the other states and leaves the last event. *)
decideEvent(srv) ==
    [srv EXCEPT !.event = CASE srv.fsm = "PAIRING_BEGIN" -> "C_WRITE_STEP1"
                            [] srv.fsm = "PAIRING_STEP2" -> "C_WRITE_STEP3"
                            [] srv.fsm = "PAIRING_STEP4" -> "C_WRITE_COMMIT"
                            [] OTHER -> @]

(* handleClientEvent: the event of the client, then the one of the server. *)
handleClientEvent(srv, luck, decodes) ==
    LET logged(event) ==
            LET raised == [srv EXCEPT !.event = event]
            IN  handleEvent(raised, srv.event, JustLogs(raised))
        step1 == logged("S_REPLY_STEP2")
        step3 == logged("S_REPLY_STEP4")
        commit == logged("S_PAIRING_COMPLETE")
    IN  CASE srv.event = "C_WRITE_STEP1" ->
                handleEvent(step1, "S_REPLY_STEP2", handleReplyStep2(step1, luck, decodes))
          [] srv.event = "C_WRITE_STEP3" ->
                handleEvent(step3, "S_REPLY_STEP4", handleReplyStep4(step3))
          [] srv.event = "C_WRITE_COMMIT" ->
                handleEvent(commit, "S_PAIRING_COMPLETE", handlePairingComplete(commit, luck))
          [] OTHER -> srv

(* chr_write_value: one write of a fragment, whoever it comes from.        *)
chr_write_value(srv, f, len, luck, decodes) ==
    LET got == [srv EXCEPT !.recv = recvData(@, f, len), !.reply = None]
    IN  IF isRecvFullPkg(got.recv)
        THEN handleClientEvent(decideEvent(got), luck, decodes)
        ELSE got

=============================================================================
