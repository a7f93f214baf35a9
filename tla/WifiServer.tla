----------------------------- MODULE WifiServer -----------------------------
(***************************************************************************)
(* Setting up the Wi-Fi: the button's thread of the bridge (WaitBtn and    *)
(* StartBLE of ign.c) starts the process wifi_server, which offers a GATT  *)
(* service for a minute, takes the name and the password of a network from *)
(* a phone, runs nmcli with them and exits; the thread waits for it to     *)
(* exit before it looks at the button again.  The process also runs the    *)
(* thread of CryptSocket.                                                  *)
(*                                                                         *)
(* handleSetWifiRequest either returns an error or exits the process, so   *)
(* the machine of wifi_server never leaves SET_WIFI_BEGIN and every        *)
(* complete package raises C_WRITE_WIFI_REQUEST.                           *)
(***************************************************************************)
EXTENDS RecvData, CryptSocket

CONSTANTS
    Phones,       \* phones whose application knows the service
    MaxQueued     \* bound: releases that wait in the input device

ASSUME WifiServerAssumption ==
    /\ DOMAIN PkgLen = {"request"}
    /\ MaxQueued \in Nat \ {0}

VARIABLES
    bridge,       \* the button's thread: "read", "waitpid", or "down"
    presses,      \* releases waiting in the input device
    live,         \* how many wifi_server processes exist
    srv,          \* the one started last
    out,          \* per phone: fragments it has still to write
    phone,        \* per phone: "idle", "writing" or "done"
    disturbed     \* history: writes to srv were cut short or met each other

buttonVars == <<bridge, presses>>
phoneVars  == <<out, phone, disturbed>>
vars == <<buttonVars, live, srv, phoneVars, sockVars>>

NoProcess == [phase |-> "none", alarm |-> FALSE, registered |-> FALSE,
              recv |-> EmptyRecv]

Init ==
    /\ bridge = "read" /\ presses = 0
    /\ live = 0
    /\ srv = NoProcess
    /\ out = [p \in Phones |-> <<>>]
    /\ phone = [p \in Phones |-> "idle"]
    /\ disturbed = FALSE
    /\ SockInit

-----------------------------------------------------------------------------
(* A process ends, whatever the reason, and with it its attributes: a      *)
(* phone in the middle of its package cannot go on.                        *)
PhonesLoseService ==
    /\ out' = [p \in Phones |-> <<>>]
    /\ phone' = [p \in Phones |-> "idle"]
    /\ disturbed' = FALSE

Exit ==
    /\ live' = live - 1
    /\ srv' = NoProcess
    /\ PhonesLoseService
    /\ SockReset(FALSE)

-----------------------------------------------------------------------------
(* The button's thread.                                                    *)

Press ==
    /\ bridge # "down" /\ presses < MaxQueued
    /\ presses' = presses + 1
    /\ UNCHANGED <<bridge, live, srv, phoneVars, sockVars>>

(* Mutant of StartBLE: killall is left to the end of the round.            *)
StartWithoutKill(how) ==
    /\ bridge = "read" /\ presses > 0
    /\ presses' = presses - 1
    /\ IF how = "vfork error"
       THEN UNCHANGED <<bridge, live, srv, phoneVars, sockVars>>
       ELSE /\ live' = IF how = "started" THEN live + 1 ELSE live
            /\ srv' = [NoProcess EXCEPT !.phase = IF how = "started" THEN "main" ELSE "none"]
            /\ bridge' = IF how = "started" THEN "waitpid" ELSE "read"
            /\ PhonesLoseService
            /\ SockReset(FALSE)

(* A release in WaitBtn.  The child kills every wifi_server there is, then *)
(* becomes one; if execl fails it returns to WaitBtn in the place of its   *)
(* parent, which vfork keeps suspended.                                    *)
StartBLE(how) ==
    /\ bridge = "read" /\ presses > 0
    /\ presses' = presses - 1
    /\ IF how = "vfork error"
       THEN UNCHANGED <<bridge, live, srv, phoneVars, sockVars>>
       ELSE /\ live' = IF how = "started" THEN 1 ELSE 0
            /\ srv' = [NoProcess EXCEPT !.phase = IF how = "started" THEN "main" ELSE "none"]
            /\ bridge' = IF how = "started" THEN "waitpid" ELSE "read"
            /\ PhonesLoseService
            /\ SockReset(FALSE)

(* waitpid returns, and killall finds nothing or what should not be there. *)
WaitpidReturns ==
    /\ bridge = "waitpid" /\ srv.phase = "none"
    /\ bridge' = "read"
    /\ live' = 0
    /\ UNCHANGED <<presses, srv, phoneVars, sockVars>>

(* The bridge aborts (main's assert) or is killed, and is started again;   *)
(* a wifi_server it was waiting for lives on.                              *)
Crash ==
    /\ bridge # "down"
    /\ bridge' = "down"
    /\ presses' = 0
    /\ UNCHANGED <<live, srv, phoneVars, sockVars>>

Restart ==
    /\ bridge = "down"
    /\ bridge' = "read"
    /\ UNCHANGED <<presses, live, srv, phoneVars, sockVars>>

-----------------------------------------------------------------------------
(* The process wifi_server.                                                *)

(* Mutant of main: alarm is not called.                                    *)
MainWithoutAlarm(ok, bound) ==
    /\ srv.phase = "main"
    /\ IF ok
       THEN /\ srv' = [srv EXCEPT !.phase = "loop"]
            /\ SockReset(bound)
            /\ UNCHANGED <<live, phoneVars>>
       ELSE Exit
    /\ UNCHANGED buttonVars

(* main up to g_main_loop_run: it fails without a signalfd, and its thread *)
(* ends at once if the port cannot be had.                                 *)
main(ok, bound) ==
    /\ srv.phase = "main"
    /\ IF ok
       THEN /\ srv' = [srv EXCEPT !.phase = "loop", !.alarm = TRUE]
            /\ SockReset(bound)
            /\ UNCHANGED <<live, phoneVars>>
       ELSE Exit
    /\ UNCHANGED buttonVars

(* BlueZ's interfaces turn up in some order.  With the GATT manager the    *)
(* service is registered, if the call succeeds; with the adapter,          *)
(* cmd_discoverable exits when it cannot open the controller.  Failures of *)
(* the other calls are only logged.                                        *)
proxy_added_cb(iface, ok) ==
    /\ srv.phase = "loop"
    /\ \/ iface = "Adapter" /\ ~ok /\ Exit
       \/ /\ iface = "GattManager" /\ ok /\ ~srv.registered
          /\ srv' = [srv EXCEPT !.registered = TRUE]
          /\ UNCHANGED <<live, phoneVars, sockVars>>
    /\ UNCHANGED buttonVars

(* decodeWifiInfoRequest refuses a whole request whose msg_id is not 0x51, *)
(* what encodeWifiInfoRequest writes among them: its id is 51.  What it    *)
(* makes of a mixture of several depends on its bytes.                     *)
Decodes(recv, luck) == IF Whole(recv) THEN recv.data[1].msg.id = "0x51" ELSE luck

(* handleSetWifiRequest up to nmcli.  When the package does not decode it  *)
(* stays in the buffer, and is all that later writes will find there.      *)
handleSetWifiRequest(s, luck) ==
    IF Decodes(s.recv, luck) THEN [s EXCEPT !.phase = "nmcli"] ELSE s

(* Mutant of chr_write_value: it does not wait for the package to be full. *)
WriteWithoutFullTest(s, f, luck) ==
    handleSetWifiRequest([s EXCEPT !.recv = recvData(@, f, PkgLen[f.msg.kind])], luck)

(* The buffer is never emptied, so what is read as a length is always the  *)
(* first byte of a package.                                                *)
chr_write_value(s, f, luck) ==
    LET got == [s EXCEPT !.recv = recvData(@, f, PkgLen[f.msg.kind])]
    IN  IF isRecvFullPkg(got.recv) THEN handleSetWifiRequest(got, luck) ELSE got

(* handleSetWifiRequest from nmcli on: it exits whatever nmcli returned.   *)
NmcliReturns ==
    /\ srv.phase = "nmcli"
    /\ Exit
    /\ UNCHANGED buttonVars

(* The alarm, in the loop or during nmcli.  The handler is not safe to run *)
(* inside malloc: when it interrupts the handling of a write it may block  *)
(* for ever on a lock that its own thread holds.                           *)
sig_alarm_to_close(interrupts) ==
    /\ srv.alarm /\ srv.phase \in {"loop", "nmcli"}
    /\ interrupts => srv.phase = "loop" /\ \E p \in Phones : phone[p] = "writing"
    /\ IF interrupts
       THEN /\ srv' = [srv EXCEPT !.phase = "hung"]
            /\ UNCHANGED <<live, phoneVars, sockVars>>
       ELSE Exit
    /\ UNCHANGED buttonVars

(* SIGINT or SIGTERM: the loop ends and main returns.                      *)
signal_handler ==
    /\ srv.phase = "loop"
    /\ Exit
    /\ UNCHANGED buttonVars

-----------------------------------------------------------------------------
(* The phone, which may write its request again and again.  "51" stands    *)
(* for every request that the decoder refuses, by its id or by a key.      *)
RequestIds == {"0x51", "51"}

PhoneBegins(p, id) ==
    /\ phone[p] # "writing"
    /\ srv.phase = "loop" /\ srv.registered
    /\ phone' = [phone EXCEPT ![p] = "writing"]
    /\ out' = [out EXCEPT ![p] = Fragments([kind |-> "request", p |-> p, id |-> id])]
    /\ disturbed' = (disturbed \/ \E q \in Phones : phone[q] \in {"writing", "done"})
    /\ UNCHANGED <<buttonVars, live, srv, sockVars>>

PhoneWrites(p, luck) ==
    /\ phone[p] = "writing" /\ srv.phase = "loop"
    /\ srv' = chr_write_value(srv, Head(out[p]), luck)
    /\ out' = [out EXCEPT ![p] = Tail(@)]
    /\ phone' = [phone EXCEPT ![p] = IF Tail(out[p]) = <<>> THEN "done" ELSE "writing"]
    /\ UNCHANGED <<buttonVars, live, disturbed, sockVars>>

(* The phone goes out of range or its application is closed.               *)
PhoneLeaves(p) ==
    /\ phone[p] = "writing"
    /\ phone' = [phone EXCEPT ![p] = "idle"]
    /\ out' = [out EXCEPT ![p] = <<>>]
    /\ disturbed' = TRUE
    /\ UNCHANGED <<buttonVars, live, srv, sockVars>>

-----------------------------------------------------------------------------
ButtonSteps ==
    \/ \E how \in {"started", "vfork error", "exec error"} : StartBLE(how)
    \/ WaitpidReturns

MainSteps ==
    \/ \E ok, bound \in BOOLEAN : main(ok, bound)
    \/ NmcliReturns

AlarmSteps == \E interrupts \in BOOLEAN : sig_alarm_to_close(interrupts)

ThreadSteps ==
    /\ SockNext
    /\ UNCHANGED <<buttonVars, live, srv, phoneVars>>

Environment ==
    \/ Press \/ Crash \/ Restart \/ signal_handler
    \/ \E iface \in {"Adapter", "GattManager"}, ok \in BOOLEAN : proxy_added_cb(iface, ok)
    \/ \E p \in Phones :
          \/ \E id \in RequestIds : PhoneBegins(p, id)
          \/ PhoneLeaves(p)
          \/ \E luck \in BOOLEAN : PhoneWrites(p, luck)

Next == ButtonSteps \/ MainSteps \/ AlarmSteps \/ ThreadSteps \/ Environment

Spec == Init /\ [][Next]_vars

(* The two main threads of the code and the clock go on; the user, the     *)
(* phones, BlueZ and the pairing processes may do nothing.                 *)
FairSpec == Spec /\ WF_vars(ButtonSteps) /\ WF_vars(MainSteps \/ AlarmSteps)

-----------------------------------------------------------------------------
(* Properties.                                                             *)

(* Every variable keeps its type, and the buffer never holds more than was *)
(* announced, however often a package is broken off and begun again.       *)
TypeOK ==
    /\ bridge \in {"read", "waitpid", "down"}
    /\ presses \in 0 .. MaxQueued
    /\ live \in Nat
    /\ srv.phase \in {"none", "main", "loop", "nmcli", "hung"}
    /\ srv.alarm \in BOOLEAN /\ srv.registered \in BOOLEAN
    /\ srv.recv.recv_len <= srv.recv.data_len
    /\ \A p \in Phones : phone[p] \in {"idle", "writing", "done"}
    /\ disturbed \in BOOLEAN /\ listening \in BOOLEAN
    /\ conn_amount \in 0 .. MAX_CLIENT
    /\ fd \in [Slots -> Peers \cup {NoPeer}]

(* There is never more than one wifi_server to answer the phones and to    *)
(* hold the port, although a bridge that dies leaves its own behind.       *)
OneServer == live <= 1

(* nmcli is run with a package exactly as one phone wrote it, and one that *)
(* the decoder takes, unless a package to this process was broken off, a   *)
(* phone wrote again or two phones wrote to it: it is never run on part of *)
(* a package.                                                              *)
AppliedAsWritten ==
    srv.phase = "nmcli" /\ ~disturbed =>
        Whole(srv.recv) /\ srv.recv.data[1].msg.id = "0x51"

(* A request that the decoder takes is handled with its last fragment,     *)
(* whatever else was written before or in between: none ever lies complete *)
(* in the buffer of a process that still waits.  And when a phone that was *)
(* alone has written its last fragment and the process still waits, then   *)
(* the request arrived as it was written and was refused; it stays in the  *)
(* buffer.                                                                 *)
HeardOut ==
    srv.phase = "loop" =>
        /\ Whole(srv.recv) => srv.recv.data[1].msg.id # "0x51"
        /\ ~disturbed => \A p \in Phones : phone[p] = "done" => Whole(srv.recv)

(* The button works again after every round, whatever the phone, BlueZ and *)
(* nmcli do, unless the alarm caught the process inside malloc.            *)
ButtonComesBack ==
    bridge = "waitpid" ~> bridge # "waitpid" \/ srv.phase = "hung"

=============================================================================
