----------------------------- MODULE MqttBridge -----------------------------
(***************************************************************************)
(* The cloud side of the bridge (ign.c, mqtt_util.c): Init connects,       *)
(* subscribes and asks for the user's locks; the thread of WaitMQTT then   *)
(* receives messages and deals with them one at a time, sends a heartbeat  *)
(* when none come, and rebuilds the connection when a publish fails, which *)
(* is the only way it ever notices that it has lost it.                    *)
(*                                                                         *)
(* The connection is opened with cleansession = 1: with it goes every      *)
(* subscription, and the broker keeps nothing for a bridge that is away.   *)
(***************************************************************************)
EXTENDS Naturals, Sequences, FiniteSets

CONSTANTS
    LockIds,          \* bt_ids of the user's locks
    NoLock,           \* no job is running
    MAX_LOCK_COUNT,   \* entries allocated for lockinfo (5 in the code)
    HeartBeatEvery,   \* idle receives per heartbeat (10 in the code)
    MaxMessages,      \* bound: messages the server publishes
    MaxBreaks,        \* bound: times the connection breaks
    MayRefuse         \* whether the broker may refuse a SUBSCRIBE

ASSUME MqttBridgeAssumption ==
    /\ NoLock \notin LockIds
    /\ MAX_LOCK_COUNT \in Nat \ {0}
    /\ HeartBeatEvery \in Nat \ {0}
    /\ MaxMessages \in Nat
    /\ MaxBreaks \in Nat
    /\ MayRefuse \in BOOLEAN

VARIABLES
    pc,          \* where the bridge is
    client,      \* whether g_sysif.mqtt_c is not NULL
    link,        \* the connection: "up", "stale" (dead, not noticed) or "down"
    subscribed,  \* topics the broker has for this connection
    queue,       \* messages in the client, not yet received
    hbInterval,  \* static counter of HeartBeat
    ble_list,    \* locks the one scan of Init found
    lockinfo,    \* the locks in the first lock_total entries of si->lockinfo
    current,     \* the job HandleLockCMD is running
    granted,     \* history: locks of the last UPDATE_USER_INFO dealt with
    messages,    \* bound counter: messages published by the server
    breaks,      \* bound counter: times the connection broke
    refused      \* history: the broker refused the last SUBSCRIBE to TOPIC_SUB

vars == <<pc, client, link, subscribed, queue, hbInterval, ble_list, lockinfo, current,
          granted, messages, breaks, refused>>

broker == <<messages, breaks>>

-----------------------------------------------------------------------------
Topics == {"server", "web"}   \* TOPIC_SUB and PUB_WEBDEMO

(* The server lists a lock once.                                           *)
LockLists == {s \in UNION {[1 .. n -> LockIds] : n \in 0 .. Cardinality(LockIds)} :
                  \A i, j \in DOMAIN s : i # j => s[i] # s[j]}

Updates == [type : {"UPDATE_USER_INFO"}, locks : LockLists]
Jobs    == [type : {"NEW_JOB_NOTIFY"}, lock : LockIds]
Others  == [type : {"HEARTBEAT", "unknown", "undecodable"}]
WebAsks == [type : {"getUserInfo"}]
ServerMessages == Updates \cup Jobs \cup Others

Init ==
    /\ pc = "scan"
    /\ client = FALSE
    /\ link = "down"
    /\ subscribed = {}
    /\ queue = <<>>
    /\ hbInterval = 0
    /\ ble_list = {}
    /\ lockinfo = {}
    /\ current = NoLock
    /\ granted = {}
    /\ messages = 0
    /\ breaks = 0
    /\ refused = FALSE

-----------------------------------------------------------------------------
(* MQTT_initClients, through Init_MQTT: a new client replaces the old one, *)
(* whose queue and subscriptions are gone; on failure mqtt_c is NULL.      *)
Init_MQTT(ok) ==
    /\ client' = ok
    /\ link' = IF ok THEN "up" ELSE "down"
    /\ subscribed' = {}
    /\ queue' = <<>>

(* MQTTClient_subscribe succeeds only on a live connection.                *)
SubscribeOutcome(ok) ==
    /\ ok => link = "up"
    /\ ok \/ link # "up" \/ MayRefuse

(* SendMQTTMsg: a failed publish starts the reconnection; the message is   *)
(* not sent again.  A publish on a stale connection may seem to succeed.   *)
(* A message that does not fit in the 1024-byte buffer is dropped; that of *)
(* a heartbeat or of GetUserInfo always fits.                              *)
SendMQTTMsg(fits, ok) ==
    /\ CASE link = "up"    -> ok
         [] link = "down"  -> ~ok
         [] link = "stale" -> TRUE
    /\ pc' = IF ok \/ ~fits THEN "receive" ELSE "reconnect"

-----------------------------------------------------------------------------
(* Init.                                                                   *)

(* GetMacAddr, Init_Ble and ScanBLE.  When one of them fails Init returns  *)
(* and main's assert ends the program.                                     *)
ScanBLE(ok, found) ==
    /\ pc = "scan"
    /\ ble_list' = IF ok THEN found ELSE {}
    /\ pc' = IF ok THEN "connect" ELSE "aborted"
    /\ UNCHANGED <<client, link, subscribed, queue, hbInterval, lockinfo, current,
                   granted, broker, refused>>

(* The loop of Init around Init_MQTT.                                      *)
InitConnect(ok) ==
    /\ pc = "connect"
    /\ Init_MQTT(ok)
    /\ pc' = IF ok THEN "subscribe" ELSE "connect"
    /\ UNCHANGED <<hbInterval, ble_list, lockinfo, current, granted, broker, refused>>

(* Init subscribes to both topics; a failure ends the program too.         *)
InitSubscribe(okServer, okWeb) ==
    /\ pc = "subscribe"
    /\ SubscribeOutcome(okServer) /\ SubscribeOutcome(okWeb)
    /\ subscribed' = {t \in Topics : okServer /\ (t = "web" => okWeb)}
    /\ pc' = IF okServer /\ okWeb THEN "getUserInfo" ELSE "aborted"
    /\ UNCHANGED <<client, link, queue, hbInterval, ble_list, lockinfo, current,
                   granted, broker, refused>>

(* GetUserInfo, from Init and from DoWebMsg.                               *)
GetUserInfo(ok) ==
    /\ pc = "getUserInfo"
    /\ SendMQTTMsg(TRUE, ok)
    /\ UNCHANGED <<client, link, subscribed, queue, hbInterval, ble_list, lockinfo,
                   current, granted, broker, refused>>

-----------------------------------------------------------------------------
(* WaitMQTT and DealCMD.                                                   *)

(* The table that InitLockinfo leaves.                                     *)
InitLockinfo == {}

(* AddLockinfo for the entries of an update, in order, on a table: those   *)
(* with an address in ble_list are added as long as lock_total, which goes *)
(* on from what the table holds, is below MAX_LOCK_COUNT - 1.              *)
AddLockinfo(table, locks) ==
    LET discovered == {i \in DOMAIN locks : locks[i] \in ble_list}
        added == {i \in discovered :
                     Cardinality(table) + Cardinality({j \in discovered : j < i})
                         < MAX_LOCK_COUNT - 1}
    IN  table \cup {locks[i] : i \in added}

(* Mutant of DealUpdate: InitLockinfo is not called.                       *)
UpdateWithoutReset(fits, ok) ==
    /\ pc = "receive"
    /\ queue # <<>> /\ Head(queue).type = "UPDATE_USER_INFO"
    /\ queue' = Tail(queue)
    /\ lockinfo' = AddLockinfo(lockinfo, Head(queue).locks)
    /\ granted' = {Head(queue).locks[i] : i \in DOMAIN Head(queue).locks}
    /\ SendMQTTMsg(fits, ok)
    /\ UNCHANGED <<client, link, subscribed, hbInterval, ble_list, current, broker, refused>>

(* UPDATE_USER_INFO: InitLockinfo, AddLockinfo for every entry, and the    *)
(* list is passed on to the web client.                                    *)
DealUpdate(fits, ok) ==
    /\ pc = "receive"
    /\ queue # <<>> /\ Head(queue).type = "UPDATE_USER_INFO"
    /\ queue' = Tail(queue)
    /\ lockinfo' = AddLockinfo(InitLockinfo, Head(queue).locks)
    /\ granted' = {Head(queue).locks[i] : i \in DOMAIN Head(queue).locks}
    /\ SendMQTTMsg(fits, ok)
    /\ UNCHANGED <<client, link, subscribed, hbInterval, ble_list, current, broker, refused>>

(* SearchLockInfo.                                                         *)
Known(l) == l \in lockinfo

(* Mutant of DealJob: a job is run whether or not its lock is known.       *)
JobForAnyLock ==
    /\ pc = "receive"
    /\ queue # <<>> /\ Head(queue).type = "NEW_JOB_NOTIFY"
    /\ queue' = Tail(queue)
    /\ pc' = "job"
    /\ current' = Head(queue).lock
    /\ UNCHANGED <<client, link, subscribed, hbInterval, ble_list, lockinfo, granted,
                   broker, refused>>

(* NEW_JOB_NOTIFY: the job of a lock that is not in the table is refused.  *)
DealJob ==
    /\ pc = "receive"
    /\ queue # <<>> /\ Head(queue).type = "NEW_JOB_NOTIFY"
    /\ queue' = Tail(queue)
    /\ IF Known(Head(queue).lock)
       THEN pc' = "job" /\ current' = Head(queue).lock
       ELSE UNCHANGED <<pc, current>>
    /\ UNCHANGED <<client, link, subscribed, hbInterval, ble_list, lockinfo, granted,
                   broker, refused>>

(* The rest of HandleLockCMD, as CommandService describes it: only a query *)
(* that succeeded publishes its result.                                    *)
JobEnds(publishes, fits, ok) ==
    /\ pc = "job"
    /\ current' = NoLock
    /\ IF publishes THEN SendMQTTMsg(fits, ok) ELSE pc' = "receive"
    /\ UNCHANGED <<client, link, subscribed, queue, hbInterval, ble_list, lockinfo,
                   granted, broker, refused>>

(* DoWebMsg with cmd getUserInfo.                                          *)
DoWebMsg ==
    /\ pc = "receive"
    /\ queue # <<>> /\ Head(queue).type = "getUserInfo"
    /\ queue' = Tail(queue)
    /\ pc' = "getUserInfo"
    /\ UNCHANGED <<client, link, subscribed, hbInterval, ble_list, lockinfo, current,
                   granted, broker, refused>>

(* A heartbeat of the server, an unknown type, a payload pb_decode refuses.*)
DealOther ==
    /\ pc = "receive"
    /\ queue # <<>> /\ Head(queue) \in Others
    /\ queue' = Tail(queue)
    /\ UNCHANGED <<pc, client, link, subscribed, hbInterval, ble_list, lockinfo, current,
                   granted, broker, refused>>

(* Mutant of HeartBeat: the counter is never folded back to 0.             *)
BeatNeverFolds(ok) ==
    /\ pc = "receive"
    /\ queue = <<>>
    /\ hbInterval' = IF hbInterval < HeartBeatEvery - 1 THEN hbInterval + 1 ELSE hbInterval
    /\ UNCHANGED <<pc, client, link, subscribed, queue, ble_list, lockinfo, current,
                   granted, broker, refused>>

(* Mutant of HeartBeat: the counter is reset only by a publish that went   *)
(* through.                                                                *)
BeatFoldsOnSuccess(ok) ==
    /\ pc = "receive"
    /\ queue = <<>>
    /\ IF hbInterval + 1 < HeartBeatEvery
       THEN hbInterval' = hbInterval + 1 /\ pc' = pc
       ELSE /\ hbInterval' = IF ok THEN 0 ELSE hbInterval + 1
            /\ SendMQTTMsg(TRUE, ok)
    /\ UNCHANGED <<client, link, subscribed, queue, ble_list, lockinfo, current,
                   granted, broker, refused>>

(* MQTTClient_receive returned without a message: one call of HeartBeat,   *)
(* which publishes every HeartBeatEvery-th time.                           *)
HeartBeat(ok) ==
    /\ pc = "receive"
    /\ queue = <<>>
    /\ hbInterval' = (hbInterval + 1) % HeartBeatEvery
    /\ IF hbInterval' = 0 THEN SendMQTTMsg(TRUE, ok) ELSE pc' = pc
    /\ UNCHANGED <<client, link, subscribed, queue, ble_list, lockinfo, current,
                   granted, broker, refused>>

-----------------------------------------------------------------------------
(* The reconnection inside SendMQTTMsg.                                    *)

Reconnect(ok) ==
    /\ pc = "reconnect"
    /\ Init_MQTT(ok)
    /\ pc' = IF ok THEN "resubscribe" ELSE "reconnect"
    /\ UNCHANGED <<hbInterval, ble_list, lockinfo, current, granted, broker, refused>>

(* Mutant of Resubscribe: only the web topic is subscribed again.          *)
ResubscribeWebOnly(okServer, okWeb) ==
    /\ pc = "resubscribe"
    /\ SubscribeOutcome(okServer) /\ SubscribeOutcome(okWeb)
    /\ subscribed' = {t \in {"web"} : okWeb}
    /\ refused' = (link = "up" /\ ~okServer)
    /\ pc' = "receive"
    /\ UNCHANGED <<client, link, queue, hbInterval, ble_list, lockinfo, current, granted,
                   broker>>

(* Either subscription may fail; the code logs it and carries on.          *)
Resubscribe(okServer, okWeb) ==
    /\ pc = "resubscribe"
    /\ SubscribeOutcome(okServer) /\ SubscribeOutcome(okWeb)
    /\ subscribed' = {t \in Topics : IF t = "server" THEN okServer ELSE okWeb}
    /\ refused' = (link = "up" /\ ~okServer)
    /\ pc' = "receive"
    /\ UNCHANGED <<client, link, queue, hbInterval, ble_list, lockinfo, current, granted,
                   broker>>

-----------------------------------------------------------------------------
(* The broker, the server, the web client and the network.                 *)

Publish(m, topic) ==
    /\ messages < MaxMessages
    /\ messages' = messages + 1
    /\ queue' = IF link = "up" /\ topic \in subscribed THEN Append(queue, m) ELSE queue
    /\ UNCHANGED <<pc, client, link, subscribed, hbInterval, ble_list, lockinfo, current,
                   granted, breaks, refused>>

LinkBreaks ==
    /\ link = "up"
    /\ breaks < MaxBreaks
    /\ breaks' = breaks + 1
    /\ link' = "stale"
    /\ UNCHANGED <<pc, client, subscribed, queue, hbInterval, ble_list, lockinfo, current,
                   granted, messages, refused>>

(* The client library gives a dead connection up when its keep-alive       *)
(* (60 s) goes unanswered.                                                 *)
KeepAliveFails ==
    /\ link = "stale"
    /\ link' = "down"
    /\ UNCHANGED <<pc, client, subscribed, queue, hbInterval, ble_list, lockinfo, current,
                   granted, broker, refused>>

-----------------------------------------------------------------------------
InitSteps ==
    \/ \E ok \in BOOLEAN, found \in SUBSET LockIds : ScanBLE(ok, found)
    \/ \E okServer, okWeb \in BOOLEAN : InitSubscribe(okServer, okWeb)

ConnectSteps == \E ok \in BOOLEAN : InitConnect(ok) \/ Reconnect(ok)

WaitMQTTSteps ==
    \/ \E ok \in BOOLEAN : GetUserInfo(ok) \/ HeartBeat(ok)
    \/ \E fits, ok \in BOOLEAN : DealUpdate(fits, ok)
    \/ \E publishes, fits, ok \in BOOLEAN : JobEnds(publishes, fits, ok)
    \/ DealJob
    \/ DoWebMsg
    \/ DealOther
    \/ \E okServer, okWeb \in BOOLEAN : Resubscribe(okServer, okWeb)

Environment ==
    \/ \E m \in ServerMessages : Publish(m, "server")
    \/ \E m \in WebAsks : Publish(m, "web")
    \/ LinkBreaks
    \/ KeepAliveFails

Aborted == pc = "aborted" /\ UNCHANGED vars

Next == InitSteps \/ ConnectSteps \/ WaitMQTTSteps \/ Environment \/ Aborted

Spec == Init /\ [][Next]_vars

(* The bridge's thread runs on, a dead connection is noticed in the end,   *)
(* and of infinitely many attempts to connect one succeeds.                *)
FairSpec ==
    /\ Spec
    /\ WF_vars(InitSteps) /\ WF_vars(ConnectSteps) /\ WF_vars(WaitMQTTSteps)
    /\ WF_vars(KeepAliveFails)
    /\ SF_vars(InitConnect(TRUE) \/ Reconnect(TRUE))

-----------------------------------------------------------------------------
(* Properties.                                                             *)

(* Every variable keeps its type, and the counter of HeartBeat its range,  *)
(* whatever the publishes return.                                          *)
TypeOK ==
    /\ pc \in {"scan", "connect", "subscribe", "getUserInfo", "receive", "job",
               "reconnect", "resubscribe", "aborted"}
    /\ client \in BOOLEAN
    /\ link \in {"up", "stale", "down"}
    /\ subscribed \subseteq Topics
    /\ queue \in Seq(ServerMessages \cup WebAsks)
    /\ hbInterval \in 0 .. HeartBeatEvery - 1
    /\ ble_list \subseteq LockIds
    /\ lockinfo \subseteq LockIds
    /\ current \in LockIds \cup {NoLock}
    /\ granted \subseteq LockIds
    /\ messages \in 0 .. MaxMessages
    /\ breaks \in 0 .. MaxBreaks
    /\ refused \in BOOLEAN

(* The table is that of the last UPDATE_USER_INFO: no lock of an earlier   *)
(* one, each of its locks that the scan found, and if these are too many,  *)
(* as many as fit: one entry of the allocated MAX_LOCK_COUNT stays free.   *)
TableFollowsUpdate ==
    /\ lockinfo \subseteq granted \cap ble_list
    /\ Cardinality(lockinfo) < MAX_LOCK_COUNT
    /\ lockinfo # granted \cap ble_list => Cardinality(lockinfo) = MAX_LOCK_COUNT - 1

(* A job runs only on a lock that the last UPDATE_USER_INFO granted and    *)
(* the scan found: a lock that an update took away is out of reach at once,*)
(* whatever was queued, lost or reconnected since.                         *)
JobsOnlyForGrantedLocks == pc = "job" => current \in granted \cap ble_list

(* The bridge never waits for messages on a NULL client, and on a live     *)
(* connection whose SUBSCRIBE the broker did not refuse it is subscribed   *)
(* to its topic, however many reconnections came before.                   *)
ListeningWhenConnected ==
    pc = "receive" => /\ client
                      /\ link = "up" /\ ~refused => "server" \in subscribed

(* A bridge that lost its connection, noticed or not, ends up connected    *)
(* and subscribed again, unless the broker refuses the SUBSCRIBE, although *)
(* nothing but the heartbeat will tell it.  (A loss during Init may end    *)
(* the program in main's assert.)                                          *)
Heals ==
    link # "up" ~> \/ link = "up" /\ ("server" \in subscribed \/ refused)
                   \/ pc = "aborted"

(* SendMQTTMsg logs that re-subscribing succeeded whatever the call        *)
(* returned: back in WaitMQTT on a live connection, the bridge is          *)
(* subscribed to its topic.                                                *)
ResubscribeSucceeded == pc = "receive" /\ link = "up" => "server" \in subscribed

=============================================================================
