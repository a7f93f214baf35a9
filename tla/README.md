# The igloohome bridge, in TLA+

The bridge (`src/src/bridge`) is a C program that sits between a cloud server
and Bluetooth locks. The server sends it, over MQTT, the list of a user's locks
with their keys, and then jobs: lock, unlock, read the status, the battery or
the logs, create or delete a pin. For each job the bridge opens a GATT link to
the lock, runs a four-message handshake, sends one encrypted command, waits for
its answer and publishes what it learned.

This directory models that path end to end: the session with a lock, the table
of connections and nonces below it, the framing of messages into GATT
fragments, and the MQTT side above it. It also models the two other protocols
of the repository: pairing, between a command-line client and the process
`server`, and the setting up of the Wi-Fi, between the bridge's button, the
process `wifi_server` and a phone.

## The system

| component | state | operations | works with |
|---|---|---|---|
| guest session (`ble_guest.c`, `HandleLockCMD` and `saveTaskData` of `ign.c`) | the `guest_connection_t` of the task (step, buffer, error flags), the GLib loop and its timer, the GATT link, the result codes | connect, start notifications, the four handshake steps, command, response, timeout, teardown, report | calls the connection table; called back by GATT notifications and the timer; called by the dispatcher |
| connection table (`connection_common.c`, `guest_connection.c`) | `connections_[32]`: active flag, key, two nonces | begin, step 3, step 4, encrypt, decrypt, end | guest session; pairing and admin connections share it |
| framing (`ble_operation.c`, `save_message_data`) | the sizes of the message being put together | build a payload, write it in pieces of 20 bytes, store a fragment | guest session, pairing |
| cloud link and dispatch (`ign.c`, `mqtt_util.c`) | the MQTT client, the heartbeat counter, `ble_list`, `lockinfo` | Init, WaitMQTT, DealCMD, DoWebMsg, SendMQTTMsg with its reconnection, HeartBeat | calls HandleLockCMD; the server and a web client publish to it |
| task queue and main loop (`task_queue.c`, `ign.c`) | doing and waiting lists | insert, move, delete, FSMHandle | the test programs insert one task; in the bridge nothing live does |
| pairing client (`ble_pairing.c`, `pairing_connection.c`, run by `test/pair.c` and `test/wifi_pairing.c`) | the `pairing_connection_t` of the task: step, buffer, shared key, two nonces | register, steps 1 to 4, commit, error exits | writes to `server`, called back by its notifications |
| pairing service (process `server`: `server.c`, `pairing.c`, `fsm1.c`) | one `RecvData`, one table machine, the admin key, two nonces, for everyone who writes | take a write, reply step 2 and step 4, complete | answers pairing clients; hands a `Crypt` to `wifi_server` over TCP port 13140 |
| button (`WaitBtn`, `StartBLE` of `ign.c`) | the input device, the child it waits for | start, wait, kill | starts `wifi_server` |
| `wifi_server` (`wifi_server.c`, `SetWifiInfoRequest.c`) | one `RecvData`, the alarm, the registered service; in its thread a table of socket descriptors | start, take a write, run nmcli, exit; accept and read a `Crypt` | written to by a phone; read from `server` |
| admin connection (`admin_connection.c`) | like the guest session | like the guest session | command-line programs only |
| discovery (`ble_discover.c`, `lock_list.c`) | a list of locks with timestamps | scan, merge, expire | `test/scan.c` only; the bridge uses `ScanBLE` |
| certificate download, LEDs, logging | files | HTTPS, shell commands | its call is commented out of Init |

Who runs concurrently: the thread of `WaitMQTT` runs everything from the MQTT
message to the last step of a session, so jobs never overlap; beside it run the
lock, the network, the timer and the notification queue (dispatched by the
loop inside that same thread), and the button's thread, which shares nothing
with them but the LEDs. `main`'s own loop sleeps. `server` and `wifi_server`
are processes of their own: everything a client or a phone writes meets in
their one buffer and one state machine, and `wifi_server` has a second thread
for the socket.

What is hard here: the order of timer, notifications and teardown; a slot, a
buffer or a nonce that one session leaves behind for the next; errors carried
through several layers of return codes; a message boundary found from the bytes
alone; a connection that dies without anyone noticing. `PROJECT.json` lists
these hazards at their lines with the properties that watch them.

What makes each component correct: a session always ends, reports what
happened, publishes only what the lock confirmed, and leaves no callback, slot
or nonce that could disturb the next; a pairing client reports success only
when the server holds its key; there is one `wifi_server` at a time, it applies
whole requests only, and the button works again after every round; the table gives each session a slot and
gets it back; both ends agree on nonces; a message is taken exactly when whole;
jobs run only on locks the server has granted; a lost connection is rebuilt
with its subscriptions.

## Modules

| module | models |
|---|---|
| `Connections` | the table and the handshake's effect on it, as operators on the table's value |
| `GuestSession` | the session: one action per call, callback and step of the loop; the lock as its environment |
| `CommandService` | what a caller of HandleLockCMD can count on: one report per job, at most one handling, "ok" only after it |
| `MCGuestSession` | GuestSession with two interchangeable locks |
| `GuestSessionProofs` | types and slots of the session, for all constants |
| `GuestProtocolProofs` | what session and lock agree on while messages are under way; extends the one before |
| `GuestJobsProofs` | what a caller of HandleLockCMD can count on, with the refinement of `CommandService`; extends the one before |
| `Framing` | the writer and the reader of the fragment format, byte by byte where bytes decide |
| `FramingProofs` | whole messages and no overrun, for all lengths up to 254 |
| `MqttBridge` | Init, the receive loop, the reconnection, the lock table, the broker |
| `MqttBridgeProofs` | the lock table and the subscription, for any locks, table size and number of messages |
| `RecvData` | the reassembly of writes that `server` and `wifi_server` share, and the cutting into fragments it undoes |
| `PairingServer` | the process `server`, as operators on its state; extends `RecvData` |
| `Pairing` | any number of runs of the pairing client against one `PairingServer` |
| `PairingProofs` | success, keys and nonces of a pairing, for any number of overlapping runs |
| `MCPairing` | the lengths of the three packages a client writes |
| `CryptSocket` | the thread of `wifi_server` that takes the keys of pairings |
| `CryptSocketProofs` | the table of that thread, for any number of entries and peers |
| `WifiServer` | the button's thread, the process `wifi_server` and the phone; extends `RecvData` and `CryptSocket` |
| `WifiServerProofs` | the one process, its requests and its table, for any number of phones; extends `CryptSocketProofs` |
| `MCWifiServer` | the length of a Wi-Fi request |

### GuestSession

`pc` is the place of the WaitMQTT thread in `HandleLockCMD` and
`guest_connection_and_do_cmd`: `connect`, `notify`, `step1` are the calls before
the loop, `loop` is `g_main_loop_run`, `exit` the label GUEST_ERROR_EXIT.
`gc` has the fields of `guest_connection_t` that decide anything, with
`connectionID` of its lock. Handlers keep their names. Choices left open by the
code's environment are parameters: whether a GATT call succeeds, whether a
write that failed reached the lock, whether a request could be encoded, whether
the clock's second is the same as in the last session (`srand(time)`).

Three points of the real platform are modelled because the code's correctness
depends on them:

* A GLib iteration dispatches *all* ready sources, the timer first, even after
  `g_main_loop_quit` (`Iterate`, `batch`).
* A fragment is a notification of its own, so a message arrives over several
  callbacks and the timer may come between (`inbox`, `MaxFrags`).
* A message whose third byte on the air happens to be 0xff is misread as a long
  one (`ff`, `Misread`): it never completes and the timer ends the session.
  `Framing` has the byte-level account.

The lock is external: it answers step 1, step 3 and a command it can open, may
answer badly or not at all, and forgets a link when a new one opens. Encryption
is abstracted to "opens under the key and nonce it was sealed with".

Left out: `g_main_loop_new` returning NULL and a constant UUID string that does
not parse, which cannot happen; memory that is never freed; the second
`g_source_remove` of a timer that has already fired, which GLib ignores with a
warning; the content of requests and responses beyond done/refused and whether
the command asks for a value. The table keeps the code's
slips: `endConnection` resets the nonce of slot 0 whatever slot it ends, and a
failed `beginConnection` leaves its slot taken.

### Framing

A sender frames messages as `build_msg_payload` does, in lockstep with a reader
that uses `save_message_data`. Of a message only its length and first two bytes
can be taken for a header, so those are what the model has.

### MqttBridge

`pc` is the place of the program in Init or WaitMQTT. `link` is "stale" from
the moment the connection is dead until the client library or a failed publish
finds out. `lockinfo` is the set of locks in the table, since nothing depends on
their order. An update empties it (`InitLockinfo`) and then adds the discovered
locks it lists, in their order, until the table has no room (`AddLockinfo`,
which counts on from what the table already holds). HandleLockCMD is one step
(`JobEnds`): `CommandService` is what that step promises.

### RecvData

A package is a length and then that many bytes, cut into fragments of 20. The
receiver allocates what the first byte announces and appends fragments until
it has as many. A fragment is known by its message and its number, so a buffer
that mixes two messages can be told from a whole one (`Whole`). When the
buffer is empty and the fragment is not the first of its message, a byte from
inside a message is read as the length: `StrayLens` are the values it may have.

### Pairing

`client[s]` is one run of the client, a process of its own: `state` is the row
of `pairing_fsm_table`, `out` the fragments it has still to write, `msg` the
message it has taken from notifications. `server` is the accepting process. A
write is synchronous, so `WriteFragment` has both the client's and the server's
side; when the package becomes full, the whole of `handleClientEvent`, its reply
included, is part of that step. A write may be reported as failed after it was
delivered. Runs may overlap or be killed at any point. Keys are pairs of a run
and a key pair of the server; a message opens under the key and the nonce that
sealed it.

What the code does that a reader would not expect, and the model keeps:

* `initPairingFsm` stores rows at the index of their event, so of two rows for
  one event only the second is left. Row 0, which is not filled, never matches.
* After any error of an action the package stays in the buffer and the server
  answers nobody until it is restarted.
* `handleReplyStep2` tests the encoded bytes as if they were the struct. The
  byte it looks at belongs to the public key; when it is 0 no reply is sent.
* `handleReplyStep4` answers a step 3 that does not open with a package of one
  zero byte, which the client's `save_message_data` ignores and its handler
  takes for complete.
* `write_pairing_step1` has no return after its error exit, so its value is
  undefined: both continuations are in the model.
* The commit is not looked at (see `commit_written`).

### WifiServer

`bridge` is the button's thread, `srv` the process it started last, `live` how
many there are. A bridge that dies leaves its child running, and the next
`StartBLE` kills it. The process sets its alarm in `main`, registers its
service when BlueZ's interfaces turn up, and ends in `handleSetWifiRequest`
(always, once a request decodes), by its alarm, by a signal or when it cannot
open the controller. It never decrypts a request and never leaves
SET_WIFI_BEGIN, and the `Crypt` handed over to it is stored and not used. If
`execl` fails, the vforked child returns to `WaitBtn` in place of its suspended
parent. The alarm's handler is not safe inside `malloc`: `hung` is that outcome.

The phone's application is not in the repository. It is modelled as writing the
fragments of a request, any number of times, and leaving at any point. A request
has an id: `"0x51"` is one that `decodeWifiInfoRequest` takes, `"51"` one that it
refuses (its `msg_id` is another, or it has a key the decoder does not know). The
repository's own `encodeWifiInfoRequest` writes 51
(`SetWifiInfoRequest.c:107`) where the decoder wants 0x51 (line 188), so a phone
that uses it is always refused, although `test/wifi_setting.c:102-108` expects
the round trip to succeed; that program fails its own check and never writes.
After a refusal `handleSetWifiRequest` returns an error and the package stays in
the buffer, full: later writes are dropped, the same package is refused again
with each of them, and the process ends by its alarm. LEDs, also written by the
other thread, and the content of advertisements are left out.

`CryptSocket` has the socket's thread with `fd`, `conn_amount` and the turn of
its loop: what `select` saw, at most one accept, then a read of the first
`conn_amount` entries. `Recv` states what the `for` loop over the table does as
a whole: an entry that ends the connection is freed and `conn_amount` goes down
while the loop is running, so the loop stops earlier. `accept` is called with an
uninitialised length and may fail. A pairing's `Crypt` is read in a later turn than
the accept, by an entry's place in the table: `CryptIsKept` follows it from
the sender's write through the backlog and the table to `decodeCrypt`.

## Runs

| run | checks | bounds | result |
|---|---|---|---|
| `session_safety` | TypeOK, SlotDiscipline, BufferFits, EveryFragmentHasAHandler, NonceAgreement, FailureHasCause, NoCallbackOutlivesTask, PublishedWasHandled, ImplementsCommandService | 3 jobs, 2 locks (symmetric), 2 slots, 2 fragments | holds |
| `session_live` | SessionEnds | 2 jobs, 1 lock | holds |
| `refusal_reported` | RefusalIsReported | 1 job | violated |
| `link_released` | LinkReleased | 1 job | violated |
| `answered_in_time` | AnsweredIsNotTimedOut | 1 job | violated |
| `framing` | TakenWhenWhole, NeverPastTheEnd | 2 messages; 11 lengths around 2, 20, 40, 60 and 254 bytes; bytes 0, 254, 255 | holds |
| `long_length` | LongLengthIsBigEndian | lengths 254 and 255 | violated |
| `mqtt_safety` | TypeOK, TableFollowsUpdate, JobsOnlyForGrantedLocks, ListeningWhenConnected, Heals | 2 locks, a table with room for one, 3 messages, 2 breaks, a heartbeat every 3 receives | holds |
| `resubscribe` | ResubscribeSucceeded | 1 message, 1 break | violated |
| `pairing` | TypeOK, SuccessIsShared, NoncesInStep, UndisturbedRunPairs | 2 runs of the client; packages of 71, 26 and 18 bytes (4, 2 and 1 fragments); stray lengths 6, 20 and 30 | holds |
| `commit_written` | CommitWasWritten | as `pairing`, stray lengths 6 and 30 | violated |
| `wifi_setup` | TypeOK, OneServer, AppliedAsWritten, HeardOut, TableMatchesCount, CryptIsKept, ButtonComesBack | 1 phone with any number of attempts and both kinds of request, of 2 fragments, 1 press waiting, 3 pairings handing over keys, 2 table entries, any number of rounds and crashes | holds |

Why the bounds are enough. Three jobs with two slots: a slot leaked by the first
job would move the second to slot 1 and leave the third without one, and a
nonce left behind by one job is met by the next, on the same lock or another.
Two fragments per message give first, last and only fragments, with the timer
in between. The lengths of `framing` sit on both sides of every boundary of the
code; two messages show that the second starts from a clean reader. In
`mqtt_safety` the table is full after one lock and two locks compete for it;
two breaks let the connection fail again during its own repair. In `pairing`
the second run meets everything the first can leave behind: part of a package,
a server in any state, a reply meant for someone else; the stray lengths are
less than a fragment, exactly one, and more than one. (`commit_written` leaves out
20: with it single fragments of a step 1 count as packages of their own, and the
shortest trace is about those.) In `wifi_setup` an attempt
that is broken off and begun again with another request makes a full package
of parts of two; three connections for two entries let the table
fill up, refuse one, and have a hole below an entry in use.

Some properties say less than one might wish, because the code does less.
UndisturbedRunPairs is about a run that nothing disturbed, since after an error
the server answers nobody. AppliedAsWritten says nothing of a package that
another attempt was mixed into: the code cannot tell it from a whole one. The
second half of HeardOut, about a phone that was alone, has two outcomes, served
or refused with the whole request in the buffer; its first half holds of any
mixture. CryptIsKept promises that a key is not lost, not that it is read: an
entry above a hole is out of the loop's sight until further connections come.

The six violations are disagreements between the code and what the repository
says of it; `PROJECT.json` quotes both sides.

* `RefusalIsReported`: the result in the lock's response is overwritten by 0
  before the caller sees it, so a refused command counts as done.
* `LinkReleased`: when stopping notifications fails, `gattlib_disconnect` is
  never reached.
* `AnsweredIsNotTimedOut`: timer and response in one loop iteration make an
  answered job a timeout. The error is on the safe side: nothing is published.
* `LongLengthIsBigEndian`: the three-byte header is wrong. It is latent; the
  requests of the live code are shorter than 254 bytes.
* `ResubscribeSucceeded`: a refused re-subscription leaves a deaf bridge on a
  healthy connection.
* `CommitWasWritten`: the server completes a pairing on any package. Two runs of
  the client overlap; when the server has replied to what it took for a step 3,
  the next whole package, a step 1 or a step 3 of one of them, completes the
  pairing with the key of the step 1 that came first. Nobody has written a
  commit.

One more disagreement has no run of its own, being about two constants: the
encoder and the decoder of the Wi-Fi request (see WifiServer above).

### Fairness

`session_live` assumes weak fairness of the bridge's thread (it is never
suspended for ever, and gattlib's calls return) and of the timer. It assumes
nothing of the lock: with a silent lock the timer alone ends the session.

`mqtt_safety` assumes for Heals weak fairness of the bridge's thread, that the
client library gives up a dead connection in the end (its 60-second
keep-alive), and that an attempt to connect that is made again and again
succeeds some time (strong fairness of the successful outcome), which is what
the endless retry loops of the code wait for. Heals allows for a SUBSCRIBE that
the broker refused: `resubscribe` shows what a refusal does.

`pairing` assumes weak fairness of each client process: it runs on, and its
gattlib calls return. A call may return an error, and a notification may be
lost; UndisturbedRunPairs promises nothing then.

`wifi_setup` assumes weak fairness of the button's thread (its call of
`waitpid` returns when the child has ended) and of the process's main thread
and its alarm taken together. It assumes nothing of the user, the phone, BlueZ
or nmcli: nmcli may be cut off by the alarm.

## Proofs

Every safety property of the passing runs is also a theorem: it holds for every
value of the constants the modules' assumptions allow, so for any number of
slots, locks, jobs, fragments, runs, phones, peers and messages. The
assumptions are named, stand in the module that declares the constants, and are
evaluated by TLC in the runs. They say that sizes are natural numbers, at least
1 where the code has an array or a package of that size, and that the values
standing for "none" (`NoKey`, `NoMessage`, `NoLock`, `NoPeer`, `None`) are none
of the things they are told apart from.

`FramingProofs` proves TakenWhenWhole and NeverPastTheEnd for every set of
lengths from 2 to 254 (`ShortLengths`), all bytes and any number of messages.
The inductive invariant ties the reader to the sender: before the first
fragment the reader is empty; in the middle of a message its current size is
what was sent, its maximum is the payload's length, or, if the header was
misread because the second byte is 0xff, something at least as large. The arithmetic
facts about headers and fragments are lemmas of their own.

The session takes three modules, each using the invariant of the one before.

* `GuestSessionProofs`: TypeOK and SlotDiscipline. Neither is inductive alone:
  SlotDiscipline needs the type of the table and the slot number; the types
  need that a running job has a number and a lock, and that an allocated buffer
  holds a message of the lock. `SessionInv` is the conjunction.
* `GuestProtocolProofs`: BufferFits, EveryFragmentHasAHandler, NonceAgreement
  and NoCallbackOutlivesTask. `FlowInv` says where the messages of the handshake
  are: at most one is under way to the lock, which is waiting for it; everything
  on its way back (in the lock, in the queue, in the batch that is being
  dispatched, in the buffer) are fragments of one and the same message; and the
  step of `message_handler` is the one that this message belongs to. None of the
  four properties is inductive without it, because a stale fragment or a second
  answer would break each of them.
* `GuestJobsProofs`: PublishedWasHandled, FailureHasCause and the refinement of
  `CommandService` (`SessionImplementsService`: the initial states map to initial
  states, each action to one of its actions or to a stutter). `JobsInv` orders
  the jobs: later jobs are untouched, the lock's link is of no later job than the
  one in hand, and a session that ends without an error ends with a lock that
  has handled this job. `CauseInv` follows every error flag back to something
  that went wrong outside the session.

`MqttBridgeProofs` proves TypeOK, TableFollowsUpdate, JobsOnlyForGrantedLocks and
ListeningWhenConnected. `BridgeInv` adds to the types that the table is that of
the last update, that the job in hand was looked up in
it, and at which places the code has a client and a subscription. That an
update leaves out a discovered lock only when the table is full, and never
overfills it, is a lemma about finite sets (`UpdateFillsTable`).

`CryptSocketProofs` shows that every step of the socket's thread and of its
peers keeps `SockInv`: `conn_amount` is the number of entries in use, no
connection has two places in the table and the backlog together, and (`KeptInv`)
what a peer sent is decoded, or unread with its connection still in one of the two.
That an entry out of the loop's sight leaves a free one in it is a
counting argument (`HoleInSight`): a table of which the first `conn_amount` entries are
all in use has no others.

`WifiServerProofs` adds the button, the process and the phones: TypeOK,
OneServer, AppliedAsWritten, HeardOut, and the two properties of the table
for the composed system. As long as nothing is disturbed, the process has seen
nothing (`Quiet`), one phone has written the first k fragments and has exactly
the others left (`Stage`), or its whole request is in the buffer (`Written`);
AppliedAsWritten and the second half of HeardOut need that the
buffer and what is left of the package fit together. The first half holds of any
buffer, whoever wrote to it: a buffer that holds the first fragments of a request and
nothing else has counted their bytes (`Gathered`), so with the last of them it is
full, and a full package that decodes is handled at once.

`PairingProofs` proves TypeOK, SuccessIsShared and NoncesInStep for any number
of overlapping runs of the client. The key to `PairingInv` is what the server
never takes back: once it has answered a step 3 it keeps its key and the nonce
it was given (`Kept`), because `initPairingFsm` leaves no way back to
PAIRING_BEGIN. `ServerOK` says what it holds in each state, `GoodReply` what a
reply under way can carry, `ClientOK` what a run holds at each of its steps; a
commit is sealed only after a step 4 that opened, and by then the server's part
is final. `WriteAtServer` is the lemma about one write, whoever it comes from
and whatever is in the buffer.

Only model-checked is what the prover has no means for: the liveness properties
SessionEnds, Heals, UndisturbedRunPairs and ButtonComesBack, which need
fairness, and the counterexamples of the runs that expect a violation.

## Not modelled, and the plan

Left to do, in this order:

1. Action properties that follow from the invariants: a nonce is never used to
   seal twice (`GuestSession`), what the server agreed on in step 4 is final
   (`Pairing`; `Kept` of `PairingProofs` is its step), the table of
   descriptors never moves an entry (`CryptSocket`).
2. The lists of `task_queue.c`, if live code comes to insert tasks.

Simplified, each at one line of the code:

* `save_message_data` refuses a first fragment of fewer than three bytes
  (`ble_guest.c:522`); the messages of a lock are longer.
* `guest_exit` passes an uninitialised `timeout_id` to `g_source_remove`
  (`ble_guest.c:413`) when the session failed before its timer was set.
* A step 3 of fewer than 8 bytes makes the size of the decrypted text wrap
  (`pairing.c:659-660`); in the model it gets the same answer as one that does not open.
* A notification that is cut short leaves its bytes in `step_data`;
  `NotificationCut` drops the whole of it.
* The vforked child's `killall` and `execl` (`ign.c:1193-1197`) are one step.
* A `decodeCrypt` that fails keeps `crypt_mutex` locked (`wifi_server.c:310-314`);
  the model's peers are processes `server`, whose `Crypt` decodes.

Not modelled:

* The doing and waiting lists of `task_queue.c`: nothing live inserts a task in
  the bridge, whose `main` only sleeps, and the test programs have one task at
  a time. `FSMHandle` with one task is in `Pairing`.
* `ble_discover.c`, `lock_list.c` and `admin_connection.c`: only command-line
  programs call them. Lines 1109 to 2670 of `ble_guest.c` are commented out.
* Advertising data, property getters and hex dumps of `wifi_service`, LEDs, the
  log, base64, certificate download: no state of a protocol depends on them.
* The libraries kept in the repository (mbedtls, cifra, micro-ecc, nanopb,
  cJSON, gattlib with its copy of BlueZ's gdbus, the MQTT client), the generated
  serialisers, and the earlier bridges and demos at the top of the repository.
  They are almost all of its 276,000 lines of C, so the share of
  the repository that the modules cover is small although every live protocol
  of the bridge's own code is modelled. What the bridge needs of a library is in
  the models as the outcomes its calls may have.
