------------------------------ MODULE Framing ------------------------------
(***************************************************************************)
(* How messages are cut into GATT fragments and put together again, byte   *)
(* by byte: build_msg_payload and write_char_by_uuid_multi_atts of         *)
(* ble_operation.c, save_message_data and releaseGuestConnectionData of    *)
(* ble_guest.c.  A sender that frames its messages as build_msg_payload    *)
(* does is read by a handler that decides from the bytes alone where each  *)
(* message ends.  The exchange is in lockstep: a message is sent only      *)
(* after the reader took the one before it.                                *)
(*                                                                         *)
(* Of a message only its length and its first two bytes matter: they are   *)
(* all that the reader can take for a header.                              *)
(***************************************************************************)
EXTENDS Integers

CONSTANTS
    Lengths,      \* lengths of the messages that may be sent
    Bytes,        \* values of their first two bytes, and of malloc's garbage
    MaxMessages   \* bound: messages sent in a behaviour

ASSUME FramingAssumption ==
    /\ Lengths \subseteq Nat \ {0, 1}
    /\ Bytes \subseteq 0 .. 255
    /\ MaxMessages \in Nat

VARIABLES
    msg,     \* the message being sent: its length n and its first bytes
    sent,    \* bytes of its payload already notified
    reader,  \* n_size_byte, step_max_size, step_cur_size of the guest_connection
    count,   \* messages begun by the sender
    took,    \* messages the reader took for complete
    got      \* length of the last message the reader took

vars == <<msg, sent, reader, count, took, got>>

-----------------------------------------------------------------------------
(* The writer.                                                             *)

BLE_ATT_MAX_BYTES == 20

resolve_payload_len(step_len) == IF step_len > 254 THEN step_len + 3 ELSE step_len + 1

(* The first three bytes of the payload.  In the long form byte 2 is left  *)
(* as malloc returned it, and the mark 0xff goes to byte 3, where the      *)
(* message itself is then copied over it.                                  *)
build_msg_payload(step_len, first, second, garbage) ==
    IF resolve_payload_len(step_len) - step_len = 1
    THEN <<step_len, first, second>>
    ELSE <<(step_len - 254) % 256, 254, garbage>>

(* size_left of write_char_by_uuid_multi_atts: the bytes of the next       *)
(* fragment when i bytes of buffer_len are out.                            *)
size_left(buffer_len, i) ==
    IF buffer_len - i >= BLE_ATT_MAX_BYTES THEN BLE_ATT_MAX_BYTES ELSE buffer_len - i

-----------------------------------------------------------------------------
(* The reader.                                                             *)

EmptyReader == [n_size_byte |-> 0, step_max_size |-> 0, step_cur_size |-> 0]

ReadHeader(data) ==
    IF data[3] = 255
    THEN [n_size_byte |-> 3, step_max_size |-> data[1] * 254 + data[2] + 3,
          step_cur_size |-> 0]
    ELSE [n_size_byte |-> 1, step_max_size |-> data[1] + 1, step_cur_size |-> 0]

(* Mutant of save_message_data: the size byte is not counted in            *)
(* step_max_size.                                                          *)
SaveWithoutSizeByte(r, data, size) ==
    LET started == IF r.step_max_size = 0
                   THEN [ReadHeader(data) EXCEPT !.step_max_size = @ - 1] ELSE r
    IN  IF r.step_max_size = 0 /\ size < 3 THEN r
        ELSE [started EXCEPT !.step_cur_size = @ + size]

(* The reader after a fragment of size bytes that begins with data.  A     *)
(* first fragment too short to hold a header is dropped.                   *)
save_message_data(r, data, size) ==
    LET started == IF r.step_max_size = 0 THEN ReadHeader(data) ELSE r
    IN  IF r.step_max_size = 0 /\ size < 3 THEN r
        ELSE [started EXCEPT !.step_cur_size = @ + size]

(* The handlers' test that a message has arrived in full.                  *)
Complete(r) == r.step_max_size = r.step_cur_size

-----------------------------------------------------------------------------
Payload == resolve_payload_len(msg.n)

Header == build_msg_payload(msg.n, msg.first, msg.second, msg.garbage)

Messages == [n : Lengths, first : Bytes, second : Bytes, garbage : Bytes]

(* No message yet.                                                         *)
Init ==
    /\ msg = [n |-> 2, first |-> 0, second |-> 0, garbage |-> 0]
    /\ sent = 3
    /\ reader = EmptyReader
    /\ count = 0 /\ took = 0 /\ got = 2

(* The sender starts a message once the last one was taken.                *)
Begin(m) ==
    /\ count < MaxMessages
    /\ took = count
    /\ msg' = m
    /\ sent' = 0
    /\ count' = count + 1
    /\ UNCHANGED <<reader, took, got>>

(* One fragment is written and handled: it is saved, and a message that    *)
(* became complete is used and its buffer released.                        *)
Fragment ==
    LET size  == size_left(Payload, sent)
        saved == save_message_data(reader, Header, size)
    IN
    /\ sent < Payload
    /\ sent' = sent + size
    /\ IF Complete(saved)
       THEN /\ took' = took + 1
            /\ got' = saved.step_max_size - saved.n_size_byte
            /\ reader' = EmptyReader
       ELSE /\ reader' = saved
            /\ UNCHANGED <<took, got>>
    /\ UNCHANGED <<msg, count>>

(* The bound is reached, or the reader waits for bytes that will not come. *)
Quiet ==
    /\ sent = Payload
    /\ count = MaxMessages \/ took # count
    /\ UNCHANGED vars

Next == (\E m \in Messages : Begin(m)) \/ Fragment \/ Quiet

Spec == Init /\ [][Next]_vars

-----------------------------------------------------------------------------
(* Properties.                                                             *)

(* The reader takes a message exactly when its last byte is in, never      *)
(* before and, unless the second byte of the message is 0xff, never later, *)
(* and it takes as many bytes as the sender put in: step_max_size ==       *)
(* step_cur_size is the right test (ble_guest.c:498, 675, 939).            *)
TakenWhenWhole ==
    /\ took = count => sent = Payload /\ got = msg.n
    /\ sent = Payload /\ msg.second # 255 => took = count
    /\ took \in {count, count - 1}

(* save_message_data stores byte after byte with no test of the room left  *)
(* (ble_guest.c:563): it never writes past step_max_size.                  *)
NeverPastTheEnd == reader.step_cur_size <= reader.step_max_size

(* The comment in build_msg_payload says that the length of a long message *)
(* is stored big-endian: the two digits, in the base 254 that the          *)
(* repository's reader uses, give the length.                              *)
LongLengthIsBigEndian ==
    msg.n > 254 => Header[1] * 254 + Header[2] = msg.n

=============================================================================
