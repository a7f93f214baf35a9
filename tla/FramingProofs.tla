--------------------------- MODULE FramingProofs ---------------------------
(***************************************************************************)
(* The framing of Framing, proved for all messages with a one-byte header: *)
(* every length from 2 to 254 and every content.                           *)
(***************************************************************************)
EXTENDS Framing, TLAPS

(* Every message is short enough for the one-byte header.                  *)
ShortLengths == Lengths \subseteq 2 .. 254

(* What step_max_size is once the header of the message in hand was read.  *)
Announced == IF msg.second = 255 THEN msg.n * 254 + msg.first + 3 ELSE msg.n + 1

FramingType ==
    /\ msg \in [n : 2 .. 254, first : 0 .. 255, second : 0 .. 255, garbage : 0 .. 255]
    /\ sent \in Nat
    /\ reader \in [n_size_byte : Nat, step_max_size : Nat, step_cur_size : Nat]
    /\ count \in Nat
    /\ took \in Nat
    /\ got \in Int

(* The reader is empty between messages and has counted every byte inside  *)
(* one; a message that was sent in full and not taken was misread.         *)
FramingInv ==
    /\ FramingType
    /\ sent <= msg.n + 1
    /\ \/ took = count /\ sent = msg.n + 1 /\ got = msg.n /\ reader = EmptyReader
       \/ took = count - 1 /\ sent = 0 /\ reader = EmptyReader
       \/ /\ took = count - 1
          /\ sent > 0
          /\ sent = msg.n + 1 => msg.second = 255
          /\ reader.step_cur_size = sent
          /\ reader.step_max_size = Announced
          /\ reader.n_size_byte = IF msg.second = 255 THEN 3 ELSE 1

(* The header of a short message is its length and its first two bytes.    *)
LEMMA ShortHeader ==
    ASSUME FramingType
    PROVE  /\ Payload = msg.n + 1
           /\ Header = <<msg.n, msg.first, msg.second>>
BY DEF FramingType, Payload, Header, build_msg_payload, resolve_payload_len

(* The first fragment of a message holds its header, so the reader knows   *)
(* what to expect from then on.                                            *)
LEMMA FirstFragment ==
    ASSUME FramingType, NEW size \in 3 .. 20
    PROVE  save_message_data(EmptyReader, <<msg.n, msg.first, msg.second>>, size) =
             [n_size_byte |-> IF msg.second = 255 THEN 3 ELSE 1,
              step_max_size |-> Announced, step_cur_size |-> size]
BY DEF FramingType, save_message_data, EmptyReader, ReadHeader, Announced

(* Any later fragment only adds to what was received.                      *)
LEMMA LaterFragment ==
    ASSUME FramingType, NEW size \in 1 .. 20, reader.step_max_size # 0
    PROVE  save_message_data(reader, <<msg.n, msg.first, msg.second>>, size) =
             [reader EXCEPT !.step_cur_size = reader.step_cur_size + size]
BY DEF FramingType, save_message_data, ReadHeader

(* A header that is misread announces more than any short message has.     *)
LEMMA MisreadIsLong ==
    ASSUME NEW n \in 2 .. 254, NEW first \in 0 .. 255
    PROVE  n * 254 + first + 3 \in Nat /\ n * 254 + first + 3 > n + 1
OBVIOUS

(* What the reader expects is a natural number that covers the message.    *)
LEMMA AnnouncedCovers ==
    ASSUME FramingType
    PROVE  /\ Announced \in Nat
           /\ Announced >= msg.n + 1
           /\ msg.second = 255 => Announced > msg.n + 1
<1>1. msg.n \in 2 .. 254 /\ msg.first \in 0 .. 255
  BY DEF FramingType
<1>2. msg.n * 254 + msg.first + 3 \in Nat /\ msg.n * 254 + msg.first + 3 > msg.n + 1
  BY <1>1, MisreadIsLong
<1>3. CASE msg.second = 255
  <2>1. Announced = msg.n * 254 + msg.first + 3
    BY <1>3 DEF Announced
  <2> HIDE DEF Announced
  <2> QED BY <1>1, <1>2, <2>1
<1>4. CASE msg.second # 255
  BY <1>1, <1>4 DEF Announced
<1> QED BY <1>3, <1>4

(* A fragment keeps the invariant, whichever fragment of a message it is.  *)
LEMMA FragmentStep ==
    ASSUME FramingInv, Fragment
    PROVE  FramingInv'
<1> DEFINE size == size_left(Payload, sent)
           data == <<msg.n, msg.first, msg.second>>
           saved == save_message_data(reader, data, size)
<1>1. FramingType /\ sent <= msg.n + 1
  BY DEF FramingInv
<1>2. Payload = msg.n + 1 /\ Header = data
  BY <1>1, ShortHeader
<1>3. sent < msg.n + 1
  BY <1>2 DEF Fragment
<1>4. /\ size \in 1 .. 20
      /\ sent + size <= msg.n + 1
      /\ sent = 0 => size \in 3 .. 20
  BY <1>1, <1>2, <1>3 DEF FramingType, size_left, BLE_ATT_MAX_BYTES
<1>5. /\ sent' = sent + size
      /\ msg' = msg /\ count' = count
      /\ Complete(saved) => /\ took' = took + 1
                            /\ got' = saved.step_max_size - saved.n_size_byte
                            /\ reader' = EmptyReader
      /\ ~Complete(saved) => reader' = saved /\ took' = took /\ got' = got
  BY <1>2 DEF Fragment
<1>6. took = count - 1
  BY <1>1, <1>3 DEF FramingInv, FramingType
<1>7. saved = [n_size_byte |-> IF msg.second = 255 THEN 3 ELSE 1,
               step_max_size |-> Announced, step_cur_size |-> sent + size]
  <2>1. CASE sent = 0
    <3>1. reader = EmptyReader
      BY <1>1, <1>3, <2>1 DEF FramingInv, FramingType
    <3>2. saved = [n_size_byte |-> IF msg.second = 255 THEN 3 ELSE 1,
                   step_max_size |-> Announced, step_cur_size |-> size]
      BY <1>1, <1>4, <2>1, <3>1, FirstFragment
    <3> QED BY <2>1, <3>2, <1>4
  <2>2. CASE sent > 0
    <3>1. /\ reader.step_cur_size = sent
          /\ reader.step_max_size = Announced
          /\ reader.n_size_byte = IF msg.second = 255 THEN 3 ELSE 1
      BY <1>1, <1>3, <2>2 DEF FramingInv, FramingType
    <3>2. reader.step_max_size # 0
      BY <1>1, <3>1, AnnouncedCovers DEF FramingType
    <3>3. saved = [reader EXCEPT !.step_cur_size = reader.step_cur_size + size]
      BY <1>1, <1>4, <3>2, LaterFragment
    <3> QED BY <1>1, <3>1, <3>3 DEF FramingType
  <2> QED BY <1>1, <2>1, <2>2 DEF FramingType
<1>8. Announced \in Nat /\ (msg.second = 255 => Announced > msg.n + 1)
  BY <1>1, AnnouncedCovers
<1>9. CASE Complete(saved)
  <2>1. msg.second # 255 /\ sent + size = msg.n + 1
    BY <1>1, <1>4, <1>7, <1>8, <1>9 DEF Complete, Announced, FramingType
  <2>2. took' = count /\ got' = msg.n /\ reader' = EmptyReader
    BY <1>1, <1>5, <1>6, <1>7, <1>9, <2>1 DEF FramingType, Announced
  <2> QED BY <1>1, <1>4, <1>5, <2>1, <2>2 DEF FramingInv, FramingType, EmptyReader
<1>10. CASE ~Complete(saved)
  <2>1. sent + size = msg.n + 1 => msg.second = 255
    BY <1>7, <1>10 DEF Complete, Announced
  <2>2. reader' = saved /\ took' = count' - 1 /\ got' = got
    BY <1>5, <1>6, <1>10
  <2>3. Announced' = Announced
    BY <1>5 DEF Announced
  <2>4. sent' \in Nat /\ sent' > 0 /\ sent' <= msg'.n + 1 /\ sent' = sent + size
    BY <1>1, <1>4, <1>5 DEF FramingType
  <2>5. FramingType'
    BY <1>1, <1>5, <1>7, <1>8, <2>2, <2>4 DEF FramingType
  <2> QED BY <1>5, <1>7, <2>1, <2>2, <2>3, <2>4, <2>5 DEF FramingInv
<1> QED BY <1>9, <1>10

(* FramingInv is an invariant of every exchange of short messages.         *)
THEOREM FramingInvariant ==
    ASSUME ShortLengths
    PROVE  Spec => []FramingInv
<1>1. Init => FramingInv
  BY DEF Init, FramingInv, FramingType, EmptyReader
<1>2. FramingInv /\ [Next]_vars => FramingInv'
  <2> SUFFICES ASSUME FramingInv, [Next]_vars PROVE FramingInv'
    OBVIOUS
  <2>1. ASSUME NEW m \in Messages, Begin(m) PROVE FramingInv'
    <3>1. m \in [n : 2 .. 254, first : 0 .. 255, second : 0 .. 255, garbage : 0 .. 255]
      <4>1. /\ m = [n |-> m.n, first |-> m.first, second |-> m.second,
                    garbage |-> m.garbage]
            /\ m.n \in Lengths
            /\ m.first \in Bytes /\ m.second \in Bytes /\ m.garbage \in Bytes
        BY DEF Messages
      <4>2. /\ m.n \in 2 .. 254
            /\ m.first \in 0 .. 255 /\ m.second \in 0 .. 255 /\ m.garbage \in 0 .. 255
        BY <4>1, FramingAssumption DEF ShortLengths
      <4> QED BY <4>1, <4>2
    <3>2. took = count /\ reader = EmptyReader
      BY <2>1 DEF Begin, FramingInv, FramingType
    <3> QED BY <2>1, <3>1, <3>2 DEF Begin, FramingInv, FramingType
  <2>2. CASE Fragment
    BY <2>2, FragmentStep
  <2>3. CASE Quiet \/ UNCHANGED vars
    <3>1. UNCHANGED vars
      BY <2>3 DEF Quiet
    <3> QED BY <3>1 DEF vars, FramingInv, FramingType, Announced
  <2> QED BY <2>1, <2>2, <2>3 DEF Next
<1> QED BY <1>1, <1>2, PTL DEF Spec

(* For every short length and every content, each handler takes a message  *)
(* exactly when it is whole, with its own length (TakenWhenWhole): the     *)
(* only message missed is one whose second byte is 0xff.                   *)
THEOREM ShortMessagesAreTakenWhole ==
    ASSUME ShortLengths
    PROVE  Spec => []TakenWhenWhole
<1>1. FramingInv => TakenWhenWhole
  BY ShortHeader DEF FramingInv, TakenWhenWhole, FramingType
<1> QED BY <1>1, FramingInvariant, PTL

(* For every short length and every content, a misread header included,    *)
(* save_message_data stays inside the buffer it allocated                  *)
(* (NeverPastTheEnd).                                                      *)
THEOREM ShortMessagesFit ==
    ASSUME ShortLengths
    PROVE  Spec => []NeverPastTheEnd
<1>1. FramingInv => NeverPastTheEnd
  BY AnnouncedCovers DEF FramingInv, FramingType, NeverPastTheEnd, EmptyReader
<1> QED BY <1>1, FramingInvariant, PTL

=============================================================================
