------------------------------ MODULE RecvData ------------------------------
(***************************************************************************)
(* The reassembly of writes in pairing.c, which the two GATT services of   *)
(* wifi_service, `server' and `wifi_server', share: a characteristic has   *)
(* one RecvData, whoever writes to it, and the first byte of a package     *)
(* announces its length.                                                   *)
(***************************************************************************)
EXTENDS Integers, Sequences

CONSTANTS
    PkgLen,       \* bytes of each kind of package, length byte included
    StrayLens     \* lengths a byte from inside a message may announce

ASSUME RecvDataAssumption ==
    /\ \A kind \in DOMAIN PkgLen : PkgLen[kind] \in Nat \ {0}
    /\ StrayLens \subseteq Nat \ {0}

BLE_ATT_MAX_BYTES == 20

-----------------------------------------------------------------------------
(* A client cuts a package into 20-byte fragments, as                      *)
(* write_char_by_uuid_multi_atts does.                                     *)

FragCount(m) == (PkgLen[m.kind] + BLE_ATT_MAX_BYTES - 1) \div BLE_ATT_MAX_BYTES

Fragments(m) == [k \in 1 .. FragCount(m) |-> [msg |-> m, i |-> k]]

FragLen(f) ==
    IF f.i < FragCount(f.msg) THEN BLE_ATT_MAX_BYTES
    ELSE PkgLen[f.msg.kind] - BLE_ATT_MAX_BYTES * (f.i - 1)

(* What the first byte of a fragment may say when it is read as a length.  *)
Announced(f) == IF f.i = 1 THEN {PkgLen[f.msg.kind]} ELSE StrayLens

Lengths == StrayLens \cup {PkgLen[kind] : kind \in DOMAIN PkgLen}

-----------------------------------------------------------------------------
EmptyRecv == [status |-> "NONE", alloc |-> FALSE, data |-> <<>>, data_len |-> 0,
              recv_len |-> 0]

(* Mutant of getDataLength: the length byte itself is not counted.         *)
WithoutSizeByte(f, len) == IF f.i = 1 THEN PkgLen[f.msg.kind] - 1 ELSE len

(* getDataLength reads the first byte it is given as a length, whether or  *)
(* not a package begins there; len is what a byte from inside one says.    *)
getDataLength(f, len) == IF f.i = 1 THEN PkgLen[f.msg.kind] ELSE len

isRecvFullPkg(recv) == recv.recv_len = recv.data_len

(* Mutant of Fits: one fragment too many is let in.                        *)
FitsBehind(recv, f) == recv.recv_len <= recv.data_len

(* copyData refuses what does not fit and leaves the rest as it was.       *)
Fits(recv, f) == recv.recv_len + FragLen(f) <= recv.data_len

copyData(recv, f) ==
    IF Fits(recv, f)
    THEN [recv EXCEPT !.data = Append(@, f), !.recv_len = @ + FragLen(f)]
    ELSE recv

(* A first fragment that does not fit leaves the buffer allocated and the  *)
(* status NONE, and allocRecvData refuses every write from then on.        *)
recvData(recv, f, len) ==
    CASE recv.status = "NONE" /\ ~recv.alloc ->
            LET fresh  == [recv EXCEPT !.alloc = TRUE, !.recv_len = 0,
                                       !.data_len = getDataLength(f, len)]
                copied == copyData(fresh, f)
            IN  IF ~Fits(fresh, f) THEN fresh
                ELSE [copied EXCEPT !.status = IF isRecvFullPkg(copied)
                                               THEN "FINISHED_SUCCESS" ELSE "GOT_PREV_DATA"]
      [] recv.status = "GOT_PREV_DATA" ->
            LET copied == copyData(recv, f)
            IN  [copied EXCEPT !.status = IF isRecvFullPkg(copied)
                                          THEN "FINISHED_SUCCESS" ELSE @]
      [] OTHER -> recv

(* A package is a message only if it is made of its fragments in order.    *)
Whole(recv) == recv.data # <<>> /\ recv.data = Fragments(recv.data[1].msg)

(* Mutant of resetRecvData: the status is left FINISHED_SUCCESS.           *)
ResetKeepsStatus(recv) == [EmptyRecv EXCEPT !.status = recv.status]

resetRecvData(recv) == EmptyRecv

=============================================================================
