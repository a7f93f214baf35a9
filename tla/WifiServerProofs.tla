-------------------------- MODULE WifiServerProofs --------------------------
(***************************************************************************)
(* What WifiServer promises for any number of phones, of pairing           *)
(* processes, of entries in the table and of fragments in a request.       *)
(***************************************************************************)
EXTENDS WifiServer, CryptSocketProofs

USE CryptSocketAssumption, RecvDataAssumption, WifiServerAssumption

-----------------------------------------------------------------------------
(* The fragments of a request.                                             *)

Request(p, id) == [kind |-> "request", p |-> p, id |-> id]
Requests == {Request(p, id) : p \in Phones, id \in RequestIds}
ReqLen == PkgLen["request"]
ReqFrags == (ReqLen + BLE_ATT_MAX_BYTES - 1) \div BLE_ATT_MAX_BYTES

Frag == [msg : Requests, i : 1 .. ReqFrags]

(* The length of a request, its number of fragments, and their lengths.    *)
LEMMA RequestCut ==
    /\ ReqLen \in Nat \ {0}
    /\ ReqFrags \in Nat \ {0}
    /\ BLE_ATT_MAX_BYTES * (ReqFrags - 1) < ReqLen /\ ReqLen <= BLE_ATT_MAX_BYTES * ReqFrags
  BY DEF ReqLen, ReqFrags, BLE_ATT_MAX_BYTES

(* The fragments of a phone's request.                                     *)
LEMMA FragmentsOf ==
    ASSUME NEW m \in Requests
    PROVE  /\ FragCount(m) = ReqFrags
           /\ Fragments(m) = [k \in 1 .. ReqFrags |-> [msg |-> m, i |-> k]]
           /\ Fragments(m) \in Seq(Frag)
           /\ Len(Fragments(m)) = ReqFrags
           /\ m.kind = "request"
<1>1. m.kind = "request"
  BY DEF Requests, Request
<1>2. FragCount(m) = ReqFrags
  BY <1>1 DEF FragCount, ReqFrags, ReqLen
<1>3. Fragments(m) = [k \in 1 .. ReqFrags |-> [msg |-> m, i |-> k]]
  BY <1>2 DEF Fragments
<1>4. \A k \in 1 .. ReqFrags : [msg |-> m, i |-> k] \in Frag
  BY DEF Frag
<1>5. ReqFrags \in Nat
  BY RequestCut
<1> HIDE DEF ReqFrags, Frag
<1> QED BY <1>1, <1>2, <1>3, <1>4, <1>5

(* The length of a fragment, the last one included.                        *)
LEMMA FragFacts ==
    ASSUME NEW f \in Frag
    PROVE  /\ FragLen(f) = IF f.i < ReqFrags THEN BLE_ATT_MAX_BYTES
                           ELSE ReqLen - BLE_ATT_MAX_BYTES * (f.i - 1)
           /\ FragLen(f) \in Nat \ {0}
           /\ PkgLen[f.msg.kind] = ReqLen
           /\ f.i \in 1 .. ReqFrags
<1>1. f.msg \in Requests
  BY DEF Frag
<1>2. f.i \in 1 .. ReqFrags
  BY DEF Frag
<1>3. f.msg.kind = "request"
  BY <1>1, FragmentsOf
<1>4. FragCount(f.msg) = ReqFrags /\ PkgLen[f.msg.kind] = ReqLen
  BY <1>3 DEF FragCount, ReqFrags, ReqLen
<1>5. FragLen(f) = IF f.i < ReqFrags THEN BLE_ATT_MAX_BYTES
                   ELSE ReqLen - BLE_ATT_MAX_BYTES * (f.i - 1)
  BY <1>4 DEF FragLen
<1>6. f.i >= ReqFrags => f.i = ReqFrags
  BY <1>2, RequestCut
<1> HIDE DEF ReqFrags, ReqLen
<1>7. FragLen(f) \in Nat \ {0}
  BY <1>2, <1>5, <1>6, RequestCut DEF BLE_ATT_MAX_BYTES
<1> QED BY <1>2, <1>4, <1>5, <1>7

-----------------------------------------------------------------------------
(* The inductive invariant.                                                *)

Recvs == [status   : {"NONE", "GOT_PREV_DATA", "FINISHED_SUCCESS"},
          alloc    : BOOLEAN,
          data     : Seq(Frag),
          data_len : Nat,
          recv_len : Nat]

Processes == [phase      : {"none", "main", "loop", "nmcli", "hung"},
              alarm      : BOOLEAN,
              registered : BOOLEAN,
              recv       : Recvs]

WifiType ==
    /\ bridge \in {"read", "waitpid", "down"}
    /\ presses \in 0 .. MaxQueued
    /\ srv \in Processes
    /\ srv.recv.recv_len <= srv.recv.data_len
    /\ out \in [Phones -> Seq(Frag)]
    /\ phone \in [Phones -> {"idle", "writing", "done"}]
    /\ disturbed \in BOOLEAN
    /\ \A p \in Phones : phone[p] = "writing" => out[p] # <<>>

(* The process that was started last is the only one.                      *)
LiveInv == live = IF srv.phase = "none" THEN 0 ELSE 1

(* The first k fragments of a request, in a buffer.                        *)
Filled(m, k) ==
    IF k = 0 THEN EmptyRecv
    ELSE [status   |-> "GOT_PREV_DATA",
          alloc    |-> TRUE,
          data     |-> [j \in 1 .. k |-> [msg |-> m, i |-> j]],
          data_len |-> ReqLen,
          recv_len |-> BLE_ATT_MAX_BYTES * k]

(* Nobody has written to the process.                                      *)
Quiet == srv.recv = EmptyRecv /\ \A p \in Phones : phone[p] = "idle"

(* p alone has written the first k fragments of m and has the others to    *)
(* write.                                                                  *)
Stage(p, m, k) ==
    /\ phone[p] = "writing"
    /\ \A q \in Phones \ {p} : phone[q] = "idle"
    /\ Len(out[p]) = ReqFrags - k
    /\ \A j \in 1 .. ReqFrags - k : out[p][j] = [msg |-> m, i |-> k + j]
    /\ srv.recv = Filled(m, k)

(* p alone has written a request, which is in the buffer.                  *)
Written(p) ==
    /\ phone[p] = "done"
    /\ \A q \in Phones \ {p} : phone[q] = "idle"
    /\ Whole(srv.recv)

(* A buffer that begins with the first fragments of a request, and holds   *)
(* no others, has counted their bytes.                                     *)
Holds(r, m) == \A j \in 1 .. Len(r.data) : r.data[j] = [msg |-> m, i |-> j]

Gathered(r) ==
    /\ r.status = "NONE" <=> r.data = <<>>
    /\ \A m \in Requests : r.data # <<>> /\ Holds(r, m) =>
          /\ r.data_len = ReqLen
          /\ r.recv_len = IF Len(r.data) < ReqFrags
                          THEN BLE_ATT_MAX_BYTES * Len(r.data) ELSE ReqLen

Accepted(r) == Whole(r) /\ r.data[1].msg.id = "0x51"

PackageInv ==
    /\ srv.phase \in {"none", "main"} => Quiet /\ ~disturbed
    /\ srv.phase = "loop" /\ ~disturbed =>
          \/ Quiet
          \/ \E p \in Phones : \E m \in Requests : \E k \in 0 .. ReqFrags - 1 : Stage(p, m, k)
          \/ \E p \in Phones : Written(p)
    /\ srv.phase = "nmcli" /\ ~disturbed => Accepted(srv.recv)
    /\ srv.phase = "loop" => ~Accepted(srv.recv)
    /\ Gathered(srv.recv)

WifiInv == WifiType /\ LiveInv /\ PackageInv /\ SockInv

-----------------------------------------------------------------------------
(* What a write does to the buffer.                                        *)

(* The buffer of a new process.                                            *)
LEMMA EmptyRecvTyped == EmptyRecv \in Recvs /\ EmptyRecv.recv_len <= EmptyRecv.data_len
<1>1. <<>> \in Seq(Frag)
  OBVIOUS
<1> HIDE DEF Frag
<1> QED BY <1>1 DEF EmptyRecv, Recvs

(* It holds nothing.                                                       *)
LEMMA EmptyGathered == Gathered(EmptyRecv) /\ ~Accepted(EmptyRecv)
  BY DEF Gathered, Accepted, Whole, EmptyRecv

(* copyData keeps the buffer's type and never passes its end.              *)
LEMMA CopyTyped ==
    ASSUME NEW r \in Recvs, NEW f \in Frag, r.recv_len <= r.data_len
    PROVE  /\ copyData(r, f) \in Recvs
           /\ copyData(r, f).recv_len <= copyData(r, f).data_len
<1>1. FragLen(f) \in Nat
  BY FragFacts
<1>2. Append(r.data, f) \in Seq(Frag)
  BY DEF Recvs
<1>3. r.recv_len + FragLen(f) \in Nat
  BY <1>1 DEF Recvs
<1>4. CASE Fits(r, f)
  <2>1. copyData(r, f) = [r EXCEPT !.data = Append(@, f), !.recv_len = @ + FragLen(f)]
    BY <1>4 DEF copyData
  <2>2. r.recv_len + FragLen(f) <= r.data_len
    BY <1>4 DEF Fits
  <2> QED BY <1>2, <1>3, <2>1, <2>2 DEF Recvs
<1>5. CASE ~Fits(r, f)
  BY <1>5 DEF copyData
<1> QED BY <1>4, <1>5

(* So does recvData, whatever the buffer held.                             *)
LEMMA RecvTyped ==
    ASSUME NEW r \in Recvs, NEW f \in Frag, r.recv_len <= r.data_len
    PROVE  /\ recvData(r, f, ReqLen) \in Recvs
           /\ recvData(r, f, ReqLen).recv_len <= recvData(r, f, ReqLen).data_len
<1> DEFINE fresh == [r EXCEPT !.alloc = TRUE, !.recv_len = 0,
                              !.data_len = getDataLength(f, ReqLen)]
<1>1. getDataLength(f, ReqLen) \in Nat
  BY FragFacts, RequestCut DEF getDataLength
<1>2. fresh \in Recvs /\ fresh.recv_len <= fresh.data_len
  <2> DEFINE d == getDataLength(f, ReqLen)
  <2>1. d \in Nat
    BY <1>1
  <2> HIDE DEF d
  <2>2. [r EXCEPT !.alloc = TRUE, !.recv_len = 0, !.data_len = d] \in Recvs
    BY <2>1 DEF Recvs
  <2>3. /\ [r EXCEPT !.alloc = TRUE, !.recv_len = 0, !.data_len = d].recv_len = 0
        /\ [r EXCEPT !.alloc = TRUE, !.recv_len = 0, !.data_len = d].data_len = d
    BY <2>1 DEF Recvs
  <2>4. 0 <= d
    BY <2>1
  <2> QED BY <2>2, <2>3, <2>4 DEF d
<1>3. ASSUME NEW c \in Recvs, c.recv_len <= c.data_len,
             NEW st \in {"NONE", "GOT_PREV_DATA", "FINISHED_SUCCESS"}
      PROVE  /\ [c EXCEPT !.status = st] \in Recvs
             /\ [c EXCEPT !.status = st].recv_len <= [c EXCEPT !.status = st].data_len
  BY <1>3 DEF Recvs
<1> HIDE DEF fresh
<1>4. CASE r.status = "NONE" /\ ~r.alloc
  <2> DEFINE c == copyData(fresh, f)
  <2>1. c \in Recvs /\ c.recv_len <= c.data_len
    BY <1>2, CopyTyped
  <2>2. recvData(r, f, ReqLen) =
          IF ~Fits(fresh, f) THEN fresh
          ELSE [c EXCEPT !.status = IF isRecvFullPkg(c)
                                    THEN "FINISHED_SUCCESS" ELSE "GOT_PREV_DATA"]
    BY <1>4 DEF recvData, fresh
  <2> HIDE DEF c
  <2>3. CASE ~Fits(fresh, f)
    BY <1>2, <2>2, <2>3
  <2>4. CASE Fits(fresh, f)
    <3>1. CASE isRecvFullPkg(c)
      BY <1>3, <2>1, <2>2, <2>4, <3>1
    <3>2. CASE ~isRecvFullPkg(c)
      BY <1>3, <2>1, <2>2, <2>4, <3>2
    <3> QED BY <3>1, <3>2
  <2> QED BY <2>3, <2>4
<1>5. CASE r.status = "GOT_PREV_DATA"
  <2> DEFINE c == copyData(r, f)
  <2>1. c \in Recvs /\ c.recv_len <= c.data_len
    BY CopyTyped
  <2>2. recvData(r, f, ReqLen) =
          [c EXCEPT !.status = IF isRecvFullPkg(c) THEN "FINISHED_SUCCESS" ELSE @]
    BY <1>5 DEF recvData
  <2> HIDE DEF c
  <2>3. c.status \in {"NONE", "GOT_PREV_DATA", "FINISHED_SUCCESS"}
    BY <2>1 DEF Recvs
  <2>4. CASE isRecvFullPkg(c)
    BY <1>3, <2>1, <2>2, <2>4
  <2>5. CASE ~isRecvFullPkg(c)
    <3>1. recvData(r, f, ReqLen) = [c EXCEPT !.status = c.status]
      BY <2>2, <2>5
    <3> QED BY <1>3, <2>1, <2>3, <3>1
  <2> QED BY <2>4, <2>5
<1>6. CASE ~(r.status = "NONE" /\ ~r.alloc) /\ r.status # "GOT_PREV_DATA"
  <2>1. recvData(r, f, ReqLen) = r
    BY <1>6 DEF recvData
  <2> QED BY <2>1
<1> QED BY <1>4, <1>5, <1>6

(* A write changes the buffer and may start nmcli, nothing else.           *)
LEMMA WriteTyped ==
    ASSUME NEW s \in Processes, s.phase = "loop", NEW f \in Frag,
           s.recv.recv_len <= s.recv.data_len, NEW luck \in BOOLEAN
    PROVE  LET g == chr_write_value(s, f, luck)
           IN  /\ g \in Processes
               /\ g.phase \in {"loop", "nmcli"}
               /\ g.recv = recvData(s.recv, f, ReqLen)
               /\ g.recv.recv_len <= g.recv.data_len
               /\ g.phase = "nmcli" =>
                     isRecvFullPkg(g.recv) /\ (Whole(g.recv) => Accepted(g.recv))
               /\ isRecvFullPkg(g.recv) /\ Accepted(g.recv) => g.phase = "nmcli"
<1> DEFINE new == recvData(s.recv, f, ReqLen)
           got == [s EXCEPT !.recv = new]
           g == chr_write_value(s, f, luck)
<1>1. new \in Recvs /\ new.recv_len <= new.data_len
  <2>1. s.recv \in Recvs
    BY DEF Processes
  <2> QED BY <2>1, RecvTyped
<1>2. PkgLen[f.msg.kind] = ReqLen
  BY FragFacts
<1>3. g = IF isRecvFullPkg(got.recv) THEN handleSetWifiRequest(got, luck) ELSE got
  BY <1>2 DEF chr_write_value
<1> HIDE DEF new, g
<1>4. got \in Processes /\ got.recv = new /\ got.phase = "loop"
  BY <1>1 DEF Processes
<1> HIDE DEF got
<1>5. CASE isRecvFullPkg(new) /\ Decodes(new, luck)
  <2>1. g = [got EXCEPT !.phase = "nmcli"]
    BY <1>3, <1>4, <1>5 DEF handleSetWifiRequest
  <2>2. g \in Processes /\ g.recv = new /\ g.phase = "nmcli"
    BY <1>4, <2>1 DEF Processes
  <2> QED BY <1>1, <1>5, <2>2 DEF g, new, Decodes, Accepted
<1>6. CASE ~(isRecvFullPkg(new) /\ Decodes(new, luck))
  <2>1. g = got
    BY <1>3, <1>4, <1>6 DEF handleSetWifiRequest
  <2>2. g \in Processes /\ g.recv = new /\ g.phase = "loop"
    BY <1>4, <2>1
  <2> QED BY <1>1, <1>6, <2>2 DEF g, new, Decodes, Accepted
<1> QED BY <1>5, <1>6

-----------------------------------------------------------------------------
(* An undisturbed package.                                                 *)

(* One fragment more.                                                      *)
LEMMA AppendFragment ==
    ASSUME NEW k \in Nat, NEW m
    PROVE  Append([j \in 1 .. k |-> [msg |-> m, i |-> j]],
                  [msg |-> m, i |-> k + 1])
             = [j \in 1 .. k + 1 |-> [msg |-> m, i |-> j]]
<1> DEFINE g(j) == [msg |-> m, i |-> j]
           s == [j \in 1 .. k |-> g(j)]
           t == [j \in 1 .. k + 1 |-> g(j)]
<1> HIDE DEF g
<1>1. s \in Seq({g(j) : j \in Nat}) /\ Len(s) = k
  OBVIOUS
<1>2. t \in Seq({g(j) : j \in Nat}) /\ Len(t) = k + 1
  OBVIOUS
<1>3. \A j \in 1 .. k + 1 : Append(s, g(k + 1))[j] = t[j]
  <2> TAKE j \in 1 .. k + 1
  <2>1. CASE j \in 1 .. k
    BY <1>1, <2>1
  <2>2. CASE j = k + 1
    BY <1>1, <2>2
  <2> QED BY <2>1, <2>2
<1>4. Append(s, g(k + 1)) = t
  BY <1>1, <1>2, <1>3
<1> QED BY <1>4 DEF g

(* A buffer is known by its fields.                                        *)
LEMMA SameRecv ==
    ASSUME NEW r \in Recvs, NEW q \in Recvs, r.status = q.status, r.alloc = q.alloc,
           r.data = q.data, r.data_len = q.data_len, r.recv_len = q.recv_len
    PROVE  r = q
  BY DEF Recvs

(* What allocRecvData changes.                                             *)
LEMMA FreshFields ==
    ASSUME NEW r \in Recvs, NEW d \in Nat
    PROVE  LET q == [r EXCEPT !.alloc = TRUE, !.recv_len = 0, !.data_len = d]
           IN  /\ q \in Recvs /\ q.status = r.status /\ q.alloc = TRUE
               /\ q.data = r.data /\ q.data_len = d /\ q.recv_len = 0
  BY DEF Recvs

(* What copyData changes.                                                  *)
LEMMA CopyFields ==
    ASSUME NEW r \in Recvs, NEW f \in Frag, Fits(r, f), r.recv_len <= r.data_len
    PROVE  LET q == copyData(r, f)
           IN  /\ q \in Recvs /\ q.status = r.status /\ q.alloc = r.alloc
               /\ q.data = Append(r.data, f) /\ q.data_len = r.data_len
               /\ q.recv_len = r.recv_len + FragLen(f)
<1>1. copyData(r, f) \in Recvs
  BY CopyTyped
<1>2. copyData(r, f) = [r EXCEPT !.data = Append(@, f), !.recv_len = @ + FragLen(f)]
  BY DEF copyData
<1> QED BY <1>1, <1>2 DEF Recvs

(* What a change of status changes.                                        *)
LEMMA StatusFields ==
    ASSUME NEW r \in Recvs, NEW st \in {"NONE", "GOT_PREV_DATA", "FINISHED_SUCCESS"}
    PROVE  LET q == [r EXCEPT !.status = st]
           IN  /\ q \in Recvs /\ q.status = st /\ q.alloc = r.alloc
               /\ q.data = r.data /\ q.data_len = r.data_len /\ q.recv_len = r.recv_len
  BY DEF Recvs

(* The fields of a buffer that holds the first k fragments.                *)
LEMMA FilledTyped ==
    ASSUME NEW m \in Requests, NEW k \in 0 .. ReqFrags - 1
    PROVE  /\ Filled(m, k) \in Recvs
           /\ Filled(m, k).status = IF k = 0 THEN "NONE" ELSE "GOT_PREV_DATA"
           /\ Filled(m, k).alloc = (k # 0)
           /\ Filled(m, k).data = [j \in 1 .. k |-> [msg |-> m, i |-> j]]
           /\ k # 0 => Filled(m, k).data_len = ReqLen
           /\ Filled(m, k).recv_len = BLE_ATT_MAX_BYTES * k
           /\ Filled(m, k).recv_len <= Filled(m, k).data_len
<1> DEFINE D == [j \in 1 .. k |-> [msg |-> m, i |-> j]]
<1>1. D \in Seq(Frag)
  <2>1. \A j \in 1 .. k : [msg |-> m, i |-> j] \in Frag
    BY RequestCut DEF Frag
  <2> HIDE DEF Frag
  <2> QED BY <2>1, RequestCut
<1>2. CASE k = 0
  <2>1. Filled(m, k) = EmptyRecv
    BY <1>2 DEF Filled
  <2>2. /\ EmptyRecv.status = "NONE" /\ EmptyRecv.alloc = FALSE /\ EmptyRecv.data = <<>>
        /\ EmptyRecv.recv_len = 0
    BY DEF EmptyRecv
  <2>3. D = <<>>
    BY <1>2
  <2>4. BLE_ATT_MAX_BYTES * k = 0
    BY <1>2 DEF BLE_ATT_MAX_BYTES
  <2> QED BY <1>2, <2>1, <2>2, <2>3, <2>4, EmptyRecvTyped
<1>3. CASE k # 0
  <2>1. Filled(m, k) = [status |-> "GOT_PREV_DATA", alloc |-> TRUE, data |-> D,
                        data_len |-> ReqLen, recv_len |-> BLE_ATT_MAX_BYTES * k]
    BY <1>3 DEF Filled
  <2>2. BLE_ATT_MAX_BYTES * k \in Nat /\ BLE_ATT_MAX_BYTES * k <= ReqLen
    BY RequestCut DEF BLE_ATT_MAX_BYTES
  <2> HIDE DEF D
  <2>3. Filled(m, k) \in Recvs
    BY <1>1, <2>1, <2>2, RequestCut DEF Recvs
  <2>4. /\ Filled(m, k).status = "GOT_PREV_DATA" /\ Filled(m, k).alloc = TRUE
        /\ Filled(m, k).data = D /\ Filled(m, k).data_len = ReqLen
        /\ Filled(m, k).recv_len = BLE_ATT_MAX_BYTES * k
    BY <2>1
  <2> QED BY <1>3, <2>2, <2>3, <2>4 DEF D
<1> QED BY <1>2, <1>3

(* The next fragment of an undisturbed package fits, and only the last one *)
(* completes it.                                                           *)
LEMMA FillStep ==
    ASSUME NEW m \in Requests, NEW k \in 0 .. ReqFrags - 1
    PROVE  LET f == [msg |-> m, i |-> k + 1]
               g == recvData(Filled(m, k), f, ReqLen)
           IN  /\ k + 1 < ReqFrags => g = Filled(m, k + 1) /\ ~isRecvFullPkg(g)
               /\ k + 1 = ReqFrags => isRecvFullPkg(g) /\ Whole(g)
<1> DEFINE f == [msg |-> m, i |-> k + 1]
           r == Filled(m, k)
           g == recvData(r, f, ReqLen)
           D(n) == [j \in 1 .. n |-> [msg |-> m, i |-> j]]
           A == BLE_ATT_MAX_BYTES
<1>1. f \in Frag /\ f.i = k + 1 /\ f.msg = m
  BY RequestCut DEF Frag
<1>2. /\ FragLen(f) = IF k + 1 < ReqFrags THEN A ELSE ReqLen - A * k
      /\ FragLen(f) \in Nat \ {0}
      /\ PkgLen[f.msg.kind] = ReqLen
  <2>1. (k + 1) - 1 = k
    OBVIOUS
  <2> QED BY <1>1, <2>1, FragFacts
<1>3. Append(D(k), f) = D(k + 1)
  BY AppendFragment
<1> DEFINE len == A * k + FragLen(f)
<1>4. len = IF k + 1 < ReqFrags THEN A * (k + 1) ELSE ReqLen
  BY <1>2, RequestCut DEF BLE_ATT_MAX_BYTES
<1>5. k + 1 < ReqFrags => A * (k + 1) < ReqLen
  BY RequestCut DEF BLE_ATT_MAX_BYTES
<1>6. len <= ReqLen /\ len \in Nat
  BY <1>4, <1>5, RequestCut DEF BLE_ATT_MAX_BYTES
<1>7. /\ r \in Recvs /\ r.data = D(k) /\ r.recv_len = A * k
      /\ r.status = IF k = 0 THEN "NONE" ELSE "GOT_PREV_DATA"
      /\ r.alloc = (k # 0)
      /\ k # 0 => r.data_len = ReqLen
      /\ r.recv_len <= r.data_len
  BY FilledTyped
<1> HIDE DEF r, f, D
<1>8. /\ g \in Recvs /\ g.alloc = TRUE /\ g.data = D(k + 1)
      /\ g.data_len = ReqLen /\ g.recv_len = len
      /\ g.status = IF len = ReqLen THEN "FINISHED_SUCCESS" ELSE "GOT_PREV_DATA"
  <2>1. CASE k = 0
    <3> DEFINE d == getDataLength(f, ReqLen)
               q == [r EXCEPT !.alloc = TRUE, !.recv_len = 0, !.data_len = d]
               c == copyData(q, f)
    <3>1. d = ReqLen /\ d \in Nat
      BY <1>2, RequestCut DEF getDataLength
    <3>2. /\ q \in Recvs /\ q.alloc = TRUE /\ q.data = D(k)
          /\ q.data_len = ReqLen /\ q.recv_len = 0
      <4>1. r \in Recvs /\ r.data = D(k)
        BY <1>7
      <4>2. d \in Nat
        BY <3>1
      <4> HIDE DEF d
      <4>3. /\ q \in Recvs /\ q.alloc = TRUE
            /\ q.data = r.data /\ q.data_len = d /\ q.recv_len = 0
        BY ONLY <4>1, <4>2, FreshFields
      <4> HIDE DEF q
      <4> QED BY <3>1, <4>1, <4>3
    <3>3. r.status = "NONE" /\ ~r.alloc
      BY <1>7, <2>1
    <3>4. g = IF ~Fits(q, f) THEN q
              ELSE [c EXCEPT !.status = IF isRecvFullPkg(c)
                                        THEN "FINISHED_SUCCESS" ELSE "GOT_PREV_DATA"]
      BY <3>3 DEF recvData
    <3> HIDE DEF q, g
    <3>5. len = 0 + FragLen(f)
      BY <1>2, <2>1 DEF BLE_ATT_MAX_BYTES
    <3>6. Fits(q, f) /\ q.recv_len <= q.data_len
      BY <1>6, <3>2, <3>5, RequestCut DEF Fits
    <3> HIDE DEF len
    <3>7. /\ c \in Recvs /\ c.alloc = TRUE /\ c.data = D(k + 1)
          /\ c.data_len = ReqLen /\ c.recv_len = len
      BY <1>1, <1>3, <3>2, <3>5, <3>6, CopyFields
    <3>8. isRecvFullPkg(c) <=> len = ReqLen
      BY <3>7 DEF isRecvFullPkg
    <3> HIDE DEF c
    <3>9. CASE len = ReqLen
      <4>1. g = [c EXCEPT !.status = "FINISHED_SUCCESS"]
        BY <3>4, <3>6, <3>8, <3>9
      <4> QED BY <3>7, <3>9, <4>1, StatusFields
    <3>10. CASE len # ReqLen
      <4>1. g = [c EXCEPT !.status = "GOT_PREV_DATA"]
        BY <3>4, <3>6, <3>8, <3>10
      <4> QED BY <3>7, <3>10, <4>1, StatusFields
    <3> QED BY <3>9, <3>10
  <2>2. CASE k # 0
    <3> DEFINE c == copyData(r, f)
    <3>1. r.status = "GOT_PREV_DATA" /\ r.alloc = TRUE /\ r.data_len = ReqLen
      BY <1>7, <2>2
    <3>2. Fits(r, f)
      BY <1>6, <1>7, <3>1 DEF Fits
    <3>3. g = [c EXCEPT !.status = IF isRecvFullPkg(c) THEN "FINISHED_SUCCESS" ELSE @]
      BY <3>1 DEF recvData
    <3>4. /\ c \in Recvs /\ c.alloc = TRUE /\ c.data = D(k + 1)
          /\ c.data_len = ReqLen /\ c.recv_len = len /\ c.status = "GOT_PREV_DATA"
      BY <1>1, <1>3, <1>7, <3>1, <3>2, CopyFields
    <3> HIDE DEF c, g, len
    <3>5. isRecvFullPkg(c) <=> len = ReqLen
      BY <3>4 DEF isRecvFullPkg
    <3>6. CASE len = ReqLen
      <4>1. g = [c EXCEPT !.status = "FINISHED_SUCCESS"]
        BY <3>3, <3>5, <3>6
      <4> QED BY <3>4, <3>6, <4>1, StatusFields
    <3>7. CASE len # ReqLen
      <4>1. g = [c EXCEPT !.status = c.status]
        BY <3>3, <3>5, <3>7
      <4>2. g = [c EXCEPT !.status = "GOT_PREV_DATA"]
        BY <3>4, <4>1
      <4> QED BY <3>4, <3>7, <4>2, StatusFields
    <3> QED BY <3>6, <3>7
  <2> QED BY <2>1, <2>2
<1>9. ASSUME k + 1 < ReqFrags PROVE g = Filled(m, k + 1) /\ ~isRecvFullPkg(g)
  <2>1. len = A * (k + 1) /\ len # ReqLen
    BY <1>4, <1>5, <1>9, RequestCut DEF BLE_ATT_MAX_BYTES
  <2>2. k + 1 # 0 /\ k + 1 \in 0 .. ReqFrags - 1
    BY <1>9, RequestCut
  <2> DEFINE q == Filled(m, k + 1)
  <2>3. /\ q \in Recvs /\ q.data = D(k + 1) /\ q.recv_len = A * (k + 1)
        /\ q.status = "GOT_PREV_DATA" /\ q.alloc = TRUE /\ q.data_len = ReqLen
    BY <2>2, FilledTyped DEF D
  <2> HIDE DEF g, len, q
  <2>4. g = q
    BY <1>8, <2>1, <2>3, SameRecv
  <2>5. ~isRecvFullPkg(g)
    BY <1>8, <2>1 DEF isRecvFullPkg
  <2> QED BY <2>4, <2>5 DEF q
<1>10. ASSUME k + 1 = ReqFrags PROVE isRecvFullPkg(g) /\ Whole(g)
  <2>1. len = ReqLen
    BY <1>4, <1>10
  <2>2. D(k + 1) = Fragments(m)
    BY <1>10, FragmentsOf DEF D
  <2>3. D(k + 1) # <<>> /\ D(k + 1)[1].msg = m
    <3>1. 1 \in DOMAIN D(k + 1)
      BY DEF D
    <3> QED BY <3>1 DEF D
  <2> HIDE DEF g, len
  <2> QED BY <1>8, <2>1, <2>2, <2>3 DEF Whole, isRecvFullPkg
<1> QED BY <1>9, <1>10 DEF r, f

-----------------------------------------------------------------------------
(* Any buffer, whoever has written to it.                                  *)

(* A request that a buffer holds has at most all its fragments.            *)
LEMMA HeldCount ==
    ASSUME NEW r \in Recvs, NEW m, Holds(r, m)
    PROVE  Len(r.data) \in 0 .. ReqFrags
<1>1. r.data \in Seq(Frag) /\ Len(r.data) \in Nat
  BY DEF Recvs
<1>2. CASE Len(r.data) = 0
  BY <1>2, RequestCut
<1>3. CASE Len(r.data) # 0
  <2>1. Len(r.data) \in 1 .. Len(r.data)
    BY <1>1, <1>3
  <2>2. r.data[Len(r.data)] \in Frag
    <3> HIDE DEF Frag
    <3> QED BY <1>1, <2>1
  <2>3. r.data[Len(r.data)] = [msg |-> m, i |-> Len(r.data)]
    BY <2>1 DEF Holds
  <2>4. r.data[Len(r.data)].i \in 1 .. ReqFrags
    BY <2>2, FragFacts
  <2>5. r.data[Len(r.data)].i = Len(r.data)
    BY <2>3
  <2> QED BY <1>1, <2>4, <2>5, RequestCut
<1> QED BY <1>2, <1>3

(* One fragment more in a buffer of which the bytes are counted.           *)
LEMMA CopyGathers ==
    ASSUME NEW r \in Recvs, NEW f \in Frag, r.recv_len <= r.data_len, Fits(r, f),
           r.data_len = ReqLen \/ r.data # <<>>,
           r.data = <<>> => r.recv_len = 0,
           \A m \in Requests : r.data # <<>> /\ Holds(r, m) =>
              /\ r.data_len = ReqLen
              /\ r.recv_len = IF Len(r.data) < ReqFrags
                              THEN BLE_ATT_MAX_BYTES * Len(r.data) ELSE ReqLen,
           NEW c \in Recvs, c.data = Append(r.data, f), c.data_len = r.data_len,
           c.recv_len = r.recv_len + FragLen(f)
    PROVE  /\ c.data # <<>>
           /\ \A m \in Requests : Holds(c, m) =>
                 /\ c.data_len = ReqLen
                 /\ c.recv_len = IF Len(c.data) < ReqFrags
                                 THEN BLE_ATT_MAX_BYTES * Len(c.data) ELSE ReqLen
<1> DEFINE n == Len(r.data)
<1>1. /\ r.data \in Seq(Frag) /\ n \in Nat
      /\ Len(c.data) = n + 1
      /\ \A j \in 1 .. n : c.data[j] = r.data[j]
      /\ c.data[n + 1] = f
      /\ r.recv_len \in Nat /\ r.data_len \in Nat
  <2>1. r.data \in Seq(Frag) /\ r.recv_len \in Nat /\ r.data_len \in Nat
    BY DEF Recvs
  <2> HIDE DEF Frag
  <2> QED BY <2>1
<1>2. c.data # <<>>
  BY <1>1
<1>3. ASSUME NEW m \in Requests, Holds(c, m)
      PROVE  /\ c.data_len = ReqLen
             /\ c.recv_len = IF Len(c.data) < ReqFrags
                             THEN BLE_ATT_MAX_BYTES * Len(c.data) ELSE ReqLen
  <2>1. Holds(r, m) /\ f.i = n + 1
    <3>1. \A j \in 1 .. n + 1 : c.data[j] = [msg |-> m, i |-> j]
      BY <1>1, <1>3 DEF Holds
    <3>2. 1 .. n \subseteq 1 .. n + 1 /\ n + 1 \in 1 .. n + 1
      BY <1>1
    <3>3. f = [msg |-> m, i |-> n + 1]
      BY <1>1, <3>1, <3>2
    <3>4. \A j \in 1 .. n : r.data[j] = [msg |-> m, i |-> j]
      BY <1>1, <3>1, <3>2
    <3> QED BY <3>3, <3>4 DEF Holds
  <2>2. n + 1 \in 1 .. ReqFrags
    BY <1>1, <1>3, HeldCount
  <2>3. r.data_len = ReqLen /\ r.recv_len = BLE_ATT_MAX_BYTES * n
    <3>1. CASE r.data = <<>>
      BY <3>1 DEF BLE_ATT_MAX_BYTES
    <3>2. CASE r.data # <<>>
      <4>1. n < ReqFrags
        BY <1>1, <2>2, RequestCut
      <4> QED BY <2>1, <3>2, <4>1
    <3> QED BY <3>1, <3>2
  <2>4. FragLen(f) = IF n + 1 < ReqFrags THEN BLE_ATT_MAX_BYTES
                     ELSE ReqLen - BLE_ATT_MAX_BYTES * n
    <3>1. (n + 1) - 1 = n
      BY <1>1
    <3> QED BY <2>1, <3>1, FragFacts
  <2>5. CASE n + 1 < ReqFrags
    BY <1>1, <2>3, <2>4, <2>5 DEF BLE_ATT_MAX_BYTES
  <2>6. CASE ~(n + 1 < ReqFrags)
    BY <1>1, <2>3, <2>4, <2>6, RequestCut DEF BLE_ATT_MAX_BYTES
  <2> QED BY <2>5, <2>6
<1> QED BY <1>2, <1>3

(* Every write keeps the count.                                            *)
LEMMA RecvGathers ==
    ASSUME NEW r \in Recvs, NEW f \in Frag, r.recv_len <= r.data_len, Gathered(r)
    PROVE  Gathered(recvData(r, f, ReqLen))
<1> DEFINE g == recvData(r, f, ReqLen)
<1>1. CASE r.status = "NONE" /\ ~r.alloc
  <2> DEFINE d == getDataLength(f, ReqLen)
             q == [r EXCEPT !.alloc = TRUE, !.recv_len = 0, !.data_len = d]
             c == copyData(q, f)
  <2>1. d = ReqLen /\ d \in Nat
    BY FragFacts, RequestCut DEF getDataLength
  <2>2. g = IF ~Fits(q, f) THEN q
            ELSE [c EXCEPT !.status = IF isRecvFullPkg(c)
                                      THEN "FINISHED_SUCCESS" ELSE "GOT_PREV_DATA"]
    BY <1>1 DEF recvData
  <2>3. r.data = <<>>
    BY <1>1 DEF Gathered
  <2> HIDE DEF d, g
  <2>4. /\ q \in Recvs /\ q.status = "NONE" /\ q.data = <<>>
        /\ q.data_len = ReqLen /\ q.recv_len = 0
    <3>1. /\ q \in Recvs /\ q.status = r.status /\ q.data = r.data
          /\ q.data_len = d /\ q.recv_len = 0
      BY <2>1, FreshFields
    <3> HIDE DEF q
    <3> QED BY <1>1, <2>1, <2>3, <3>1
  <2> HIDE DEF q
  <2>5. CASE ~Fits(q, f)
    <3>1. g = q
      BY <2>2, <2>5
    <3>2. Gathered(q)
      BY <2>4 DEF Gathered
    <3> QED BY <3>1, <3>2 DEF g
  <2>6. CASE Fits(q, f)
    <3>1. q.recv_len <= q.data_len
      BY <2>4, RequestCut
    <3>2. /\ c \in Recvs /\ c.data = Append(q.data, f)
          /\ c.data_len = q.data_len /\ c.recv_len = q.recv_len + FragLen(f)
      BY <2>4, <2>6, <3>1, CopyFields
    <3> HIDE DEF c
    <3>3. /\ c.data # <<>>
          /\ \A m \in Requests : Holds(c, m) =>
                /\ c.data_len = ReqLen
                /\ c.recv_len = IF Len(c.data) < ReqFrags
                                THEN BLE_ATT_MAX_BYTES * Len(c.data) ELSE ReqLen
      BY <2>4, <2>6, <3>1, <3>2, CopyGathers
    <3>4. PICK st \in {"GOT_PREV_DATA", "FINISHED_SUCCESS"} : g = [c EXCEPT !.status = st]
      BY <2>2, <2>6
    <3>5. /\ g.status = st /\ g.data = c.data /\ g.data_len = c.data_len
          /\ g.recv_len = c.recv_len
      BY <3>2, <3>4, StatusFields
    <3>6. \A m \in Requests : Holds(g, m) <=> Holds(c, m)
      BY <3>5 DEF Holds
    <3>7. g.status # "NONE" /\ g.data # <<>>
      BY <3>3, <3>5
    <3> HIDE DEF g
    <3>8. Gathered(g)
      BY <3>3, <3>5, <3>6, <3>7 DEF Gathered
    <3> QED BY <3>8 DEF g
  <2> QED BY <2>5, <2>6
<1>2. CASE r.status = "GOT_PREV_DATA"
  <2> DEFINE c == copyData(r, f)
  <2>1. g = [c EXCEPT !.status = IF isRecvFullPkg(c) THEN "FINISHED_SUCCESS" ELSE @]
    BY <1>2 DEF recvData
  <2>2. c \in Recvs /\ c.status = "GOT_PREV_DATA"
    <3>1. CASE Fits(r, f)
      BY <1>2, <3>1, CopyFields
    <3>2. CASE ~Fits(r, f)
      BY <1>2, <3>2 DEF copyData
    <3> QED BY <3>1, <3>2
  <2>3. /\ c.data # <<>>
        /\ \A m \in Requests : Holds(c, m) =>
              /\ c.data_len = ReqLen
              /\ c.recv_len = IF Len(c.data) < ReqFrags
                              THEN BLE_ATT_MAX_BYTES * Len(c.data) ELSE ReqLen
    <3>1. r.data # <<>>
      BY <1>2 DEF Gathered
    <3>2. CASE Fits(r, f)
      <4>1. /\ c.data = Append(r.data, f) /\ c.data_len = r.data_len
            /\ c.recv_len = r.recv_len + FragLen(f)
        BY <3>2, CopyFields
      <4> HIDE DEF c
      <4> QED BY <2>2, <3>1, <3>2, <4>1, CopyGathers DEF Gathered
    <3>3. CASE ~Fits(r, f)
      <4>1. c = r
        BY <3>3 DEF copyData
      <4> QED BY <3>1, <4>1 DEF Gathered
    <3> QED BY <3>2, <3>3
  <2> HIDE DEF c, g
  <2>4. PICK st \in {"GOT_PREV_DATA", "FINISHED_SUCCESS"} : g = [c EXCEPT !.status = st]
    <3>1. CASE isRecvFullPkg(c)
      BY <2>1, <3>1
    <3>2. CASE ~isRecvFullPkg(c)
      <4>1. g = [c EXCEPT !.status = c.status]
        BY <2>1, <3>2
      <4> QED BY <2>2, <4>1
    <3> QED BY <3>1, <3>2
  <2>5. /\ g.status = st /\ g.data = c.data /\ g.data_len = c.data_len
        /\ g.recv_len = c.recv_len
    BY <2>2, <2>4, StatusFields
  <2>6. \A m \in Requests : Holds(g, m) <=> Holds(c, m)
    BY <2>5 DEF Holds
  <2>7. g.status # "NONE" /\ g.data # <<>>
    BY <2>3, <2>5
  <2>8. Gathered(g)
    BY <2>3, <2>5, <2>6, <2>7 DEF Gathered
  <2> QED BY <2>8 DEF g
<1>3. CASE ~(r.status = "NONE" /\ ~r.alloc) /\ r.status # "GOT_PREV_DATA"
  <2>1. g = r
    BY <1>3 DEF recvData
  <2> QED BY <2>1
<1> QED BY <1>1, <1>2, <1>3

(* A buffer that holds a whole request is full, so that the request is not *)
(* left waiting for more.                                                  *)
LEMMA WholeIsFull ==
    ASSUME NEW r \in Recvs, Gathered(r), Whole(r)
    PROVE  isRecvFullPkg(r)
<1> DEFINE m == r.data[1].msg
<1>1. r.data \in Seq(Frag) /\ r.data # <<>> /\ r.data = Fragments(m)
  BY DEF Recvs, Whole
<1>2. r.data[1] \in Frag
  <2> HIDE DEF Frag
  <2> QED BY <1>1
<1>3. m \in Requests
  BY <1>2 DEF Frag
<1> HIDE DEF m
<1>4. Holds(r, m) /\ Len(r.data) = ReqFrags
  <2>1. /\ Fragments(m) = [k \in 1 .. ReqFrags |-> [msg |-> m, i |-> k]]
        /\ Len(Fragments(m)) = ReqFrags
    BY <1>3, FragmentsOf
  <2> QED BY <1>1, <2>1 DEF Holds
<1>5. r.data_len = ReqLen /\ r.recv_len = ReqLen
  <2>1. ~(Len(r.data) < ReqFrags)
    BY <1>4, RequestCut
  <2> QED BY <1>1, <1>3, <1>4, <2>1 DEF Gathered
<1> QED BY <1>5 DEF isRecvFullPkg

-----------------------------------------------------------------------------
(* Processes that begin and end.                                           *)

(* Quiet phones and a process in its first phase satisfy what is said of   *)
(* phones and packages.                                                    *)
LEMMA NoPhones ==
    ASSUME PhonesLoseService, srv' = [NoProcess EXCEPT !.phase = "none"]
                              \/ srv' = [NoProcess EXCEPT !.phase = "main"]
                              \/ srv' = NoProcess,
           bridge' \in {"read", "waitpid", "down"}, presses' \in 0 .. MaxQueued
    PROVE  WifiType' /\ PackageInv' /\ srv'.phase \in {"none", "main"}
<1>1. /\ srv' \in Processes /\ srv'.recv = EmptyRecv
      /\ srv'.phase \in {"none", "main"}
  <2>1. NoProcess \in Processes /\ NoProcess.recv = EmptyRecv /\ NoProcess.phase = "none"
    BY EmptyRecvTyped DEF NoProcess, Processes
  <2>2. ASSUME NEW ph \in {"none", "main"}
        PROVE  /\ [NoProcess EXCEPT !.phase = ph] \in Processes
               /\ [NoProcess EXCEPT !.phase = ph].recv = EmptyRecv
               /\ [NoProcess EXCEPT !.phase = ph].phase = ph
    BY <2>1 DEF Processes
  <2> QED BY <2>1, <2>2
<1>2. /\ out' = [p \in Phones |-> <<>>] /\ phone' = [p \in Phones |-> "idle"]
      /\ disturbed' = FALSE
  BY DEF PhonesLoseService
<1>3. <<>> \in Seq(Frag)
  OBVIOUS
<1>4. /\ out' \in [Phones -> Seq(Frag)]
      /\ phone' \in [Phones -> {"idle", "writing", "done"}]
      /\ \A p \in Phones : phone'[p] = "idle"
  <2> HIDE DEF Frag
  <2> QED BY <1>2, <1>3
<1>5. srv'.recv.recv_len <= srv'.recv.data_len
  BY <1>1, EmptyRecvTyped
<1>6. WifiType'
  BY <1>1, <1>2, <1>4, <1>5 DEF WifiType
<1>7. PackageInv'
  BY <1>1, <1>2, <1>4, EmptyGathered DEF PackageInv, Quiet
<1> QED BY <1>1, <1>6, <1>7

(* Nothing is running when the bridge starts.                              *)
LEMMA InitInv == Init => WifiInv
<1> SUFFICES ASSUME Init PROVE WifiInv
  OBVIOUS
<1>1. srv \in Processes /\ srv.recv = EmptyRecv /\ srv.phase = "none"
  BY EmptyRecvTyped DEF Init, NoProcess, Processes
<1>2. <<>> \in Seq(Frag)
  OBVIOUS
<1>3. /\ out \in [Phones -> Seq(Frag)]
      /\ phone \in [Phones -> {"idle", "writing", "done"}]
      /\ \A p \in Phones : phone[p] = "idle"
  <2> HIDE DEF Frag
  <2> QED BY <1>2 DEF Init
<1>4. srv.recv.recv_len <= srv.recv.data_len
  BY <1>1, EmptyRecvTyped
<1>5. WifiType
  <2>1. presses \in 0 .. MaxQueued
    <3>1. MaxQueued \in Nat
      OBVIOUS
    <3>2. presses = 0
      BY DEF Init
    <3> QED BY ONLY <3>1, <3>2
  <2>2. disturbed \in BOOLEAN /\ bridge = "read"
    BY DEF Init
  <2> QED BY <1>1, <1>3, <1>4, <2>1, <2>2 DEF WifiType
<1>6. PackageInv
  BY <1>1, <1>3, EmptyGathered DEF PackageInv, Quiet, Init
<1>7. LiveInv
  BY <1>1 DEF LiveInv, Init
<1> QED BY <1>5, <1>6, <1>7, SockInitInv DEF WifiInv, Init

(* A process that ends takes its attributes and connections with it.       *)
LEMMA ExitInv ==
    ASSUME WifiInv, Exit, srv.phase # "none", UNCHANGED buttonVars
    PROVE  WifiInv'
<1>1. WifiType' /\ PackageInv'
  BY NoPhones DEF Exit, WifiInv, WifiType, buttonVars
<1>2. LiveInv'
  BY DEF LiveInv, WifiInv, Exit, NoProcess
<1>3. SockInv'
  BY SockResetInv DEF Exit
<1> QED BY <1>1, <1>2, <1>3 DEF WifiInv

(* What is said of the package is about the process and the phones.        *)
LEMMA PackageUnchanged ==
    ASSUME PackageInv, UNCHANGED <<srv, phoneVars>>
    PROVE  PackageInv'
<1>1. UNCHANGED <<srv, out, phone, disturbed>>
  BY DEF phoneVars
<1>2. Quiet' <=> Quiet
  BY <1>1 DEF Quiet
<1>3. \A p \in Phones : Written(p)' <=> Written(p)
  BY <1>1 DEF Written
<1>4. \A p \in Phones, m \in Requests, k \in 0 .. ReqFrags - 1 :
         Stage(p, m, k)' <=> Stage(p, m, k)
  BY <1>1 DEF Stage
<1> QED BY <1>1, <1>2, <1>3, <1>4 DEF PackageInv

(* A release that is taken from the device.                                *)
LEMMA OnePressLess ==
    ASSUME NEW n \in 0 .. MaxQueued, n > 0
    PROVE  n - 1 \in 0 .. MaxQueued
  OBVIOUS

(* StartBLE replaces whatever wifi_server there was.                       *)
LEMMA StartInv ==
    ASSUME WifiInv, NEW how \in {"started", "vfork error", "exec error"}, StartBLE(how)
    PROVE  WifiInv'
<1>1. presses' \in 0 .. MaxQueued
  <2>1. presses \in 0 .. MaxQueued /\ presses > 0 /\ presses' = presses - 1
    BY DEF StartBLE, WifiInv, WifiType
  <2> QED BY <2>1, OnePressLess
<1>2. CASE how = "vfork error"
  <2>1. UNCHANGED <<bridge, live, srv, phoneVars, sockVars>>
    BY <1>2 DEF StartBLE
  <2>2. WifiType' /\ LiveInv' /\ PackageInv'
    BY <1>1, <2>1, PackageUnchanged DEF WifiInv, WifiType, LiveInv, phoneVars
  <2> QED BY <2>1, <2>2, SockUnchangedInv DEF WifiInv
<1>3. CASE how # "vfork error"
  <2>1. /\ live' = IF how = "started" THEN 1 ELSE 0
        /\ srv' = [NoProcess EXCEPT !.phase = IF how = "started" THEN "main" ELSE "none"]
        /\ bridge' = IF how = "started" THEN "waitpid" ELSE "read"
        /\ PhonesLoseService
        /\ SockReset(FALSE)
    BY <1>3 DEF StartBLE
  <2>2. WifiType' /\ PackageInv'
    BY <1>1, <2>1, NoPhones
  <2>3. srv'.phase = IF how = "started" THEN "main" ELSE "none"
    BY <2>1 DEF NoProcess
  <2>4. LiveInv'
    <3>1. CASE how = "started"
      BY <2>1, <2>3, <3>1 DEF LiveInv
    <3>2. CASE how # "started"
      BY <2>1, <2>3, <3>2 DEF LiveInv
    <3> QED BY <3>1, <3>2
  <2> QED BY <2>1, <2>2, <2>4, SockResetInv DEF WifiInv
<1> QED BY <1>2, <1>3

(* The steps of the bridge that leave the process and the phones alone.    *)
LEMMA BridgeInv ==
    ASSUME WifiInv, Press \/ WaitpidReturns \/ Crash \/ Restart
    PROVE  WifiInv'
<1>1. UNCHANGED <<srv, phoneVars, sockVars>>
  BY DEF Press, WaitpidReturns, Crash, Restart
<1>2. bridge' \in {"read", "waitpid", "down"} /\ presses' \in 0 .. MaxQueued
  BY DEF WifiInv, WifiType, Press, WaitpidReturns, Crash, Restart
<1>3. LiveInv'
  BY <1>1 DEF WifiInv, LiveInv, Press, WaitpidReturns, Crash, Restart
<1>4. WifiType' /\ PackageInv'
  BY <1>1, <1>2, PackageUnchanged DEF WifiInv, WifiType, phoneVars
<1> QED BY <1>1, <1>3, <1>4, SockUnchangedInv DEF WifiInv

(* main offers the service to phones that have not written yet.            *)
LEMMA MainInv ==
    ASSUME WifiInv, NEW ok \in BOOLEAN, NEW bound \in BOOLEAN, main(ok, bound)
    PROVE  WifiInv'
<1>1. srv.phase = "main" /\ UNCHANGED buttonVars
  BY DEF main
<1>2. CASE ~ok
  BY <1>1, <1>2, ExitInv DEF main
<1>3. CASE ok
  <2>1. /\ srv' = [srv EXCEPT !.phase = "loop", !.alarm = TRUE]
        /\ SockReset(bound) /\ UNCHANGED <<live, phoneVars>>
    BY <1>3 DEF main
  <2>2. srv' \in Processes /\ srv'.phase = "loop" /\ srv'.recv = srv.recv
    BY <2>1 DEF WifiInv, WifiType, Processes
  <2>3. WifiType'
    BY <1>1, <2>1, <2>2 DEF WifiInv, WifiType, buttonVars, phoneVars
  <2>4. Quiet'
    BY <1>1, <2>1, <2>2 DEF WifiInv, PackageInv, Quiet, phoneVars
  <2>5. PackageInv'
    BY <2>2, <2>4, EmptyGathered DEF PackageInv, Quiet
  <2>6. LiveInv'
    BY <1>1, <2>1, <2>2 DEF WifiInv, LiveInv
  <2> QED BY <2>1, <2>3, <2>5, <2>6, SockResetInv DEF WifiInv
<1> QED BY <1>2, <1>3

(* The alarm ends the process or hangs it.                                 *)
LEMMA AlarmInv ==
    ASSUME WifiInv, NEW interrupts \in BOOLEAN, sig_alarm_to_close(interrupts)
    PROVE  WifiInv'
<1>1. srv.phase \in {"loop", "nmcli"} /\ UNCHANGED buttonVars
  BY DEF sig_alarm_to_close
<1>2. CASE ~interrupts
  BY <1>1, <1>2, ExitInv DEF sig_alarm_to_close
<1>3. CASE interrupts
  <2>1. srv' = [srv EXCEPT !.phase = "hung"] /\ UNCHANGED <<live, phoneVars, sockVars>>
    BY <1>3 DEF sig_alarm_to_close
  <2>2. srv' \in Processes /\ srv'.phase = "hung" /\ srv'.recv = srv.recv
    BY <2>1 DEF WifiInv, WifiType, Processes
  <2>3. WifiType'
    BY <1>1, <2>1, <2>2 DEF WifiInv, WifiType, buttonVars, phoneVars
  <2>4. PackageInv' /\ LiveInv'
    BY <1>1, <2>1, <2>2 DEF WifiInv, PackageInv, LiveInv
  <2> QED BY <2>1, <2>3, <2>4, SockUnchangedInv DEF WifiInv
<1> QED BY <1>2, <1>3

(* BlueZ's interfaces register the service or end the process.             *)
LEMMA ProxyInv ==
    ASSUME WifiInv, NEW iface, NEW ok \in BOOLEAN, proxy_added_cb(iface, ok)
    PROVE  WifiInv'
<1>1. srv.phase = "loop" /\ UNCHANGED buttonVars
  BY DEF proxy_added_cb
<1>2. CASE Exit
  BY <1>1, <1>2, ExitInv
<1>3. CASE /\ srv' = [srv EXCEPT !.registered = TRUE]
           /\ UNCHANGED <<live, phoneVars, sockVars>>
  <2>1. srv' \in Processes /\ srv'.phase = "loop" /\ srv'.recv = srv.recv
    BY <1>1, <1>3 DEF WifiInv, WifiType, Processes
  <2>2. WifiType'
    BY <1>1, <1>3, <2>1 DEF WifiInv, WifiType, buttonVars, phoneVars
  <2>3. PackageInv' /\ LiveInv'
    BY <1>1, <1>3, <2>1 DEF WifiInv, PackageInv, LiveInv, Quiet, Stage, Written, phoneVars
  <2> QED BY <1>3, <2>2, <2>3, SockUnchangedInv DEF WifiInv
<1> QED BY <1>2, <1>3 DEF proxy_added_cb

(* The thread of CryptSocket leaves the rest of the process alone.         *)
LEMMA ThreadInv == ASSUME WifiInv, ThreadSteps PROVE WifiInv'
<1>1. WifiType' /\ PackageInv' /\ LiveInv'
  BY PackageUnchanged DEF ThreadSteps, WifiInv, WifiType, LiveInv, buttonVars, phoneVars
<1> QED BY <1>1, SockNextInv DEF WifiInv, ThreadSteps

-----------------------------------------------------------------------------
(* The phones.                                                             *)

(* The first phone to write to a quiet process is in stage 0.              *)
LEMMA BeginsInv ==
    ASSUME WifiInv, NEW p \in Phones, NEW id \in RequestIds, PhoneBegins(p, id)
    PROVE  WifiInv'
<1> DEFINE m == Request(p, id)
           fr == Fragments(m)
<1>1. /\ srv.phase = "loop"
      /\ phone' = [phone EXCEPT ![p] = "writing"]
      /\ out' = [out EXCEPT ![p] = fr]
      /\ disturbed' = (disturbed \/ \E q \in Phones : phone[q] \in {"writing", "done"})
      /\ UNCHANGED <<buttonVars, live, srv, sockVars>>
  BY DEF PhoneBegins, Request
<1>2. /\ fr = [k \in 1 .. ReqFrags |-> [msg |-> m, i |-> k]]
      /\ fr \in Seq(Frag) /\ Len(fr) = ReqFrags
      /\ m \in Requests
  <2>1. m \in Requests
    BY DEF Requests
  <2> HIDE DEF m
  <2> QED BY <2>1, FragmentsOf
<1>3. fr # <<>>
  BY <1>2, RequestCut
<1> HIDE DEF fr, m
<1>4. /\ out'[p] = fr /\ out' \in [Phones -> Seq(Frag)]
      /\ \A q \in Phones \ {p} : out'[q] = out[q]
  BY <1>1, <1>2 DEF WifiInv, WifiType
<1>5. /\ phone'[p] = "writing" /\ phone' \in [Phones -> {"idle", "writing", "done"}]
      /\ \A q \in Phones \ {p} : phone'[q] = phone[q]
  BY <1>1 DEF WifiInv, WifiType
<1>6. WifiType'
  <2>1. \A q \in Phones : phone'[q] = "writing" => out'[q] # <<>>
    BY <1>3, <1>4, <1>5 DEF WifiInv, WifiType
  <2>2. disturbed' \in BOOLEAN
    BY <1>1
  <2> QED BY <1>1, <1>4, <1>5, <2>1, <2>2 DEF WifiInv, WifiType, buttonVars
<1>7. ASSUME ~disturbed' PROVE Stage(p, m, 0)'
  <2>1. ~disturbed /\ \A q \in Phones : phone[q] = "idle"
    BY <1>1, <1>7 DEF WifiInv, WifiType
  <2>2. Quiet
    BY <1>1, <2>1 DEF WifiInv, PackageInv, Stage, Written
  <2>3. srv'.recv = Filled(m, 0)
    BY <1>1, <2>2 DEF Quiet, Filled
  <2>4. ReqFrags \in Nat /\ ReqFrags - 0 = ReqFrags
    BY RequestCut
  <2>5. \A j \in 1 .. ReqFrags : 0 + j = j /\ fr[j] = [msg |-> m, i |-> j]
    BY <1>2
  <2> HIDE DEF ReqFrags, Filled
  <2>6. \A j \in 1 .. ReqFrags - 0 : out'[p][j] = [msg |-> m, i |-> 0 + j]
    BY <1>4, <2>4, <2>5
  <2> QED BY <1>2, <1>4, <1>5, <2>1, <2>3, <2>4, <2>6 DEF Stage
<1>8. PackageInv'
  <2>1. 0 \in 0 .. ReqFrags - 1
    BY RequestCut
  <2> QED BY <1>1, <1>2, <1>7, <2>1 DEF WifiInv, PackageInv
<1>9. LiveInv' /\ SockInv'
  BY <1>1, SockUnchangedInv DEF WifiInv, LiveInv
<1> QED BY <1>6, <1>8, <1>9 DEF WifiInv

(* A phone that leaves disturbs the package.                               *)
LEMMA LeavesInv == ASSUME WifiInv, NEW p \in Phones, PhoneLeaves(p) PROVE WifiInv'
<1>1. /\ phone' = [phone EXCEPT ![p] = "idle"]
      /\ out' = [out EXCEPT ![p] = <<>>]
      /\ disturbed' = TRUE
      /\ UNCHANGED <<buttonVars, live, srv, sockVars>>
  BY DEF PhoneLeaves
<1>2. srv.phase \notin {"none", "main"}
  BY DEF PhoneLeaves, WifiInv, PackageInv, Quiet
<1>3. <<>> \in Seq(Frag)
  OBVIOUS
<1>4. WifiType'
  BY <1>1, <1>3 DEF WifiInv, WifiType, buttonVars
<1>5. PackageInv'
  BY <1>1, <1>2 DEF WifiInv, PackageInv
<1>6. LiveInv' /\ SockInv'
  BY <1>1, SockUnchangedInv DEF WifiInv, LiveInv
<1> QED BY <1>4, <1>5, <1>6 DEF WifiInv

(* A phone that is alone goes from one stage to the next, and after its    *)
(* last fragment its package is whole in the buffer, where nmcli runs on   *)
(* it or the decoder has refused it.                                       *)
LEMMA WritesInv ==
    ASSUME WifiInv, NEW p \in Phones, NEW luck \in BOOLEAN, PhoneWrites(p, luck)
    PROVE  WifiInv'
<1> DEFINE f == Head(out[p])
           rest == Tail(out[p])
           g == chr_write_value(srv, f, luck)
<1>1. /\ phone[p] = "writing" /\ srv.phase = "loop"
      /\ srv' = g
      /\ out' = [out EXCEPT ![p] = rest]
      /\ phone' = [phone EXCEPT ![p] = IF rest = <<>> THEN "done" ELSE "writing"]
      /\ UNCHANGED <<buttonVars, live, disturbed, sockVars>>
  BY DEF PhoneWrites
<1>2. out[p] \in Seq(Frag) /\ out[p] # <<>>
  BY <1>1 DEF WifiInv, WifiType
<1>3. f \in Frag /\ rest \in Seq(Frag) /\ Len(rest) = Len(out[p]) - 1
      /\ f = out[p][1] /\ Len(out[p]) >= 1 /\ Len(out[p]) \in Nat
      /\ \A j \in 1 .. Len(rest) : rest[j] = out[p][j + 1]
  <2> DEFINE s == out[p]
  <2>1. s \in Seq(Frag) /\ s # <<>>
    BY <1>2
  <2> HIDE DEF s, Frag
  <2>2. /\ Head(s) \in Frag /\ Tail(s) \in Seq(Frag) /\ Len(Tail(s)) = Len(s) - 1
        /\ Head(s) = s[1] /\ Len(s) >= 1 /\ Len(s) \in Nat
        /\ \A j \in 1 .. Len(Tail(s)) : Tail(s)[j] = s[j + 1]
    BY <2>1
  <2> QED BY <2>2 DEF s
<1> HIDE DEF f, rest
<1>4. /\ g \in Processes /\ g.phase \in {"loop", "nmcli"}
      /\ g.recv = recvData(srv.recv, f, ReqLen)
      /\ g.recv.recv_len <= g.recv.data_len
      /\ isRecvFullPkg(g.recv) /\ Accepted(g.recv) => g.phase = "nmcli"
      /\ g.phase = "nmcli" => isRecvFullPkg(g.recv) /\ (Whole(g.recv) => Accepted(g.recv))
  <2>1. srv \in Processes /\ srv.recv.recv_len <= srv.recv.data_len
    BY DEF WifiInv, WifiType
  <2> QED BY <1>1, <1>3, <2>1, WriteTyped
<1> HIDE DEF g
<1>5. /\ out'[p] = rest /\ out' \in [Phones -> Seq(Frag)]
      /\ \A q \in Phones \ {p} : out'[q] = out[q]
  BY <1>1, <1>3 DEF WifiInv, WifiType
<1>6. /\ phone'[p] = IF rest = <<>> THEN "done" ELSE "writing"
      /\ phone' \in [Phones -> {"idle", "writing", "done"}]
      /\ \A q \in Phones \ {p} : phone'[q] = phone[q]
  BY <1>1 DEF WifiInv, WifiType
<1>7. WifiType'
  <2>1. \A q \in Phones : phone'[q] = "writing" => out'[q] # <<>>
    BY <1>5, <1>6 DEF WifiInv, WifiType
  <2> QED BY <1>1, <1>4, <1>5, <1>6, <2>1 DEF WifiInv, WifiType, buttonVars
<1>8. /\ Gathered(g.recv)
      /\ g.phase = "loop" => ~Accepted(g.recv)
  <2>1. srv.recv \in Recvs /\ srv.recv.recv_len <= srv.recv.data_len /\ Gathered(srv.recv)
    BY DEF WifiInv, WifiType, PackageInv, Processes
  <2>2. Gathered(g.recv) /\ g.recv \in Recvs
    BY <1>3, <1>4, <2>1, RecvGathers, RecvTyped
  <2>3. Accepted(g.recv) => isRecvFullPkg(g.recv)
    BY <2>2, WholeIsFull DEF Accepted
  <2> QED BY <1>4, <2>2, <2>3
<1>9. PackageInv'
  <2>1. CASE disturbed
    BY <1>1, <1>4, <1>8, <2>1 DEF PackageInv
  <2>2. CASE ~disturbed
    <3>1. PICK m \in Requests, k \in 0 .. ReqFrags - 1 : Stage(p, m, k)
      <4>1. PICK q \in Phones, m \in Requests, k \in 0 .. ReqFrags - 1 : Stage(q, m, k)
        BY <1>1, <2>2 DEF WifiInv, PackageInv, Quiet, Written
      <4>2. q = p
        BY <1>1, <4>1 DEF Stage
      <4> QED BY <4>1, <4>2
    <3>2. ReqFrags \in Nat \ {0} /\ k \in Nat
      BY RequestCut
    <3>3. f = [msg |-> m, i |-> k + 1]
      <4>1. 1 \in 1 .. ReqFrags - k
        BY <3>2
      <4> QED BY <1>3, <3>1, <4>1 DEF Stage
    <3>4. g.recv = recvData(Filled(m, k), f, ReqLen)
      BY <1>4, <3>1 DEF Stage
    <3>5. CASE k + 1 = ReqFrags
      <4>1. isRecvFullPkg(g.recv) /\ Whole(g.recv)
        BY <3>3, <3>4, <3>5, FillStep
      <4>2. CASE g.phase = "nmcli"
        BY <1>1, <1>4, <1>8, <4>1, <4>2 DEF PackageInv
      <4>3. CASE g.phase = "loop"
        <5>1. Len(rest) = 0
          BY <1>3, <3>1, <3>2, <3>5 DEF Stage
        <5>2. phone'[p] = "done"
          BY <1>3, <1>6, <5>1
        <5>3. Written(p)'
          BY <1>1, <1>6, <3>1, <4>1, <5>2 DEF Stage, Written
        <5> QED BY <1>1, <1>8, <4>3, <5>3 DEF PackageInv
      <4> QED BY <1>4, <4>2, <4>3
    <3>6. CASE k + 1 < ReqFrags
      <4>1. g.recv = Filled(m, k + 1) /\ ~isRecvFullPkg(g.recv)
        BY <3>3, <3>4, <3>6, FillStep
      <4>2. g.phase = "loop"
        BY <1>4, <4>1
      <4>3. /\ Len(rest) = ReqFrags - (k + 1) /\ rest # <<>>
            /\ \A j \in 1 .. ReqFrags - (k + 1) :
                  rest[j] = [msg |-> m, i |-> (k + 1) + j]
        <5>1. Len(out[p]) = ReqFrags - k
          BY <3>1 DEF Stage
        <5>2. Len(rest) = ReqFrags - (k + 1)
          BY <1>3, <3>2, <5>1
        <5>3. rest # <<>>
          BY <3>2, <3>6, <5>2
        <5>4. ASSUME NEW j \in 1 .. ReqFrags - (k + 1)
              PROVE  rest[j] = [msg |-> m, i |-> (k + 1) + j]
          <6>1. j + 1 \in 1 .. ReqFrags - k /\ k + (j + 1) = (k + 1) + j
            BY <3>2
          <6>2. out[p][j + 1] = [msg |-> m, i |-> k + (j + 1)]
            BY <3>1, <6>1 DEF Stage
          <6>3. rest[j] = out[p][j + 1]
            BY <1>3, <5>2
          <6> QED BY <6>1, <6>2, <6>3
        <5> QED BY <5>2, <5>3, <5>4
      <4>4. \A q \in Phones \ {p} : phone'[q] = "idle"
        BY <1>6, <3>1 DEF Stage
      <4>5. Stage(p, m, k + 1)'
        BY <1>1, <1>5, <1>6, <4>1, <4>3, <4>4 DEF Stage
      <4>6. k + 1 \in 0 .. ReqFrags - 1
        BY <3>2, <3>6
      <4> QED BY <1>1, <1>8, <4>2, <4>5, <4>6 DEF PackageInv
    <3> QED BY <3>2, <3>5, <3>6
  <2> QED BY <2>1, <2>2 DEF WifiInv, WifiType
<1>10. LiveInv' /\ SockInv'
  BY <1>1, <1>4, SockUnchangedInv DEF WifiInv, LiveInv
<1> QED BY <1>7, <1>9, <1>10 DEF WifiInv

-----------------------------------------------------------------------------
(* The theorems.                                                           *)

(* Every step keeps the invariant.                                         *)
LEMMA NextInv == ASSUME WifiInv, [Next]_vars PROVE WifiInv'
<1>1. CASE ButtonSteps
  BY <1>1, StartInv, BridgeInv DEF ButtonSteps
<1>2. CASE MainSteps
  <2>1. CASE NmcliReturns
    BY <2>1, ExitInv DEF NmcliReturns
  <2> QED BY <1>2, <2>1, MainInv DEF MainSteps
<1>3. CASE AlarmSteps
  BY <1>3, AlarmInv DEF AlarmSteps
<1>4. CASE ThreadSteps
  BY <1>4, ThreadInv
<1>5. CASE Environment
  <2>1. CASE signal_handler
    BY <2>1, ExitInv DEF signal_handler
  <2> QED BY <1>5, <2>1, BridgeInv, ProxyInv, BeginsInv, LeavesInv, WritesInv
          DEF Environment
<1>6. CASE UNCHANGED vars
  <2>1. WifiType' /\ PackageInv' /\ LiveInv'
    BY <1>6, PackageUnchanged DEF vars, WifiInv, WifiType, LiveInv, buttonVars, phoneVars
  <2> QED BY <1>6, <2>1, SockUnchangedInv DEF WifiInv, vars
<1> QED BY <1>1, <1>2, <1>3, <1>4, <1>5, <1>6 DEF Next

(* The invariant of the button, the process, the phones and the table of   *)
(* connections, in every interleaving.                                     *)
THEOREM WifiInvariant == Spec => []WifiInv
<1>1. WifiInv /\ [Next]_vars => WifiInv'
  BY NextInv
<1> QED BY <1>1, InitInv, PTL DEF Spec

(* Every variable keeps its type, and copyData never passes the end of the *)
(* buffer, for any length of a request and any number of phones.           *)
THEOREM TypeCorrect == Spec => []TypeOK
<1>1. WifiInv => TypeOK
  <2> SUFFICES ASSUME WifiInv PROVE TypeOK
    OBVIOUS
  <2>1. conn_amount \in 0 .. MAX_CLIENT
    BY AmountInTable DEF WifiInv
  <2>2. live \in Nat
    BY DEF WifiInv, LiveInv
  <2>3. /\ srv.phase \in {"none", "main", "loop", "nmcli", "hung"}
        /\ srv.alarm \in BOOLEAN /\ srv.registered \in BOOLEAN
    BY DEF WifiInv, WifiType, Processes
  <2>4. listening \in BOOLEAN /\ fd \in [Slots -> Peers \cup {NoPeer}]
    BY DEF WifiInv, SockInv, SockType
  <2> QED BY <2>1, <2>2, <2>3, <2>4 DEF WifiInv, WifiType, TypeOK
<1> QED BY <1>1, WifiInvariant, PTL

(* There is never more than one wifi_server, however often the bridge      *)
(* crashes, is started again and has its button pressed.                   *)
THEOREM OnlyOneServer == Spec => []OneServer
<1>1. WifiInv => OneServer
  BY DEF WifiInv, LiveInv, OneServer
<1> QED BY <1>1, WifiInvariant, PTL

(* nmcli is never run on part of a package, or on a mixture, unless a      *)
(* package was broken off or two phones wrote.                             *)
THEOREM RequestsAreWhole == Spec => []AppliedAsWritten
<1>1. WifiInv => AppliedAsWritten
  BY DEF WifiInv, PackageInv, Accepted, AppliedAsWritten
<1> QED BY <1>1, WifiInvariant, PTL

(* A request that the decoder takes never lies complete in the buffer of a *)
(* process that still waits, whatever was written around it and however    *)
(* long it is; and a phone that was alone and finds the process waiting    *)
(* after its last fragment was refused with its whole request.             *)
THEOREM PhonesAreHeard == Spec => []HeardOut
<1>1. WifiInv => HeardOut
  <2> SUFFICES ASSUME WifiInv, srv.phase = "loop" PROVE HeardOut
    BY DEF HeardOut
  <2>1. Whole(srv.recv) => srv.recv.data[1].msg.id # "0x51"
    BY DEF WifiInv, PackageInv, Accepted
  <2>2. ASSUME ~disturbed, NEW p \in Phones, phone[p] = "done"
        PROVE  Whole(srv.recv)
    BY <2>2 DEF WifiInv, PackageInv, Quiet, Stage, Written
  <2> QED BY <2>1, <2>2 DEF HeardOut
<1> QED BY <1>1, WifiInvariant, PTL

(* conn_amount counts the entries in use, so that accept finds a free one, *)
(* and no connection has two.                                              *)
THEOREM TableIsCountedRight == Spec => []TableMatchesCount
<1>1. WifiInv => TableMatchesCount
  BY TableIsCounted DEF WifiInv
<1> QED BY <1>1, WifiInvariant, PTL

(* A Crypt that a pairing sent is decoded, or is still in a connection     *)
(* that the thread has or will get in sight, for any number of entries.    *)
THEOREM CryptsAreKept == Spec => []CryptIsKept
<1>1. WifiInv => CryptIsKept
  BY SentIsKept DEF WifiInv
<1> QED BY <1>1, WifiInvariant, PTL

=============================================================================
