--------------------------- MODULE PairingProofs ---------------------------
(***************************************************************************)
(* What a pairing promises for any number of runs of the client, any       *)
(* lengths of the packages and any byte that may be taken for a length.    *)
(***************************************************************************)
EXTENDS Pairing, TLAPS

USE RecvDataAssumption, PairingServerAssumption

-----------------------------------------------------------------------------
(* The inductive invariant.                                                *)

Recvs == [status   : {"NONE", "GOT_PREV_DATA", "FINISHED_SUCCESS"},
          alloc    : BOOLEAN,
          data     : Seq(Fragment),
          data_len : Nat,
          recv_len : Int]

(* The states in which the server waits for a write, and the events it is  *)
(* left with.                                                              *)
RestStates == {"PAIRING_BEGIN", "PAIRING_STEP1", "PAIRING_STEP2", "PAIRING_STEP4",
               "PAIRING_COMPLETE", "SET_WIFI_BEGIN"}
RestEvents == {"C_SUBSCRIBE", "S_REPLY_STEP2", "S_REPLY_STEP4", "S_PAIRING_COMPLETE"}
AfterStep4 == {"PAIRING_STEP4", "PAIRING_COMPLETE", "SET_WIFI_BEGIN"}

Crypts  == [key : Keys, server_nonce : Nonces, client_nonce : Nonces]
Servers == [fsm : RestStates, event : RestEvents, recv : Recvs, draws : Nat,
            admin_key : Keys, server_nonce : Nonces, client_nonce : Nonces,
            reply : Replies \cup {None}, crypt : Crypts \cup {None}]

ClientStates == {"idle"} \cup FSMStates \cup Ended
Clients == [state        : ClientStates,
            pairing_step : {"BEGIN", "STEP1", "STEP2", "STEP3", "STEP4", "DONE"},
            out          : Seq(Fragment),
            msg          : Replies \cup {None},
            quit         : BOOLEAN,
            notifying    : BOOLEAN,
            sharedKey    : Keys,
            txNonce      : Nonces,
            rxNonce      : Nonces,
            result       : {None, "err", "success"}]

(* The server's nonce, fresh and after the one step 3 it opens; the nonce  *)
(* of a run.                                                               *)
ServerNonce(n) == [by |-> "server", n |-> n]
RunNonce(s)    == [by |-> s, n |-> 0]

(* The server opens at most one step 3, and with it takes the run's nonce  *)
(* and advances its own.                                                   *)
ServerOK(srv) ==
    /\ srv \in Servers
    /\ srv.recv.recv_len <= srv.recv.data_len
    /\ srv.fsm \notin AfterStep4 => srv.client_nonce = None /\ srv.crypt = None
    /\ srv.fsm = "PAIRING_STEP2" => srv.server_nonce = ServerNonce(0)
    /\ srv.fsm \in AfterStep4 =>
          srv.server_nonce = ServerNonce(1) \/ srv.client_nonce = None
    /\ srv.crypt # None => srv.crypt.key = srv.admin_key

(* A step 2 carries the server's fresh nonce; a step 4 is sealed with what *)
(* the server keeps for good.                                              *)
GoodReply(r, srv) ==
    /\ r.kind = "step2" => r.nonce = ServerNonce(0)
    /\ r.kind = "step4" => /\ srv.fsm \in AfterStep4
                           /\ r.key = srv.admin_key
                           /\ r.nonce = srv.client_nonce

NotesOK(ns, srv) ==
    ns \in Seq(Replies) /\ \A i \in 1 .. Len(ns) : ns[i] # None /\ GoodReply(ns[i], srv)

Unsealed(c) == c.state = "COMMIT" /\ c.out = <<>>
Sealed(c)   == c.state = "COMMIT" /\ c.out # <<>>

Paired(s, c, srv) ==
    /\ srv.fsm \in AfterStep4
    /\ srv.admin_key = c.sharedKey
    /\ srv.client_nonce = RunNonce(s)

(* A run holds its own nonce from step 1 on and the server's next nonce    *)
(* from step 3 on; it seals a commit only after the server's step 4.       *)
ClientOK(s, c, srv) ==
    /\ c \in Clients
    /\ c.out # <<>> => c.state \in {"STEP1", "STEP3", "COMMIT"}
    /\ c.result = "success" => c.state = "end"
    /\ c.state \in {"idle", "BEGIN", "STEP1", "STEP3", "COMMIT"} => c.quit = FALSE
    /\ c.state \in {"STEP3", "COMMIT"} \/ c.quit = TRUE => c.msg # None
    /\ c.msg # None => GoodReply(c.msg, srv)
    /\ \/ c.state \in {"STEP2", "STEP3", "STEP4"} \/ Unsealed(c)
       \/ c.state = "STEP1" /\ c.out # <<>>
       => c.rxNonce = RunNonce(s)
    /\ \/ c.state = "STEP3" /\ c.out # <<>>
       \/ c.state = "STEP4" \/ Unsealed(c)
       => c.txNonce = ServerNonce(1)
    /\ Sealed(c) \/ c.result = "success" => Paired(s, c, srv)

PairingInv ==
    /\ DOMAIN client = Sessions /\ DOMAIN notes = Sessions
    /\ ServerOK(server)
    /\ \A s \in Sessions : ClientOK(s, client[s], server) /\ NotesOK(notes[s], server)
    /\ troubled \in BOOLEAN

-----------------------------------------------------------------------------
(* The reassembly of writes.                                               *)

(* A message is cut into fragments, at least one.                          *)
LEMMA FragmentsTyped ==
    ASSUME NEW m \in Message
    PROVE  Fragments(m) \in Seq(Fragment) /\ Fragments(m) # <<>>
<1>1. PkgLen[m.kind] \in Nat \ {0}
  BY DEF Message, Kinds
<1> DEFINE n == FragCount(m)
<1>2. n \in Nat \ {0}
  <2>1. ASSUME NEW b \in Nat \ {0} PROVE (b + 20 - 1) \div 20 \in Nat \ {0}
    OBVIOUS
  <2> QED BY <1>1, <2>1 DEF FragCount, BLE_ATT_MAX_BYTES
<1>3. Fragments(m) = [k \in 1 .. n |-> [msg |-> m, i |-> k]]
  BY DEF Fragments
<1> HIDE DEF n
<1>4. \A k \in 1 .. n : [msg |-> m, i |-> k] \in Fragment
  <2>1. \A k \in 1 .. n : k \in Nat
    BY <1>2
  <2> QED BY <2>1 DEF Fragment
<1>5. Fragments(m) \in Seq(Fragment) /\ Len(Fragments(m)) = n
  BY <1>2, <1>3, <1>4
<1> QED BY <1>2, <1>5

(* The length of a fragment, and what it may announce, are numbers.        *)
LEMMA FragmentLength ==
    ASSUME NEW f \in Fragment, NEW len \in Announced(f)
    PROVE  FragLen(f) \in Int /\ getDataLength(f, len) \in Nat
<1>1. PkgLen[f.msg.kind] \in Nat /\ f.i \in Nat
  BY DEF Fragment, Message, Kinds
<1>2. FragLen(f) \in Int
  BY <1>1 DEF FragLen, BLE_ATT_MAX_BYTES
<1>3. getDataLength(f, len) \in Nat
  BY <1>1 DEF getDataLength, Announced
<1> QED BY <1>2, <1>3

(* The empty buffer.                                                       *)
LEMMA EmptyRecvTyped == EmptyRecv \in Recvs /\ EmptyRecv.recv_len <= EmptyRecv.data_len
<1>1. <<>> \in Seq(Fragment)
  OBVIOUS
<1> HIDE DEF Fragment
<1> QED BY <1>1 DEF EmptyRecv, Recvs

(* copyData keeps the buffer's type and never passes its end.              *)
LEMMA CopyTyped ==
    ASSUME NEW r \in Recvs, NEW f \in Fragment, FragLen(f) \in Int, r.recv_len <= r.data_len
    PROVE  /\ copyData(r, f) \in Recvs
           /\ copyData(r, f).recv_len <= copyData(r, f).data_len
<1>1. Append(r.data, f) \in Seq(Fragment)
  BY DEF Recvs
<1>2. r.recv_len + FragLen(f) \in Int
  BY DEF Recvs
<1>3. CASE Fits(r, f)
  <2>1. copyData(r, f) = [r EXCEPT !.data = Append(@, f), !.recv_len = @ + FragLen(f)]
    BY <1>3 DEF copyData
  <2>2. r.recv_len + FragLen(f) <= r.data_len
    BY <1>3 DEF Fits
  <2> QED BY <1>1, <1>2, <2>1, <2>2 DEF Recvs
<1>4. CASE ~Fits(r, f)
  BY <1>4 DEF copyData
<1> QED BY <1>3, <1>4

(* So does recvData, whatever the buffer held and whoever wrote.           *)
LEMMA RecvTyped ==
    ASSUME NEW r \in Recvs, NEW f \in Fragment, NEW len \in Announced(f),
           r.recv_len <= r.data_len
    PROVE  /\ recvData(r, f, len) \in Recvs
           /\ recvData(r, f, len).recv_len <= recvData(r, f, len).data_len
<1> DEFINE fresh == [r EXCEPT !.alloc = TRUE, !.recv_len = 0,
                              !.data_len = getDataLength(f, len)]
<1>1. getDataLength(f, len) \in Nat /\ FragLen(f) \in Int
  BY FragmentLength
<1>2. fresh \in Recvs /\ fresh.recv_len <= fresh.data_len
  <2> DEFINE d == getDataLength(f, len)
  <2>1. d \in Nat
    BY <1>1
  <2> HIDE DEF d
  <2>2. [r EXCEPT !.alloc = TRUE, !.recv_len = 0, !.data_len = d] \in Recvs
    <3>1. d \in Nat /\ 0 \in Int /\ r \in Recvs
      BY <2>1
    <3> QED BY ONLY <3>1 DEF Recvs
  <2>3. /\ [r EXCEPT !.alloc = TRUE, !.recv_len = 0, !.data_len = d].recv_len = 0
        /\ [r EXCEPT !.alloc = TRUE, !.recv_len = 0, !.data_len = d].data_len = d
    BY <2>1 DEF Recvs
  <2>4. 0 <= d
    BY <2>1
  <2> QED BY <2>2, <2>3, <2>4 DEF d
<1>3. ASSUME NEW c \in Recvs, c.recv_len <= c.data_len,
             NEW st \in {"NONE", "GOT_PREV_DATA", "FINISHED_SUCCESS"}
      PROVE  /\ [c EXCEPT !.status = st] \in Recvs
             /\ [c EXCEPT !.status = st].recv_len <= [c EXCEPT !.status = st].data_len
  BY <1>3 DEF Recvs
<1> HIDE DEF fresh
<1>4. CASE r.status = "NONE" /\ ~r.alloc
  <2> DEFINE c == copyData(fresh, f)
  <2>1. c \in Recvs /\ c.recv_len <= c.data_len
    BY <1>1, <1>2, CopyTyped
  <2>2. recvData(r, f, len) =
          IF ~Fits(fresh, f) THEN fresh
          ELSE [c EXCEPT !.status = IF isRecvFullPkg(c)
                                    THEN "FINISHED_SUCCESS" ELSE "GOT_PREV_DATA"]
    BY <1>4 DEF recvData, fresh
  <2> HIDE DEF c
  <2>3. CASE ~Fits(fresh, f)
    BY <1>2, <2>2, <2>3
  <2>4. CASE Fits(fresh, f)
    <3>1. CASE isRecvFullPkg(c)
      BY <1>3, <2>1, <2>2, <2>4, <3>1
    <3>2. CASE ~isRecvFullPkg(c)
      BY <1>3, <2>1, <2>2, <2>4, <3>2
    <3> QED BY <3>1, <3>2
  <2> QED BY <2>3, <2>4
<1>5. CASE r.status = "GOT_PREV_DATA"
  <2> DEFINE c == copyData(r, f)
  <2>1. c \in Recvs /\ c.recv_len <= c.data_len
    BY <1>1, CopyTyped
  <2>2. recvData(r, f, len) =
          [c EXCEPT !.status = IF isRecvFullPkg(c) THEN "FINISHED_SUCCESS" ELSE @]
    BY <1>5 DEF recvData
  <2> HIDE DEF c
  <2>3. c.status \in {"NONE", "GOT_PREV_DATA", "FINISHED_SUCCESS"}
    BY <2>1 DEF Recvs
  <2>4. CASE isRecvFullPkg(c)
    BY <1>3, <2>1, <2>2, <2>4
  <2>5. CASE ~isRecvFullPkg(c)
    <3>1. recvData(r, f, len) = [c EXCEPT !.status = c.status]
      BY <2>2, <2>5
    <3> QED BY <1>3, <2>1, <2>3, <3>1
  <2> QED BY <2>4, <2>5
<1>6. CASE ~(r.status = "NONE" /\ ~r.alloc) /\ r.status # "GOT_PREV_DATA"
  <2>1. recvData(r, f, len) = r
    BY <1>6 DEF recvData
  <2> QED BY <2>1
<1> QED BY <1>4, <1>5, <1>6

-----------------------------------------------------------------------------
(* A write at the server.                                                  *)

(* The server in the middle of a write.                                    *)
Busy == [fsm : RestStates \cup {"PAIRING_STEP3"},
         event : RestEvents \cup {"C_WRITE_STEP1", "C_WRITE_STEP3", "C_WRITE_COMMIT"},
         recv : Recvs, draws : Nat,
         admin_key : Keys, server_nonce : Nonces, client_nonce : Nonces,
         reply : Replies \cup {None}, crypt : Crypts \cup {None}]

(* A server at rest is one that may be busy, and the other way round.      *)
LEMMA RestingServer ==
    /\ \A srv \in Servers : srv \in Busy
    /\ \A srv \in Busy : srv.fsm \in RestStates /\ srv.event \in RestEvents => srv \in Servers
  BY DEF Servers, Busy

(* What an assignment leaves of the server: the one to the state.          *)
LEMMA SetMachine ==
    ASSUME NEW a \in Busy, NEW st \in RestStates \cup {"PAIRING_STEP3"}
    PROVE  LET b == [a EXCEPT !.fsm = st]
           IN  /\ b \in Busy /\ b.fsm = st
               /\ b.event = a.event /\ b.recv = a.recv /\ b.draws = a.draws
               /\ b.admin_key = a.admin_key /\ b.server_nonce = a.server_nonce
               /\ b.client_nonce = a.client_nonce /\ b.reply = a.reply /\ b.crypt = a.crypt
  BY DEF Busy

(* The event.                                                              *)
LEMMA SetEvent ==
    ASSUME NEW a \in Busy,
           NEW ev \in RestEvents \cup {"C_WRITE_STEP1", "C_WRITE_STEP3", "C_WRITE_COMMIT"}
    PROVE  LET b == [a EXCEPT !.event = ev]
           IN  /\ b \in Busy /\ b.event = ev
               /\ b.fsm = a.fsm /\ b.recv = a.recv /\ b.draws = a.draws
               /\ b.admin_key = a.admin_key /\ b.server_nonce = a.server_nonce
               /\ b.client_nonce = a.client_nonce /\ b.reply = a.reply /\ b.crypt = a.crypt
  BY DEF Busy

(* The buffer.                                                             *)
LEMMA SetBuffer ==
    ASSUME NEW a \in Busy, NEW r \in Recvs
    PROVE  LET b == [a EXCEPT !.recv = r]
           IN  /\ b \in Busy /\ b.recv = r
               /\ b.fsm = a.fsm /\ b.event = a.event /\ b.draws = a.draws
               /\ b.admin_key = a.admin_key /\ b.server_nonce = a.server_nonce
               /\ b.client_nonce = a.client_nonce /\ b.reply = a.reply /\ b.crypt = a.crypt
  BY DEF Busy

(* The rows of the table.                                                  *)
LEMMA Rows ==
    /\ TransTable["C_WRITE_STEP1"].cur_state = "PAIRING_BEGIN"
    /\ TransTable["C_WRITE_STEP1"].next_state = "PAIRING_STEP1"
    /\ TransTable["S_REPLY_STEP2"].cur_state = "PAIRING_STEP1"
    /\ TransTable["S_REPLY_STEP2"].next_state = "PAIRING_STEP2"
    /\ TransTable["C_WRITE_STEP3"].cur_state = "PAIRING_STEP2"
    /\ TransTable["C_WRITE_STEP3"].next_state = "PAIRING_STEP3"
    /\ TransTable["S_REPLY_STEP4"].cur_state = "PAIRING_STEP3"
    /\ TransTable["S_REPLY_STEP4"].next_state = "PAIRING_STEP4"
    /\ TransTable["C_WRITE_COMMIT"].cur_state = "PAIRING_STEP4"
    /\ TransTable["C_WRITE_COMMIT"].next_state = "PAIRING_COMPLETE"
    /\ TransTable["S_PAIRING_COMPLETE"].cur_state = "PAIRING_COMPLETE"
    /\ TransTable["S_PAIRING_COMPLETE"].next_state = "SET_WIFI_BEGIN"
  BY DEF TransTable

(* The key a package is decoded to is that of a run, or a mixture.         *)
LEMMA DecodedKey ==
    ASSUME NEW r \in Recvs, NEW decodes
    PROVE  PublicKey(r, decodes) \in Sessions \cup {Junk, None}
<1>1. CASE r.data = <<>>
  BY <1>1 DEF PublicKey
<1>2. CASE r.data # <<>>
  <2>1. r.data[1] \in Fragment
    BY <1>2 DEF Recvs
  <2>2. r.data[1].msg.s \in Sessions
    BY <2>1 DEF Fragment, Message
  <2> QED BY <1>2, <2>2 DEF PublicKey
<1> QED BY <1>1, <1>2

(* server_gen_pairing_step2 draws a nonce and a key pair; it keeps what    *)
(* belongs to a pairing that is over, and replies only if it succeeds.     *)
LEMMA ReplyStep2 ==
    ASSUME NEW a \in Busy, NEW luck, NEW decodes
    PROVE  LET r == handleReplyStep2(a, luck, decodes)
           IN  /\ r.ret \in {0, 1}
               /\ r.srv \in Busy
               /\ r.srv.fsm = a.fsm /\ r.srv.event = a.event
               /\ r.srv.recv = a.recv \/ r.srv.recv = EmptyRecv
               /\ r.srv.client_nonce = a.client_nonce /\ r.srv.crypt = a.crypt
               /\ r.ret = 1 => r.srv.reply = a.reply
               /\ r.ret = 0 => /\ r.srv.server_nonce = ServerNonce(0)
                               /\ r.srv.reply = Step2(r.srv.draws, ServerNonce(0))
<1> DEFINE public == PublicKey(a.recv, decodes)
           nonce  == ServerNonce(0)
           drawn  == [a EXCEPT !.server_nonce = nonce]
           keyed  == [drawn EXCEPT !.draws = @ + 1]
           shared == [keyed EXCEPT !.admin_key = <<public, keyed.draws>>]
           done   == [shared EXCEPT !.reply = Step2(shared.draws, nonce),
                                    !.recv = resetRecvData(@)]
           r      == handleReplyStep2(a, luck, decodes)
<1>1. /\ public = None => r = Returns(1, a)
      /\ public # None /\ luck = "make_key" => r = Returns(1, drawn)
      /\ public # None /\ luck = "shared_secret" => r = Returns(1, keyed)
      /\ public # None /\ luck = "cast" => r = Returns(1, shared)
      /\ public # None /\ luck \notin {"make_key", "shared_secret", "cast"} => r = Returns(0, done)
  <2> HIDE DEF public
  <2>1. r = IF public = None THEN Returns(1, a)
            ELSE CASE luck = "make_key"      -> Returns(1, drawn)
                   [] luck = "shared_secret" -> Returns(1, keyed)
                   [] luck = "cast"          -> Returns(1, shared)
                   [] OTHER                  -> Returns(0, done)
    BY DEF handleReplyStep2, ServerNonce, public
  <2> HIDE DEF drawn, keyed, shared, done, r
  <2> QED BY <2>1
<1>2. public \in Sessions \cup {Junk, None}
  BY DecodedKey DEF Busy
<1>3. nonce \in Nonces
  BY DEF ServerNonce, Nonces
<1>4. /\ drawn \in Busy /\ drawn.fsm = a.fsm /\ drawn.event = a.event /\ drawn.recv = a.recv
      /\ drawn.client_nonce = a.client_nonce /\ drawn.crypt = a.crypt /\ drawn.reply = a.reply
      /\ drawn.server_nonce = nonce
  <2> HIDE DEF nonce
  <2> QED BY <1>3 DEF Busy
<1> HIDE DEF drawn
<1>5. /\ keyed \in Busy /\ keyed.fsm = a.fsm /\ keyed.event = a.event /\ keyed.recv = a.recv
      /\ keyed.client_nonce = a.client_nonce /\ keyed.crypt = a.crypt /\ keyed.reply = a.reply
      /\ keyed.server_nonce = nonce
  <2>1. drawn.draws + 1 \in Nat
    BY <1>4 DEF Busy
  <2> HIDE DEF nonce
  <2> QED BY <1>4, <2>1 DEF Busy
<1> HIDE DEF keyed
<1>6. public # None =>
      /\ shared \in Busy /\ shared.fsm = a.fsm /\ shared.event = a.event
      /\ shared.recv = a.recv
      /\ shared.client_nonce = a.client_nonce /\ shared.crypt = a.crypt
      /\ shared.reply = a.reply /\ shared.server_nonce = nonce
  <2> HAVE public # None
  <2>1. <<public, keyed.draws>> \in Keys
    BY <1>2, <1>5 DEF Keys, Busy
  <2> DEFINE k == <<public, keyed.draws>>
  <2>2. k \in Keys
    BY <2>1
  <2> HIDE DEF nonce, k, public
  <2>3. /\ [keyed EXCEPT !.admin_key = k] \in Busy
        /\ [keyed EXCEPT !.admin_key = k].fsm = keyed.fsm
        /\ [keyed EXCEPT !.admin_key = k].event = keyed.event
        /\ [keyed EXCEPT !.admin_key = k].recv = keyed.recv
        /\ [keyed EXCEPT !.admin_key = k].client_nonce = keyed.client_nonce
        /\ [keyed EXCEPT !.admin_key = k].crypt = keyed.crypt
        /\ [keyed EXCEPT !.admin_key = k].reply = keyed.reply
        /\ [keyed EXCEPT !.admin_key = k].server_nonce = keyed.server_nonce
    BY <1>5, <2>2 DEF Busy
  <2> QED BY <1>5, <2>3 DEF k
<1> HIDE DEF shared
<1>7. public # None =>
      /\ done \in Busy /\ done.fsm = a.fsm /\ done.event = a.event /\ done.recv = EmptyRecv
      /\ done.client_nonce = a.client_nonce /\ done.crypt = a.crypt
      /\ done.reply = Step2(done.draws, nonce) /\ done.server_nonce = nonce
  <2> HAVE public # None
  <2>1. shared.draws \in Nat /\ EmptyRecv \in Recvs
    BY <1>6, EmptyRecvTyped DEF Busy
  <2>2. Step2(shared.draws, nonce) \in Replies
    <3> HIDE DEF nonce
    <3> QED BY <1>3, <2>1 DEF Step2, Replies, Keys
  <2> DEFINE rep == Step2(shared.draws, nonce)
  <2>3. rep \in Replies
    BY <2>2
  <2> HIDE DEF nonce, rep, public
  <2>4. LET b == [shared EXCEPT !.reply = rep, !.recv = EmptyRecv]
        IN  /\ b \in Busy /\ b.fsm = shared.fsm /\ b.event = shared.event
            /\ b.recv = EmptyRecv /\ b.client_nonce = shared.client_nonce
            /\ b.crypt = shared.crypt /\ b.reply = rep /\ b.draws = shared.draws
            /\ b.server_nonce = shared.server_nonce
    BY <1>6, <2>1, <2>3 DEF Busy
  <2> QED BY <1>6, <2>4 DEF rep, resetRecvData
<1> HIDE DEF done, public, nonce, r
<1>8. \A ret, b : Returns(ret, b).ret = ret /\ Returns(ret, b).srv = b
  BY DEF Returns
<1> SUFFICES
      /\ r.ret \in {0, 1}
      /\ r.srv \in Busy
      /\ r.srv.fsm = a.fsm /\ r.srv.event = a.event
      /\ r.srv.recv = a.recv \/ r.srv.recv = EmptyRecv
      /\ r.srv.client_nonce = a.client_nonce /\ r.srv.crypt = a.crypt
      /\ r.ret = 1 => r.srv.reply = a.reply
      /\ r.ret = 0 => /\ r.srv.server_nonce = nonce
                      /\ r.srv.reply = Step2(r.srv.draws, nonce)
  BY DEF r, nonce
<1>9. CASE public = None
  <2>1. r.ret = 1 /\ r.srv = a
    BY <1>1, <1>8, <1>9
  <2> QED BY <2>1
<1>10. CASE public # None /\ luck = "make_key"
  <2>1. r.ret = 1 /\ r.srv = drawn
    BY <1>1, <1>8, <1>10
  <2> QED BY <1>4, <2>1
<1>11. CASE public # None /\ luck = "shared_secret"
  <2>1. r.ret = 1 /\ r.srv = keyed
    BY <1>1, <1>8, <1>11
  <2> QED BY <1>5, <2>1
<1>12. CASE public # None /\ luck = "cast"
  <2>1. r.ret = 1 /\ r.srv = shared
    BY <1>1, <1>8, <1>12
  <2> QED BY <1>6, <1>12, <2>1
<1>13. CASE public # None /\ luck \notin {"make_key", "shared_secret", "cast"}
  <2>1. r.ret = 0 /\ r.srv = done
    BY <1>1, <1>8, <1>13
  <2> QED BY <1>7, <1>13, <2>1
<1> QED BY <1>9, <1>10, <1>11, <1>12, <1>13

(* Nonces and their successors.                                            *)
LEMMA NonceFacts ==
    /\ ServerNonce(0) \in Nonces /\ ServerNonce(1) \in Nonces
    /\ ServerNonce(0) # None /\ ServerNonce(1) # None
    /\ incrementNonce(ServerNonce(0)) = ServerNonce(1)
    /\ \A s \in Sessions : RunNonce(s) \in Nonces /\ RunNonce(s) # None
    /\ \A n \in Nonces \ {None} : incrementNonce(n) \in Nonces
<1>1. /\ ServerNonce(0) \in Nonces /\ ServerNonce(1) \in Nonces
      /\ ServerNonce(0) # None /\ ServerNonce(1) # None
  <2>1. /\ ServerNonce(0) \in [by : Sessions \cup {"server"}, n : Nat]
        /\ ServerNonce(1) \in [by : Sessions \cup {"server"}, n : Nat]
    BY DEF ServerNonce
  <2> QED BY <2>1 DEF Nonces
<1>2. incrementNonce(ServerNonce(0)) = ServerNonce(1)
  BY DEF ServerNonce, incrementNonce
<1>3. ASSUME NEW s \in Sessions PROVE RunNonce(s) \in Nonces /\ RunNonce(s) # None
  <2>1. RunNonce(s) \in [by : Sessions \cup {"server"}, n : Nat]
    BY DEF RunNonce
  <2> QED BY <2>1 DEF Nonces
<1>4. ASSUME NEW n \in Nonces \ {None} PROVE incrementNonce(n) \in Nonces
  <2>1. n \in [by : Sessions \cup {"server"}, n : Nat]
    BY DEF Nonces
  <2>2. n.n + 1 \in Nat
    BY <2>1
  <2>3. incrementNonce(n) \in [by : Sessions \cup {"server"}, n : Nat]
    BY <2>1, <2>2 DEF incrementNonce
  <2> QED BY <2>3 DEF Nonces
<1> QED BY <1>1, <1>2, <1>3, <1>4

(* ig_pairing_step4 opens a step 3, or answers with nothing; whichever it  *)
(* is, the machine goes on.                                                *)
LEMMA ReplyStep4 ==
    ASSUME NEW a \in Busy, a.server_nonce = ServerNonce(0), a.client_nonce = None
    PROVE  LET r == handleReplyStep4(a)
           IN  /\ r.ret = 0
               /\ r.srv \in Busy
               /\ r.srv.fsm = a.fsm /\ r.srv.event = a.event /\ r.srv.recv = EmptyRecv
               /\ r.srv.admin_key = a.admin_key /\ r.srv.crypt = a.crypt
               /\ r.srv.server_nonce = ServerNonce(1) \/ r.srv.client_nonce = None
               /\ \/ r.srv.reply = EmptyReply
                  \/ r.srv.reply = Step4(r.srv.admin_key, r.srv.client_nonce)
<1> DEFINE body == a.recv.data[1].msg.body
           g    == ig_pairing_step4(a)
           r    == handleReplyStep4(a)
<1>1. /\ g \in Busy /\ g.fsm = a.fsm /\ g.event = a.event
      /\ g.admin_key = a.admin_key /\ g.crypt = a.crypt
      /\ g.server_nonce = ServerNonce(1) \/ g.client_nonce = None
      /\ g.reply = EmptyReply \/ g.reply = Step4(g.admin_key, g.client_nonce)
  <2>1. CASE ~Opens(a)
    <3>1. g = [a EXCEPT !.reply = EmptyReply]
      BY <2>1 DEF ig_pairing_step4
    <3>2. EmptyReply \in Replies
      BY DEF EmptyReply, Replies, Keys, Nonces
    <3> QED BY <3>1, <3>2 DEF Busy
  <2>2. CASE Opens(a)
    <3>1. a.recv.data # <<>> /\ a.recv.data \in Seq(Fragment)
      BY <2>2 DEF Opens, Whole, Busy, Recvs
    <3>2. a.recv.data[1] \in Fragment
      BY <3>1
    <3>3. body \in Nonces
      BY <3>2 DEF Fragment, Message
    <3> DEFINE next == incrementNonce(a.server_nonce)
               rep  == Step4(a.admin_key, body)
    <3>4. next = ServerNonce(1) /\ next \in Nonces
      BY NonceFacts
    <3>5. g = [a EXCEPT !.server_nonce = next, !.client_nonce = body, !.reply = rep]
      BY <2>2 DEF ig_pairing_step4
    <3>6. rep \in Replies
      <4> HIDE DEF body
      <4>1. a.admin_key \in Keys
        BY DEF Busy
      <4> QED BY <3>3, <4>1 DEF Step4, Replies
    <3> HIDE DEF next, body, g
    <3>7. /\ g.admin_key = a.admin_key /\ g.client_nonce = body /\ g.reply = rep
          /\ g \in Busy /\ g.fsm = a.fsm /\ g.event = a.event /\ g.crypt = a.crypt
          /\ g.server_nonce = next
      <4> HIDE DEF rep
      <4> QED BY <3>3, <3>4, <3>5, <3>6 DEF Busy
    <3> QED BY <3>4, <3>7
  <2> QED BY <2>1, <2>2
<1>2. r = Returns(0, [g EXCEPT !.recv = EmptyRecv])
  BY DEF handleReplyStep4, resetRecvData
<1> HIDE DEF g, r
<1>3. r.ret = 0 /\ r.srv = [g EXCEPT !.recv = EmptyRecv]
  BY <1>2 DEF Returns
<1>4. /\ r.srv \in Busy /\ r.srv.recv = EmptyRecv
      /\ r.srv.fsm = g.fsm /\ r.srv.event = g.event
      /\ r.srv.admin_key = g.admin_key /\ r.srv.server_nonce = g.server_nonce
      /\ r.srv.client_nonce = g.client_nonce /\ r.srv.reply = g.reply /\ r.srv.crypt = g.crypt
  BY <1>1, <1>3, EmptyRecvTyped, SetBuffer
<1>5. /\ r.ret = 0
      /\ r.srv \in Busy
      /\ r.srv.fsm = a.fsm /\ r.srv.event = a.event /\ r.srv.recv = EmptyRecv
      /\ r.srv.admin_key = a.admin_key /\ r.srv.crypt = a.crypt
      /\ r.srv.server_nonce = ServerNonce(1) \/ r.srv.client_nonce = None
      /\ \/ r.srv.reply = EmptyReply
         \/ r.srv.reply = Step4(r.srv.admin_key, r.srv.client_nonce)
  BY <1>1, <1>3, <1>4
<1> QED BY <1>5 DEF r

(* handlePairingComplete hands over the key of the pairing, or nothing.    *)
LEMMA ReplyComplete ==
    ASSUME NEW a \in Busy, NEW luck
    PROVE  LET r == handlePairingComplete(a, luck)
           IN  /\ r.ret \in {0, 1}
               /\ r.srv \in Busy
               /\ r.srv.fsm = a.fsm /\ r.srv.event = a.event /\ r.srv.recv = a.recv
               /\ r.srv.admin_key = a.admin_key /\ r.srv.server_nonce = a.server_nonce
               /\ r.srv.client_nonce = a.client_nonce /\ r.srv.reply = a.reply
               /\ r.srv.crypt = a.crypt \/ r.srv.crypt.key = a.admin_key
<1>1. CASE luck = "connect"
  BY <1>1 DEF handlePairingComplete, Returns
<1>2. CASE luck # "connect"
  <2> DEFINE k == [key |-> a.admin_key, server_nonce |-> a.server_nonce,
                   client_nonce |-> a.client_nonce]
             b == [a EXCEPT !.crypt = k]
             r == handlePairingComplete(a, luck)
  <2>1. k \in Crypts /\ k.key = a.admin_key
    BY DEF Crypts, Busy
  <2>2. r = Returns(0, b)
    BY <1>2 DEF handlePairingComplete
  <2>3. r.ret = 0 /\ r.srv = b
    <3> HIDE DEF r, b
    <3> QED BY <2>2 DEF Returns
  <2> HIDE DEF k
  <2>4. /\ b \in Busy
        /\ b.fsm = a.fsm /\ b.event = a.event /\ b.recv = a.recv
        /\ b.admin_key = a.admin_key /\ b.server_nonce = a.server_nonce
        /\ b.client_nonce = a.client_nonce /\ b.reply = a.reply /\ b.crypt = k
    BY <2>1 DEF Busy
  <2> HIDE DEF b, r
  <2>5. /\ r.ret \in {0, 1}
        /\ r.srv \in Busy
        /\ r.srv.fsm = a.fsm /\ r.srv.event = a.event /\ r.srv.recv = a.recv
        /\ r.srv.admin_key = a.admin_key /\ r.srv.server_nonce = a.server_nonce
        /\ r.srv.client_nonce = a.client_nonce /\ r.srv.reply = a.reply
        /\ r.srv.crypt = a.crypt \/ r.srv.crypt.key = a.admin_key
    BY <2>1, <2>3, <2>4
  <2> QED BY <2>5 DEF r
<1> QED BY <1>1, <1>2

(* handleEvent on an event that the machine is waiting for.                *)
LEMMA Moves ==
    ASSUME NEW a, NEW ev, NEW done, a.fsm = TransTable[ev].cur_state
    PROVE  handleEvent(a, ev, done) =
             IF done.ret = 0 THEN [done.srv EXCEPT !.fsm = TransTable[ev].next_state]
             ELSE done.srv
<1> DEFINE cur == TransTable[ev].cur_state
           nxt == TransTable[ev].next_state
<1>1. handleEvent(a, ev, done) = CASE a.fsm # cur -> a
                                   [] a.fsm = cur /\ done.ret = 0 -> [done.srv EXCEPT !.fsm = nxt]
                                   [] OTHER -> done.srv
  BY DEF handleEvent
<1>2. a.fsm = cur
  OBVIOUS
<1> HIDE DEF cur, nxt
<1>3. handleEvent(a, ev, done) = IF done.ret = 0 THEN [done.srv EXCEPT !.fsm = nxt]
                                 ELSE done.srv
  BY <1>1, <1>2
<1> QED BY <1>3 DEF nxt

(* The part of the client's event: the machine moves, the reply is next.   *)
LEMMA Logged ==
    ASSUME NEW a \in Busy, NEW ev, NEW e \in RestEvents,
           a.fsm = TransTable[ev].cur_state,
           TransTable[ev].next_state \in RestStates \cup {"PAIRING_STEP3"}
    PROVE  LET raised == [a EXCEPT !.event = e]
               b      == handleEvent(raised, ev, JustLogs(raised))
           IN  /\ b \in Busy /\ b.fsm = TransTable[ev].next_state /\ b.event = e
               /\ b.recv = a.recv /\ b.draws = a.draws
               /\ b.admin_key = a.admin_key /\ b.server_nonce = a.server_nonce
               /\ b.client_nonce = a.client_nonce /\ b.reply = a.reply /\ b.crypt = a.crypt
<1> DEFINE raised == [a EXCEPT !.event = e]
           b      == handleEvent(raised, ev, JustLogs(raised))
           nxt    == TransTable[ev].next_state
<1>1. /\ raised \in Busy /\ raised.event = e
      /\ raised.fsm = a.fsm /\ raised.recv = a.recv /\ raised.draws = a.draws
      /\ raised.admin_key = a.admin_key /\ raised.server_nonce = a.server_nonce
      /\ raised.client_nonce = a.client_nonce /\ raised.reply = a.reply
      /\ raised.crypt = a.crypt
  BY SetEvent
<1> HIDE DEF raised
<1>2. JustLogs(raised).ret = 0 /\ JustLogs(raised).srv = raised
  BY DEF JustLogs, Returns
<1>3. b = [raised EXCEPT !.fsm = nxt]
  BY <1>1, <1>2, Moves
<1>4. nxt \in RestStates \cup {"PAIRING_STEP3"}
  OBVIOUS
<1> HIDE DEF b, nxt
<1>5. /\ b \in Busy /\ b.fsm = nxt
      /\ b.event = raised.event /\ b.recv = raised.recv /\ b.draws = raised.draws
      /\ b.admin_key = raised.admin_key /\ b.server_nonce = raised.server_nonce
      /\ b.client_nonce = raised.client_nonce /\ b.reply = raised.reply
      /\ b.crypt = raised.crypt
  BY <1>1, <1>3, <1>4, SetMachine
<1>6. /\ b \in Busy /\ b.fsm = nxt /\ b.event = e
      /\ b.recv = a.recv /\ b.draws = a.draws
      /\ b.admin_key = a.admin_key /\ b.server_nonce = a.server_nonce
      /\ b.client_nonce = a.client_nonce /\ b.reply = a.reply /\ b.crypt = a.crypt
  BY <1>1, <1>5
<1> QED BY <1>6 DEF b, raised, nxt

(* What no write takes back: once a step 3 was answered, the server keeps  *)
(* its key and the nonce it was given.                                     *)
Kept(srv, later) ==
    srv.fsm \in AfterStep4 => /\ later.fsm \in AfterStep4
                              /\ later.admin_key = srv.admin_key
                              /\ later.client_nonce = srv.client_nonce

(* What a write may leave behind.                                          *)
WriteOK(srv, later) ==
    /\ ServerOK(later)
    /\ Kept(srv, later)
    /\ later.reply # None => later.reply \in Replies /\ GoodReply(later.reply, later)

(* The server with the fragment in its buffer.                             *)
Got(srv, f, len) == [srv EXCEPT !.recv = recvData(@, f, len), !.reply = None]

(* It is in the state it was in.                                           *)
LEMMA GotFragment ==
    ASSUME NEW srv, ServerOK(srv), NEW f \in Fragment, NEW len \in Announced(f)
    PROVE  LET got == Got(srv, f, len)
           IN  /\ got \in Servers /\ got.recv.recv_len <= got.recv.data_len
               /\ got.fsm = srv.fsm /\ got.event = srv.event /\ got.draws = srv.draws
               /\ got.admin_key = srv.admin_key /\ got.server_nonce = srv.server_nonce
               /\ got.client_nonce = srv.client_nonce /\ got.reply = None
               /\ got.crypt = srv.crypt
<1> DEFINE r == recvData(srv.recv, f, len)
<1>1. srv \in Servers /\ srv.recv \in Recvs /\ srv.recv.recv_len <= srv.recv.data_len
  BY DEF ServerOK, Servers
<1>2. r \in Recvs /\ r.recv_len <= r.data_len
  BY <1>1, RecvTyped
<1> HIDE DEF r
<1>3. LET got == [srv EXCEPT !.recv = r, !.reply = None]
      IN  /\ got \in Servers /\ got.recv = r
          /\ got.fsm = srv.fsm /\ got.event = srv.event /\ got.draws = srv.draws
          /\ got.admin_key = srv.admin_key /\ got.server_nonce = srv.server_nonce
          /\ got.client_nonce = srv.client_nonce /\ got.reply = None
          /\ got.crypt = srv.crypt
  BY <1>1, <1>2 DEF Servers
<1> QED BY <1>2, <1>3 DEF r, Got

(* A package in PAIRING_BEGIN.                                             *)
LEMMA BeginPackage ==
    ASSUME NEW got \in Servers, got.recv.recv_len <= got.recv.data_len, got.reply = None,
           got.fsm = "PAIRING_BEGIN", got.client_nonce = None, got.crypt = None,
           NEW luck, NEW decodes
    PROVE  WriteOK(got, handleClientEvent(decideEvent(got), luck, decodes))
<1> DEFINE d == [got EXCEPT !.event = "C_WRITE_STEP1"]
           raised == [d EXCEPT !.event = "S_REPLY_STEP2"]
           b == handleEvent(raised, "C_WRITE_STEP1", JustLogs(raised))
           r == handleReplyStep2(b, luck, decodes)
           new == handleClientEvent(decideEvent(got), luck, decodes)
<1>1. got \in Busy
  BY RestingServer
<1>2. decideEvent(got) = d
  BY DEF decideEvent
<1>3. /\ d \in Busy /\ d.event = "C_WRITE_STEP1"
      /\ d.fsm = "PAIRING_BEGIN" /\ d.recv = got.recv
      /\ d.client_nonce = None /\ d.reply = None /\ d.crypt = None
  BY <1>1, SetEvent
<1>4. new = handleEvent(b, "S_REPLY_STEP2", r)
  <2> HIDE DEF d
  <2> QED BY <1>2, <1>3 DEF handleClientEvent
<1> HIDE DEF d
<1>5. /\ b \in Busy /\ b.fsm = "PAIRING_STEP1" /\ b.event = "S_REPLY_STEP2"
      /\ b.recv = d.recv /\ b.client_nonce = d.client_nonce /\ b.reply = d.reply
      /\ b.crypt = d.crypt
  <2>1. "S_REPLY_STEP2" \in RestEvents /\ "PAIRING_STEP1" \in RestStates
    BY DEF RestEvents, RestStates
  <2> QED BY <1>3, <2>1, Logged, Rows
<1> HIDE DEF raised, b, new
<1>6. /\ r.ret \in {0, 1}
      /\ r.srv \in Busy
      /\ r.srv.fsm = b.fsm /\ r.srv.event = b.event
      /\ r.srv.recv = b.recv \/ r.srv.recv = EmptyRecv
      /\ r.srv.client_nonce = b.client_nonce /\ r.srv.crypt = b.crypt
      /\ r.ret = 1 => r.srv.reply = b.reply
      /\ r.ret = 0 => /\ r.srv.server_nonce = ServerNonce(0)
                      /\ r.srv.reply = Step2(r.srv.draws, ServerNonce(0))
  BY <1>5, ReplyStep2
<1> HIDE DEF r
<1>7. new = IF r.ret = 0 THEN [r.srv EXCEPT !.fsm = "PAIRING_STEP2"] ELSE r.srv
  BY <1>4, <1>5, Moves, Rows
<1>8. r.srv.recv.recv_len <= r.srv.recv.data_len
  BY <1>3, <1>5, <1>6, EmptyRecvTyped
<1>9. CASE r.ret = 1
  <2>1. new = r.srv
    BY <1>7, <1>9
  <2>2. new \in Servers
    BY <1>5, <1>6, <2>1, RestingServer DEF RestStates, RestEvents
  <2>3. new.fsm = "PAIRING_STEP1" /\ new.client_nonce = None /\ new.crypt = None
        /\ new.reply = None /\ new.recv.recv_len <= new.recv.data_len
    BY <1>3, <1>5, <1>6, <1>8, <1>9, <2>1
  <2> QED BY <2>2, <2>3 DEF WriteOK, ServerOK, Kept, AfterStep4, new
<1>10. CASE r.ret = 0
  <2>1. new = [r.srv EXCEPT !.fsm = "PAIRING_STEP2"]
    BY <1>7, <1>10
  <2>2. /\ new \in Busy /\ new.fsm = "PAIRING_STEP2"
        /\ new.event = r.srv.event /\ new.recv = r.srv.recv /\ new.draws = r.srv.draws
        /\ new.server_nonce = r.srv.server_nonce
        /\ new.client_nonce = r.srv.client_nonce /\ new.reply = r.srv.reply
        /\ new.crypt = r.srv.crypt
    <3>1. "PAIRING_STEP2" \in RestStates \cup {"PAIRING_STEP3"}
      BY DEF RestStates
    <3> QED BY <1>6, <2>1, <3>1, SetMachine
  <2>3. new \in Servers
    BY <1>5, <1>6, <2>2, RestingServer DEF RestStates, RestEvents
  <2>4. /\ new.client_nonce = None /\ new.crypt = None
        /\ new.recv.recv_len <= new.recv.data_len
        /\ new.server_nonce = ServerNonce(0)
        /\ new.reply = Step2(new.draws, ServerNonce(0))
    BY <1>3, <1>5, <1>6, <1>8, <1>10, <2>2
  <2>5. new.draws \in Nat
    BY <2>3 DEF Servers
  <2>6. new.reply \in Replies /\ GoodReply(new.reply, new)
    <3>1. new.reply \in Replies
      BY <2>4, <2>5, NonceFacts DEF Step2, Replies, Keys
    <3>2. new.reply.kind = "step2" /\ new.reply.nonce = ServerNonce(0)
      BY <2>4 DEF Step2
    <3> QED BY <3>1, <3>2 DEF GoodReply
  <2>7. ServerOK(new)
    BY <2>2, <2>3, <2>4 DEF ServerOK, AfterStep4
  <2>8. Kept(got, new)
    BY DEF Kept, AfterStep4
  <2> QED BY <2>6, <2>7, <2>8 DEF WriteOK, new
<1> QED BY <1>6, <1>9, <1>10

(* A package in PAIRING_STEP2.                                             *)
LEMMA Step3Package ==
    ASSUME NEW got \in Servers, got.reply = None,
           got.fsm = "PAIRING_STEP2", got.server_nonce = ServerNonce(0),
           got.client_nonce = None, got.crypt = None,
           NEW luck, NEW decodes
    PROVE  WriteOK(got, handleClientEvent(decideEvent(got), luck, decodes))
<1> DEFINE d == [got EXCEPT !.event = "C_WRITE_STEP3"]
           raised == [d EXCEPT !.event = "S_REPLY_STEP4"]
           b == handleEvent(raised, "C_WRITE_STEP3", JustLogs(raised))
           r == handleReplyStep4(b)
           new == handleClientEvent(decideEvent(got), luck, decodes)
<1>1. got \in Busy
  BY RestingServer
<1>2. decideEvent(got) = d
  BY DEF decideEvent
<1>3. /\ d \in Busy /\ d.event = "C_WRITE_STEP3"
      /\ d.fsm = "PAIRING_STEP2" /\ d.server_nonce = ServerNonce(0)
      /\ d.client_nonce = None /\ d.crypt = None
  BY <1>1, SetEvent
<1>4. new = handleEvent(b, "S_REPLY_STEP4", r)
  <2> HIDE DEF d
  <2> QED BY <1>2, <1>3 DEF handleClientEvent
<1> HIDE DEF d
<1>5. /\ b \in Busy /\ b.fsm = "PAIRING_STEP3" /\ b.event = "S_REPLY_STEP4"
      /\ b.server_nonce = ServerNonce(0) /\ b.client_nonce = None /\ b.crypt = None
  <2>1. "S_REPLY_STEP4" \in RestEvents
    BY DEF RestEvents
  <2> QED BY <1>3, <2>1, Logged, Rows
<1> HIDE DEF raised, b, new
<1>6. /\ r.ret = 0
      /\ r.srv \in Busy
      /\ r.srv.fsm = b.fsm /\ r.srv.event = b.event /\ r.srv.recv = EmptyRecv
      /\ r.srv.admin_key = b.admin_key /\ r.srv.crypt = b.crypt
      /\ r.srv.server_nonce = ServerNonce(1) \/ r.srv.client_nonce = None
      /\ \/ r.srv.reply = EmptyReply
         \/ r.srv.reply = Step4(r.srv.admin_key, r.srv.client_nonce)
  BY <1>5, ReplyStep4
<1> HIDE DEF r
<1>7. new = [r.srv EXCEPT !.fsm = "PAIRING_STEP4"]
  BY <1>4, <1>5, <1>6, Moves, Rows
<1>8. /\ new \in Busy /\ new.fsm = "PAIRING_STEP4"
      /\ new.event = r.srv.event /\ new.recv = r.srv.recv
      /\ new.admin_key = r.srv.admin_key /\ new.server_nonce = r.srv.server_nonce
      /\ new.client_nonce = r.srv.client_nonce /\ new.reply = r.srv.reply
      /\ new.crypt = r.srv.crypt
  <2>1. "PAIRING_STEP4" \in RestStates \cup {"PAIRING_STEP3"}
    BY DEF RestStates
  <2> QED BY <1>6, <1>7, <2>1, SetMachine
<1>9. new \in Servers
  BY <1>5, <1>6, <1>8, RestingServer DEF RestStates, RestEvents
<1>10. /\ new.crypt = None /\ new.recv = EmptyRecv
       /\ new.server_nonce = ServerNonce(1) \/ new.client_nonce = None
       /\ new.reply = EmptyReply \/ new.reply = Step4(new.admin_key, new.client_nonce)
  BY <1>5, <1>6, <1>8
<1>11. ServerOK(new)
  BY <1>8, <1>9, <1>10, EmptyRecvTyped DEF ServerOK, AfterStep4
<1>12. Kept(got, new)
  BY DEF Kept, AfterStep4
<1>13. new.reply # None => new.reply \in Replies /\ GoodReply(new.reply, new)
  <2> HAVE new.reply # None
  <2>1. new.reply \in Replies
    BY <1>9 DEF Servers
  <2>2. CASE new.reply = EmptyReply
    BY <2>1, <2>2 DEF EmptyReply, GoodReply
  <2>3. CASE new.reply = Step4(new.admin_key, new.client_nonce)
    <3>1. new.reply.kind = "step4" /\ new.reply.key = new.admin_key
          /\ new.reply.nonce = new.client_nonce
      BY <2>3 DEF Step4
    <3> QED BY <1>8, <2>1, <3>1 DEF GoodReply, AfterStep4
  <2> QED BY <1>10, <2>2, <2>3
<1> QED BY <1>11, <1>12, <1>13 DEF WriteOK, new

(* A package in PAIRING_STEP4.                                             *)
LEMMA CommitPackage ==
    ASSUME NEW got \in Servers, got.recv.recv_len <= got.recv.data_len, got.reply = None,
           got.fsm = "PAIRING_STEP4",
           got.server_nonce = ServerNonce(1) \/ got.client_nonce = None,
           got.crypt # None => got.crypt.key = got.admin_key,
           NEW luck, NEW decodes
    PROVE  WriteOK(got, handleClientEvent(decideEvent(got), luck, decodes))
<1> DEFINE d == [got EXCEPT !.event = "C_WRITE_COMMIT"]
           raised == [d EXCEPT !.event = "S_PAIRING_COMPLETE"]
           b == handleEvent(raised, "C_WRITE_COMMIT", JustLogs(raised))
           r == handlePairingComplete(b, luck)
           new == handleClientEvent(decideEvent(got), luck, decodes)
<1>1. got \in Busy
  BY RestingServer
<1>2. decideEvent(got) = d
  BY DEF decideEvent
<1>3. /\ d \in Busy /\ d.event = "C_WRITE_COMMIT" /\ d.fsm = "PAIRING_STEP4"
      /\ d.recv = got.recv /\ d.admin_key = got.admin_key
      /\ d.server_nonce = got.server_nonce /\ d.client_nonce = got.client_nonce
      /\ d.reply = None /\ d.crypt = got.crypt
  BY <1>1, SetEvent
<1>4. new = handleEvent(b, "S_PAIRING_COMPLETE", r)
  <2> HIDE DEF d
  <2> QED BY <1>2, <1>3 DEF handleClientEvent
<1> HIDE DEF d
<1>5. /\ b \in Busy /\ b.fsm = "PAIRING_COMPLETE" /\ b.event = "S_PAIRING_COMPLETE"
      /\ b.recv = d.recv /\ b.admin_key = d.admin_key
      /\ b.server_nonce = d.server_nonce /\ b.client_nonce = d.client_nonce
      /\ b.reply = d.reply /\ b.crypt = d.crypt
  <2>1. "S_PAIRING_COMPLETE" \in RestEvents /\ "PAIRING_COMPLETE" \in RestStates
    BY DEF RestEvents, RestStates
  <2> QED BY <1>3, <2>1, Logged, Rows
<1> HIDE DEF raised, b, new
<1>6. /\ r.ret \in {0, 1}
      /\ r.srv \in Busy
      /\ r.srv.fsm = b.fsm /\ r.srv.event = b.event /\ r.srv.recv = b.recv
      /\ r.srv.admin_key = b.admin_key /\ r.srv.server_nonce = b.server_nonce
      /\ r.srv.client_nonce = b.client_nonce /\ r.srv.reply = b.reply
      /\ r.srv.crypt = b.crypt \/ r.srv.crypt.key = b.admin_key
  BY <1>5, ReplyComplete
<1> HIDE DEF r
<1>7. new = IF r.ret = 0 THEN [r.srv EXCEPT !.fsm = "SET_WIFI_BEGIN"] ELSE r.srv
  BY <1>4, <1>5, Moves, Rows
<1>8. /\ new \in Busy /\ new.fsm \in {"PAIRING_COMPLETE", "SET_WIFI_BEGIN"}
      /\ new.event = r.srv.event /\ new.recv = r.srv.recv
      /\ new.admin_key = r.srv.admin_key /\ new.server_nonce = r.srv.server_nonce
      /\ new.client_nonce = r.srv.client_nonce /\ new.reply = r.srv.reply
      /\ new.crypt = r.srv.crypt
  <2>1. CASE r.ret = 0
    <3>1. "SET_WIFI_BEGIN" \in RestStates \cup {"PAIRING_STEP3"}
      BY DEF RestStates
    <3>2. new = [r.srv EXCEPT !.fsm = "SET_WIFI_BEGIN"]
      BY <1>7, <2>1
    <3> QED BY <1>6, <3>1, <3>2, SetMachine
  <2>2. CASE r.ret = 1
    <3>1. new = r.srv
      BY <1>7, <2>2
    <3> QED BY <1>5, <1>6, <3>1
  <2> QED BY <1>6, <2>1, <2>2
<1>9. new \in Servers
  BY <1>5, <1>6, <1>8, RestingServer DEF RestStates, RestEvents
<1>10. /\ new.recv.recv_len <= new.recv.data_len
       /\ new.admin_key = got.admin_key
       /\ new.server_nonce = got.server_nonce /\ new.client_nonce = got.client_nonce
       /\ new.reply = None
       /\ new.crypt = got.crypt \/ new.crypt.key = got.admin_key
  BY <1>3, <1>5, <1>6, <1>8
<1>11. ServerOK(new)
  BY <1>8, <1>9, <1>10 DEF ServerOK, AfterStep4
<1>12. Kept(got, new)
  BY <1>8, <1>10 DEF Kept, AfterStep4
<1> QED BY <1>10, <1>11, <1>12 DEF WriteOK, new

(* A write never takes back what the server has agreed on, and what it     *)
(* answers is a step 2 with its fresh nonce or a step 4 sealed with the    *)
(* nonce it was given.                                                     *)
LEMMA WriteAtServer ==
    ASSUME NEW srv, ServerOK(srv), NEW f \in Fragment, NEW len \in Announced(f),
           NEW luck, NEW decodes
    PROVE  WriteOK(srv, chr_write_value(srv, f, len, luck, decodes))
<1> DEFINE got == Got(srv, f, len)
           new == chr_write_value(srv, f, len, luck, decodes)
<1>1. /\ got \in Servers /\ got.recv.recv_len <= got.recv.data_len
      /\ got.fsm = srv.fsm /\ got.event = srv.event /\ got.draws = srv.draws
      /\ got.admin_key = srv.admin_key /\ got.server_nonce = srv.server_nonce
      /\ got.client_nonce = srv.client_nonce /\ got.reply = None
      /\ got.crypt = srv.crypt
  BY GotFragment
<1>2. new = IF isRecvFullPkg(got.recv)
            THEN handleClientEvent(decideEvent(got), luck, decodes) ELSE got
  BY DEF chr_write_value, Got
<1> HIDE DEF got, new
<1>3. WriteOK(got, got)
  <2>1. ServerOK(got)
    BY <1>1 DEF ServerOK
  <2> QED BY <1>1, <2>1 DEF WriteOK, Kept
<1>4. /\ got.fsm \notin AfterStep4 => got.client_nonce = None /\ got.crypt = None
      /\ got.fsm = "PAIRING_STEP2" => got.server_nonce = ServerNonce(0)
      /\ got.fsm \in AfterStep4 =>
            got.server_nonce = ServerNonce(1) \/ got.client_nonce = None
      /\ got.crypt # None => got.crypt.key = got.admin_key
  BY ONLY <1>1, ServerOK(srv) DEF ServerOK
<1>5. WriteOK(got, new)
  <2>1. CASE ~isRecvFullPkg(got.recv)
    BY <1>2, <1>3, <2>1
  <2>2. CASE isRecvFullPkg(got.recv)
    <3>1. new = handleClientEvent(decideEvent(got), luck, decodes)
      BY <1>2, <2>2
    <3>2. CASE got.fsm = "PAIRING_BEGIN"
      BY <1>1, <1>4, <3>1, <3>2, BeginPackage DEF AfterStep4
    <3>3. CASE got.fsm = "PAIRING_STEP2"
      BY <1>1, <1>4, <3>1, <3>3, Step3Package DEF AfterStep4
    <3>4. CASE got.fsm = "PAIRING_STEP4"
      BY <1>1, <1>4, <3>1, <3>4, CommitPackage DEF AfterStep4
    <3>5. CASE got.fsm \notin {"PAIRING_BEGIN", "PAIRING_STEP2", "PAIRING_STEP4"}
      <4> DEFINE d == decideEvent(got)
      <4>1. d = [got EXCEPT !.event = got.event]
        BY <3>5 DEF decideEvent
      <4>2. d = got
        BY <1>1, <4>1 DEF Servers
      <4> HIDE DEF d
      <4>3. d.event \notin {"C_WRITE_STEP1", "C_WRITE_STEP3", "C_WRITE_COMMIT"}
        BY <1>1, <4>2 DEF Servers, RestEvents
      <4>4. handleClientEvent(d, luck, decodes) = d
        BY <4>3 DEF handleClientEvent
      <4> QED BY <1>3, <3>1, <4>2, <4>4 DEF d
    <3> QED BY <3>2, <3>3, <3>4, <3>5
  <2> QED BY <2>1, <2>2
<1>6. WriteOK(srv, new)
  BY <1>1, <1>5 DEF WriteOK, Kept
<1> QED BY <1>6 DEF new

-----------------------------------------------------------------------------
(* A run of the client.                                                    *)

(* What a run and its notifications rely on survives the writes of others. *)
LEMMA StaysGood ==
    ASSUME NEW s, NEW c, NEW ns, NEW srv, NEW later, Kept(srv, later)
    PROVE  /\ ClientOK(s, c, srv) => ClientOK(s, c, later)
           /\ NotesOK(ns, srv) => NotesOK(ns, later)
<1>1. \A r : GoodReply(r, srv) => GoodReply(r, later)
  BY DEF GoodReply, Kept
<1>2. Paired(s, c, srv) => Paired(s, c, later)
  BY DEF Paired, Kept
<1>3. ASSUME ClientOK(s, c, srv) PROVE ClientOK(s, c, later)
  BY <1>1, <1>2, <1>3 DEF ClientOK
<1>4. NotesOK(ns, srv) => NotesOK(ns, later)
  BY <1>1 DEF NotesOK
<1> QED BY <1>3, <1>4

(* A new run.                                                              *)
LEMMA NewClientOK ==
    ASSUME NEW s, NEW srv PROVE ClientOK(s, NewClient, srv) /\ NotesOK(<<>>, srv)
<1>1. NewClient \in Clients
  <2>1. <<>> \in Seq(Fragment) /\ None \in Keys /\ None \in Nonces
    BY DEF Keys, Nonces
  <2> QED BY <2>1 DEF NewClient, Clients, ClientStates
<1>2. /\ NewClient.state = "idle" /\ NewClient.out = <<>> /\ NewClient.quit = FALSE
      /\ NewClient.msg = None /\ NewClient.result = None
  BY DEF NewClient
<1>3. NotesOK(<<>>, srv)
  BY DEF NotesOK
<1> QED BY <1>1, <1>2, <1>3 DEF ClientOK, Unsealed, Sealed

(* Every error exit, at any point of a run.                                *)
LEMMA ErrorExitOK ==
    ASSUME NEW s, NEW c, NEW srv, ClientOK(s, c, srv)
    PROVE  /\ ClientOK(s, ErrorExit(c), srv)
           /\ ErrorExit(c) \in Clients
           /\ ErrorExit(c).state = "end" /\ ErrorExit(c).out = <<>>
           /\ ErrorExit(c).result = "err"
           /\ ErrorExit(c).quit = c.quit /\ ErrorExit(c).msg = c.msg
           /\ ErrorExit(c).rxNonce = c.rxNonce
<1> DEFINE d == ErrorExit(c)
<1>1. c \in Clients
  BY DEF ClientOK
<1>2. <<>> \in Seq(Fragment)
  OBVIOUS
<1>3. /\ d \in Clients
      /\ d.state = "end" /\ d.out = <<>> /\ d.result = "err" /\ d.quit = c.quit
      /\ d.msg = c.msg /\ d.rxNonce = c.rxNonce
  BY <1>1, <1>2 DEF ErrorExit, Clients, ClientStates, Ended
<1> HIDE DEF d
<1>4. ClientOK(s, d, srv)
  BY <1>3 DEF ClientOK, Unsealed, Sealed
<1> QED BY <1>3, <1>4 DEF d

(* A message of a run.                                                     *)
LEMMA MessageTyped ==
    ASSUME NEW s \in Sessions, NEW k \in Kinds, NEW key \in Keys, NEW nonce \in Nonces,
           NEW body \in Nonces
    PROVE  LET m == [kind |-> k, s |-> s, key |-> key, nonce |-> nonce, body |-> body]
           IN  Fragments(m) \in Seq(Fragment) /\ Fragments(m) # <<>>
<1> DEFINE m == [kind |-> k, s |-> s, key |-> key, nonce |-> nonce, body |-> body]
<1>1. m \in Message
  BY DEF Message
<1> HIDE DEF m
<1>2. Fragments(m) \in Seq(Fragment) /\ Fragments(m) # <<>>
  BY <1>1, FragmentsTyped
<1> QED BY <1>2 DEF m

(* addPairingTask and the subscription.                                    *)
LEMMA StartOK ==
    ASSUME NEW s, NEW c, NEW srv, ClientOK(s, c, srv)
    PROVE  /\ c.state = "idle" => ClientOK(s, [c EXCEPT !.state = "BEGIN"], srv)
           /\ c.state = "BEGIN" =>
                 ClientOK(s, [c EXCEPT !.state = "STEP1", !.pairing_step = "STEP1",
                                       !.notifying = TRUE], srv)
<1>1. c \in Clients
  BY DEF ClientOK
<1>2. ASSUME c.state = "idle" PROVE ClientOK(s, [c EXCEPT !.state = "BEGIN"], srv)
  <2> DEFINE d == [c EXCEPT !.state = "BEGIN"]
  <2>1. /\ d \in Clients /\ d.state = "BEGIN" /\ d.out = c.out /\ d.quit = c.quit
        /\ d.msg = c.msg /\ d.result = c.result
    BY <1>1 DEF Clients, ClientStates, FSMStates
  <2> HIDE DEF d
  <2>2. ClientOK(s, d, srv)
    BY <1>2, <2>1 DEF ClientOK, Unsealed, Sealed
  <2> QED BY <2>2 DEF d
<1>3. ASSUME c.state = "BEGIN"
      PROVE  ClientOK(s, [c EXCEPT !.state = "STEP1", !.pairing_step = "STEP1",
                                   !.notifying = TRUE], srv)
  <2> DEFINE d == [c EXCEPT !.state = "STEP1", !.pairing_step = "STEP1", !.notifying = TRUE]
  <2>1. /\ d \in Clients /\ d.state = "STEP1" /\ d.out = c.out /\ d.quit = c.quit
        /\ d.msg = c.msg /\ d.result = c.result
    BY <1>1 DEF Clients, ClientStates, FSMStates
  <2> HIDE DEF d
  <2>2. ClientOK(s, d, srv)
    BY <1>3, <2>1 DEF ClientOK, Unsealed, Sealed
  <2> QED BY <2>2 DEF d
<1> QED BY <1>2, <1>3

(* A process that is gone.                                                 *)
LEMMA DeadOK ==
    ASSUME NEW s, NEW c, NEW srv, ClientOK(s, c, srv),
           c.state \in FSMStates
    PROVE  /\ c.out = <<>> =>
                 ClientOK(s, [c EXCEPT !.state = "dead", !.notifying = FALSE], srv)
           /\ ClientOK(s, [c EXCEPT !.state = "dead", !.out = <<>>, !.notifying = FALSE], srv)
<1>1. c \in Clients /\ <<>> \in Seq(Fragment)
  BY DEF ClientOK
<1>2. c.result # "success"
  BY DEF ClientOK, FSMStates
<1>3. ASSUME c.out = <<>>
      PROVE  ClientOK(s, [c EXCEPT !.state = "dead", !.notifying = FALSE], srv)
  <2> DEFINE d == [c EXCEPT !.state = "dead", !.notifying = FALSE]
  <2>1. /\ d \in Clients /\ d.state = "dead" /\ d.out = c.out /\ d.quit = c.quit
        /\ d.msg = c.msg /\ d.result = c.result
    BY <1>1 DEF Clients, ClientStates, Ended
  <2> HIDE DEF d
  <2>2. ClientOK(s, d, srv)
    BY <1>2, <1>3, <2>1 DEF ClientOK, Unsealed, Sealed
  <2> QED BY <2>2 DEF d
<1>4. ClientOK(s, [c EXCEPT !.state = "dead", !.out = <<>>, !.notifying = FALSE], srv)
  <2> DEFINE d == [c EXCEPT !.state = "dead", !.out = <<>>, !.notifying = FALSE]
  <2>1. /\ d \in Clients /\ d.state = "dead" /\ d.out = <<>> /\ d.quit = c.quit
        /\ d.msg = c.msg /\ d.result = c.result
    BY <1>1 DEF Clients, ClientStates, Ended
  <2> HIDE DEF d
  <2>2. ClientOK(s, d, srv)
    BY <1>2, <2>1 DEF ClientOK, Unsealed, Sealed
  <2> QED BY <2>2 DEF d
<1> QED BY <1>3, <1>4

(* genPairingStep1 draws the nonce of the run.                             *)
LEMMA Step1OK ==
    ASSUME NEW s \in Sessions, NEW c, NEW srv, ClientOK(s, c, srv), c.state = "STEP1"
    PROVE  ClientOK(s, [c EXCEPT !.rxNonce = [by |-> s, n |-> 0],
                                 !.out = Fragments([kind |-> "step1", s |-> s, key |-> None,
                                                    nonce |-> None, body |-> None])], srv)
<1> DEFINE o == Fragments([kind |-> "step1", s |-> s, key |-> None, nonce |-> None,
                           body |-> None])
           d == [c EXCEPT !.rxNonce = RunNonce(s), !.out = o]
<1>1. o \in Seq(Fragment) /\ o # <<>>
  BY MessageTyped DEF Kinds, Keys, Nonces
<1>2. c \in Clients
  BY DEF ClientOK
<1> HIDE DEF o
<1>3. /\ d \in Clients /\ d.state = "STEP1" /\ d.out = o /\ d.quit = c.quit
      /\ d.msg = c.msg /\ d.result = c.result /\ d.rxNonce = RunNonce(s)
  BY <1>1, <1>2, NonceFacts DEF Clients
<1> HIDE DEF d
<1>4. ClientOK(s, d, srv)
  BY <1>1, <1>3 DEF ClientOK, Unsealed, Sealed
<1> QED BY <1>4 DEF d, o, RunNonce

(* genPairingStep3Native takes the server's fresh nonce, uses it for step  *)
(* 3 and keeps its successor.                                              *)
LEMMA Step3OK ==
    ASSUME NEW s \in Sessions, NEW c, NEW srv, ClientOK(s, c, srv), c.state = "STEP3",
           c.msg.kind = "step2"
    PROVE  ClientOK(s, [c EXCEPT !.sharedKey = <<s, c.msg.draw>>,
                                 !.txNonce = incrementNonce(c.msg.nonce),
                                 !.out = Fragments([kind |-> "step3", s |-> s,
                                                    key |-> <<s, c.msg.draw>>,
                                                    nonce |-> c.msg.nonce,
                                                    body |-> c.rxNonce])], srv)
<1> DEFINE k == <<s, c.msg.draw>>
           o == Fragments([kind |-> "step3", s |-> s, key |-> k, nonce |-> c.msg.nonce,
                           body |-> c.rxNonce])
           next == incrementNonce(c.msg.nonce)
           d == [c EXCEPT !.sharedKey = k, !.txNonce = next, !.out = o]
<1>1. c \in Clients /\ c.msg # None /\ GoodReply(c.msg, srv) /\ c.rxNonce = RunNonce(s)
  BY DEF ClientOK
<1>2. c.msg.nonce = ServerNonce(0) /\ c.msg \in Replies
  BY <1>1 DEF GoodReply, Clients
<1>3. k \in Keys /\ next = ServerNonce(1) /\ next \in Nonces
  BY <1>2, NonceFacts DEF Keys, Replies
<1>4. o \in Seq(Fragment) /\ o # <<>>
  <2>1. c.msg.nonce \in Nonces /\ c.rxNonce \in Nonces /\ "step3" \in Kinds
    BY <1>1, <1>2, NonceFacts DEF Kinds
  <2> HIDE DEF k
  <2> QED BY <1>3, <2>1, MessageTyped
<1> HIDE DEF o, k, next
<1>5. /\ d \in Clients /\ d.state = "STEP3" /\ d.out = o /\ d.quit = c.quit
      /\ d.msg = c.msg /\ d.result = c.result /\ d.rxNonce = c.rxNonce
      /\ d.txNonce = next
  BY <1>1, <1>3, <1>4 DEF Clients
<1> HIDE DEF d
<1>6. ClientOK(s, d, srv)
  BY <1>1, <1>3, <1>4, <1>5 DEF ClientOK, Unsealed, Sealed
<1> QED BY <1>6 DEF d, o, k, next

(* A commit is sealed only with what the server keeps.                     *)
LEMMA CommitOK ==
    ASSUME NEW s \in Sessions, NEW c, NEW srv, ClientOK(s, c, srv), Unsealed(c)
    PROVE  /\ recPairingStep4(c) => ClientOK(s, SealedCommit(s, c), srv)
           /\ ClientOK(s, RefusedStep4(c), srv)
<1> DEFINE rx == incrementNonce(c.rxNonce)
           tx == incrementNonce(c.txNonce)
<1>1. /\ c \in Clients /\ c.msg # None /\ GoodReply(c.msg, srv)
      /\ c.rxNonce = RunNonce(s) /\ c.txNonce = ServerNonce(1)
      /\ c.state = "COMMIT" /\ c.out = <<>> /\ c.result # "success"
  BY DEF ClientOK, Unsealed
<1>2. rx \in Nonces /\ tx \in Nonces
  BY <1>1, NonceFacts
<1>3. ASSUME recPairingStep4(c)
      PROVE  ClientOK(s, SealedCommit(s, c), srv)
  <2> DEFINE o == Fragments([kind |-> "commit", s |-> s, key |-> c.sharedKey,
                             nonce |-> c.txNonce, body |-> None])
             d == [c EXCEPT !.rxNonce = rx, !.txNonce = tx, !.out = o]
  <2>1. o \in Seq(Fragment) /\ o # <<>>
    <3>1. "commit" \in Kinds /\ c.sharedKey \in Keys /\ c.txNonce \in Nonces /\ None \in Nonces
      BY <1>1 DEF Kinds, Clients, Nonces
    <3> QED BY <3>1, MessageTyped
  <2>2. Paired(s, c, srv)
    BY <1>1, <1>3 DEF recPairingStep4, GoodReply, Paired
  <2> HIDE DEF rx, tx, o
  <2>3. /\ d \in Clients /\ d.state = "COMMIT" /\ d.out = o /\ d.quit = c.quit
        /\ d.msg = c.msg /\ d.result = c.result /\ d.sharedKey = c.sharedKey
    BY <1>1, <1>2, <2>1 DEF Clients
  <2> HIDE DEF d
  <2>4. Paired(s, d, srv)
    BY <2>2, <2>3 DEF Paired
  <2>5. ClientOK(s, d, srv)
    BY <1>1, <2>1, <2>3, <2>4 DEF ClientOK, Unsealed, Sealed
  <2> QED BY <2>5 DEF d, o, rx, tx, SealedCommit
<1>4. ClientOK(s, RefusedStep4(c), srv)
  <2> DEFINE e == ErrorExit(c)
             d == [e EXCEPT !.rxNonce = rx]
  <2>0. ClientOK(s, e, srv)
    BY ErrorExitOK
  <2>1. /\ e \in Clients /\ e.state = "end" /\ e.out = <<>> /\ e.result = "err"
        /\ e.quit = c.quit /\ e.msg = c.msg /\ e.rxNonce = c.rxNonce
    BY ErrorExitOK
  <2> HIDE DEF e, rx
  <2>2. /\ d \in Clients /\ d.state = "end" /\ d.out = <<>> /\ d.result = "err"
        /\ d.quit = c.quit /\ d.msg = c.msg
    BY <1>2, <2>1 DEF Clients
  <2>3. d = [e EXCEPT !.rxNonce = incrementNonce(@)]
    BY <2>1 DEF rx
  <2> HIDE DEF d
  <2>4. ClientOK(s, d, srv)
    BY <1>1, <2>2 DEF ClientOK, Unsealed, Sealed
  <2> QED BY <2>0, <2>3, <2>4 DEF e, RefusedStep4
<1> QED BY <1>3, <1>4

(* A fragment written, the last one included.  The commit is the one place *)
(* where a run reports success.                                            *)
LEMMA FragmentOK ==
    ASSUME NEW s, NEW c, NEW srv, ClientOK(s, c, srv), c.out # <<>>
    PROVE  ClientOK(s, AfterFragment(c), srv)
<1> DEFINE rest == [c EXCEPT !.out = Tail(@)]
<1>1. /\ c \in Clients /\ c.state \in {"STEP1", "STEP3", "COMMIT"} /\ c.result # "success"
      /\ c.quit = FALSE
  BY DEF ClientOK
<1>2. Tail(c.out) \in Seq(Fragment)
  BY <1>1 DEF Clients
<1> DEFINE o == Tail(c.out)
<1>3. /\ rest \in Clients /\ rest.out = o /\ rest.state = c.state /\ rest.quit = c.quit
      /\ rest.msg = c.msg /\ rest.result = c.result /\ rest.rxNonce = c.rxNonce
      /\ rest.txNonce = c.txNonce /\ rest.sharedKey = c.sharedKey
  BY <1>1, <1>2 DEF Clients
<1>4. AfterFragment(c) = IF rest.out = <<>> THEN Written(rest) ELSE rest
  BY DEF AfterFragment
<1> HIDE DEF rest, o
<1>5. CASE rest.out # <<>>
  <2>1. AfterFragment(c) = rest
    BY <1>4, <1>5
  <2>2. Sealed(c) => Paired(s, rest, srv)
    BY <1>3 DEF ClientOK, Paired
  <2>3. ClientOK(s, rest, srv)
    BY <1>1, <1>3, <1>5, <2>2 DEF ClientOK, Unsealed, Sealed
  <2> QED BY <2>1, <2>3
<1>6. CASE rest.out = <<>>
  <2>1. AfterFragment(c) = Written(rest)
    BY <1>4, <1>6
  <2>2. CASE c.state = "STEP1"
    <3> DEFINE d == [rest EXCEPT !.state = "STEP2", !.pairing_step = "STEP1"]
    <3>1. Written(rest) = d
      BY <1>3, <2>2 DEF Written
    <3>2. /\ d \in Clients /\ d.state = "STEP2" /\ d.out = <<>> /\ d.quit = FALSE
          /\ d.msg = c.msg /\ d.result = c.result /\ d.rxNonce = c.rxNonce
      BY <1>1, <1>3, <1>6 DEF Clients, ClientStates, FSMStates
    <3> HIDE DEF d
    <3>3. ClientOK(s, d, srv)
      BY <1>1, <2>2, <3>2 DEF ClientOK, Unsealed, Sealed
    <3> QED BY <2>1, <3>1, <3>3
  <2>3. CASE c.state = "STEP3"
    <3> DEFINE d == [rest EXCEPT !.state = "STEP4", !.pairing_step = "STEP3", !.msg = None]
    <3>1. Written(rest) = d
      BY <1>3, <2>3 DEF Written
    <3>2. /\ d \in Clients /\ d.state = "STEP4" /\ d.out = <<>> /\ d.quit = FALSE
          /\ d.msg = None /\ d.result = c.result /\ d.rxNonce = c.rxNonce
          /\ d.txNonce = c.txNonce
      BY <1>1, <1>3, <1>6 DEF Clients, ClientStates, FSMStates
    <3> HIDE DEF d
    <3>3. ClientOK(s, d, srv)
      BY <1>1, <2>3, <3>2 DEF ClientOK, Unsealed, Sealed
    <3> QED BY <2>1, <3>1, <3>3
  <2>4. CASE c.state = "COMMIT"
    <3> DEFINE d == [rest EXCEPT !.state = "end", !.pairing_step = "DONE",
                                 !.result = "success", !.notifying = FALSE]
    <3>1. Written(rest) = d
      BY <1>3, <2>4 DEF Written
    <3>2. /\ d \in Clients /\ d.state = "end" /\ d.out = <<>> /\ d.quit = FALSE
          /\ d.msg = c.msg /\ d.sharedKey = c.sharedKey
      BY <1>1, <1>3, <1>6 DEF Clients, ClientStates, Ended
    <3> HIDE DEF d
    <3>3. Paired(s, d, srv)
      BY <2>4, <3>2 DEF ClientOK, Sealed, Paired
    <3>4. ClientOK(s, d, srv)
      BY <1>1, <3>2, <3>3 DEF ClientOK, Unsealed, Sealed
    <3> QED BY <2>1, <3>1, <3>4
  <2> QED BY <1>1, <2>2, <2>3, <2>4
<1> QED BY <1>5, <1>6

(* A write that failed, with the missing return of write_pairing_step1.    *)
LEMMA FailedWriteOK ==
    ASSUME NEW s, NEW c, NEW srv, ClientOK(s, c, srv), c.out # <<>>,
           NEW d \in AfterFailedWrite(c)
    PROVE  ClientOK(s, d, srv)
<1>1. CASE d = ErrorExit(c)
  BY <1>1, ErrorExitOK
<1>2. CASE d # ErrorExit(c)
  <2> DEFINE e == ErrorExit(c)
  <2>1. c.state = "STEP1" /\ d = [e EXCEPT !.state = "STEP2"]
    BY <1>2 DEF AfterFailedWrite, FallsThrough
  <2>2. /\ e \in Clients /\ e.state = "end" /\ e.out = <<>> /\ e.result = "err"
        /\ e.quit = c.quit /\ e.msg = c.msg /\ e.rxNonce = c.rxNonce
    BY ErrorExitOK
  <2> HIDE DEF e
  <2>3. /\ d \in Clients /\ d.state = "STEP2" /\ d.out = <<>> /\ d.result = "err"
        /\ d.quit = c.quit /\ d.msg = c.msg /\ d.rxNonce = c.rxNonce
    BY <2>1, <2>2 DEF Clients, ClientStates, FSMStates
  <2> QED BY <2>1, <2>3 DEF ClientOK, Unsealed, Sealed
<1> QED BY <1>1, <1>2

(* The first note is handled, the others stay.                             *)
LEMMA NotesTaken ==
    ASSUME NEW ns, NEW srv, NotesOK(ns, srv), ns # <<>>
    PROVE  /\ Head(ns) \in Replies /\ Head(ns) # None /\ GoodReply(Head(ns), srv)
           /\ NotesOK(Tail(ns), srv)
<1>1. ns \in Seq(Replies) /\ Len(ns) \in Nat \ {0}
  BY DEF NotesOK
<1>2. Head(ns) = ns[1] /\ 1 \in 1 .. Len(ns) /\ Head(ns) \in Replies
  BY <1>1
<1>3. /\ Tail(ns) \in Seq(Replies) /\ Len(Tail(ns)) = Len(ns) - 1
      /\ \A i \in 1 .. Len(ns) - 1 : Tail(ns)[i] = ns[i + 1]
  BY <1>1
<1>4. \A i \in 1 .. Len(Tail(ns)) : i + 1 \in 1 .. Len(ns)
  BY <1>1, <1>3
<1>5. NotesOK(Tail(ns), srv)
  BY <1>3, <1>4 DEF NotesOK
<1> QED BY <1>2, <1>5 DEF NotesOK

(* A note more, of the reply the server just made.                         *)
LEMMA NoteAdded ==
    ASSUME NEW ns, NEW srv, NotesOK(ns, srv), NEW r \in Replies, r # None, GoodReply(r, srv)
    PROVE  NotesOK(Append(ns, r), srv)
<1>1. ns \in Seq(Replies)
  BY DEF NotesOK
<1>2. /\ Append(ns, r) \in Seq(Replies) /\ Len(Append(ns, r)) = Len(ns) + 1
      /\ \A i \in 1 .. Len(ns) : Append(ns, r)[i] = ns[i]
      /\ Append(ns, r)[Len(ns) + 1] = r
  BY <1>1
<1>3. \A i \in 1 .. Len(ns) + 1 : i \in 1 .. Len(ns) \/ i = Len(ns) + 1
  BY <1>1
<1> QED BY <1>2, <1>3 DEF NotesOK

(* The handler takes a reply, whatever it is, and leaves the loop.         *)
LEMMA HandlerOK ==
    ASSUME NEW s, NEW c, NEW srv, ClientOK(s, c, srv), c.state \in {"STEP2", "STEP4"},
           NEW r \in Replies, r # None, GoodReply(r, srv),
           c.pairing_step \in {"STEP1", "STEP3"}
    PROVE  ClientOK(s, [c EXCEPT !.msg = r, !.quit = TRUE,
                                 !.pairing_step = IF @ = "STEP1" THEN "STEP2" ELSE "STEP4"],
                    srv)
<1> DEFINE p == IF c.pairing_step = "STEP1" THEN "STEP2" ELSE "STEP4"
           d == [c EXCEPT !.msg = r, !.quit = TRUE, !.pairing_step = p]
<1>1. c \in Clients
  BY DEF ClientOK
<1>2. p \in {"STEP2", "STEP4"}
  OBVIOUS
<1> HIDE DEF p
<1>3. /\ d \in Clients /\ d.state = c.state /\ d.out = c.out /\ d.quit = TRUE
      /\ d.msg = r /\ d.result = c.result /\ d.rxNonce = c.rxNonce
      /\ d.txNonce = c.txNonce /\ d.sharedKey = c.sharedKey
  BY <1>1, <1>2 DEF Clients
<1> HIDE DEF d
<1>4. ClientOK(s, d, srv)
  BY <1>3 DEF ClientOK, Unsealed, Sealed
<1> QED BY <1>4 DEF d, p

(* The loop returns after a reply was taken, and only then.                *)
LEMMA ReturnOK ==
    ASSUME NEW s, NEW c, NEW srv, ClientOK(s, c, srv), c.state \in {"STEP2", "STEP4"}, c.quit,
           NEW st, st = IF c.state = "STEP2" THEN "STEP3" ELSE "COMMIT"
    PROVE  ClientOK(s, [c EXCEPT !.quit = FALSE, !.state = st], srv)
<1> DEFINE d == [c EXCEPT !.quit = FALSE, !.state = st]
<1>1. c \in Clients /\ c.quit = TRUE
  BY DEF ClientOK, Clients
<1>2. st \in {"STEP3", "COMMIT"}
  OBVIOUS
<1>3. /\ d \in Clients /\ d.state = st /\ d.out = c.out /\ d.quit = FALSE
      /\ d.msg = c.msg /\ d.result = c.result /\ d.rxNonce = c.rxNonce
      /\ d.txNonce = c.txNonce /\ d.sharedKey = c.sharedKey
  BY <1>1, <1>2 DEF Clients, ClientStates, FSMStates
<1> HIDE DEF d
<1>4. c.out = <<>> /\ c.result # "success" /\ c.msg # None
  BY <1>1 DEF ClientOK
<1>5. ClientOK(s, d, srv)
  BY <1>3, <1>4 DEF ClientOK, Unsealed, Sealed
<1> QED BY <1>5 DEF d

-----------------------------------------------------------------------------
(* The invariant holds at the beginning and every step keeps it.           *)

(* A step of one run.                                                      *)
LEMMA OneRun ==
    ASSUME PairingInv, NEW s \in Sessions,
           ServerOK(server'), Kept(server, server'),
           DOMAIN client' = Sessions, DOMAIN notes' = Sessions,
           \A t \in Sessions \ {s} : client'[t] = client[t],
           ClientOK(s, client'[s], server'),
           \A t \in Sessions : NotesOK(notes'[t], server'),
           troubled' \in BOOLEAN
    PROVE  PairingInv'
<1>1. ASSUME NEW t \in Sessions PROVE ClientOK(t, client'[t], server')
  <2>1. CASE t = s
    BY <2>1
  <2>2. CASE t # s
    <3>1. ClientOK(t, client[t], server) /\ client'[t] = client[t]
      BY <2>2 DEF PairingInv
    <3>2. ClientOK(t, client[t], server')
      BY <3>1, StaysGood
    <3> QED BY <3>1, <3>2
  <2> QED BY <2>1, <2>2
<1> QED BY <1>1 DEF PairingInv

(* A step of one run that the server does not see.                         *)
LEMMA OneRunAlone ==
    ASSUME PairingInv, NEW s \in Sessions, server' = server,
           DOMAIN client' = Sessions, DOMAIN notes' = Sessions,
           \A t \in Sessions \ {s} : client'[t] = client[t],
           ClientOK(s, client'[s], server),
           \A t \in Sessions : NotesOK(notes'[t], server),
           troubled' \in BOOLEAN
    PROVE  PairingInv'
<1>1. ServerOK(server') /\ Kept(server, server')
  BY DEF PairingInv, Kept
<1>2. ClientOK(s, client'[s], server')
  OBVIOUS
<1>3. \A t \in Sessions : NotesOK(notes'[t], server')
  OBVIOUS
<1> QED BY <1>1, <1>2, <1>3, OneRun

(* ... and leaves the notifications alone.                                 *)
LEMMA OneRunQuietly ==
    ASSUME PairingInv, NEW s \in Sessions, server' = server, notes' = notes,
           NEW d, client' = [client EXCEPT ![s] = d], ClientOK(s, d, server),
           troubled' \in BOOLEAN
    PROVE  PairingInv'
<1>1. DOMAIN client = Sessions /\ DOMAIN notes = Sessions
  BY DEF PairingInv
<1>2. /\ DOMAIN client' = Sessions /\ DOMAIN notes' = Sessions
      /\ client'[s] = d /\ \A t \in Sessions \ {s} : client'[t] = client[t]
  BY <1>1
<1>3. \A t \in Sessions : NotesOK(notes'[t], server)
  BY DEF PairingInv
<1> QED BY <1>2, <1>3, OneRunAlone

(* Initially.                                                              *)
LEMMA InitInv == Init => PairingInv
<1> HAVE Init
<1>1. ServerOK(server)
  <2>1. None \in Keys /\ None \in Nonces
    BY DEF Keys, Nonces
  <2>2. server = InitServer
    BY DEF Init
  <2>3. server \in Servers
    BY <2>1, <2>2, EmptyRecvTyped DEF InitServer, Servers, RestStates, RestEvents
  <2>4. /\ server.fsm = "PAIRING_BEGIN" /\ server.client_nonce = None
        /\ server.crypt = None /\ server.recv = EmptyRecv
    BY <2>2 DEF InitServer
  <2> QED BY <2>3, <2>4, EmptyRecvTyped DEF ServerOK, AfterStep4
<1>2. ASSUME NEW s \in Sessions
      PROVE  ClientOK(s, client[s], server) /\ NotesOK(notes[s], server)
  <2>1. client[s] = NewClient /\ notes[s] = <<>>
    BY DEF Init
  <2> QED BY <2>1, NewClientOK
<1> QED BY <1>1, <1>2 DEF Init, PairingInv

(* addPairingTask.                                                         *)
LEMMA AddInv == ASSUME PairingInv, NEW s \in Sessions, addPairingTask(s) PROVE PairingInv'
<1> DEFINE d == [client[s] EXCEPT !.state = "BEGIN"]
<1>1. ClientOK(s, d, server)
  BY StartOK DEF PairingInv, addPairingTask
<1>2. client' = [client EXCEPT ![s] = d] /\ server' = server /\ notes' = notes
  BY DEF addPairingTask
<1>3. troubled' \in BOOLEAN
  BY DEF addPairingTask
<1> HIDE DEF d
<1> QED BY <1>1, <1>2, <1>3, OneRunQuietly

(* register_pairing_notfication.                                           *)
LEMMA RegisterInv ==
    ASSUME PairingInv, NEW s \in Sessions, NEW connected \in BOOLEAN, NEW started \in BOOLEAN,
           register_pairing_notfication(s, connected, started)
    PROVE  PairingInv'
<1> DEFINE c == client[s]
           on == [c EXCEPT !.state = "STEP1", !.pairing_step = "STEP1", !.notifying = TRUE]
           d == IF connected /\ started THEN on ELSE ErrorExit(c)
<1>1. ClientOK(s, c, server) /\ c.state = "BEGIN"
  BY DEF PairingInv, register_pairing_notfication
<1>2. client' = [client EXCEPT ![s] = d] /\ server' = server /\ notes' = notes
  BY DEF register_pairing_notfication
<1>3. troubled' \in BOOLEAN
  BY DEF register_pairing_notfication
<1>4. ClientOK(s, d, server)
  <2>1. ClientOK(s, on, server) /\ ClientOK(s, ErrorExit(c), server)
    BY <1>1, StartOK, ErrorExitOK
  <2> HIDE DEF on
  <2> QED BY <2>1
<1> HIDE DEF d
<1> QED BY <1>2, <1>3, <1>4, OneRunQuietly

(* write_pairing_step1 up to its first write.                              *)
LEMMA Step1Inv ==
    ASSUME PairingInv, NEW s \in Sessions, NEW made \in BOOLEAN, write_pairing_step1(s, made)
    PROVE  PairingInv'
<1> DEFINE c == client[s]
           go == [c EXCEPT !.rxNonce = [by |-> s, n |-> 0],
                           !.out = Fragments([kind |-> "step1", s |-> s, key |-> None,
                                              nonce |-> None, body |-> None])]
           no == [c EXCEPT !.state = "dead", !.notifying = FALSE]
           d == IF made THEN go ELSE no
<1>1. ClientOK(s, c, server) /\ c.state = "STEP1" /\ c.out = <<>>
  BY DEF PairingInv, write_pairing_step1
<1>2. client' = [client EXCEPT ![s] = d] /\ server' = server /\ notes' = notes
  BY DEF write_pairing_step1
<1>3. troubled' \in BOOLEAN
  BY DEF write_pairing_step1
<1>4. ClientOK(s, d, server)
  <2>1. ClientOK(s, go, server)
    BY <1>1, Step1OK
  <2>2. ClientOK(s, no, server)
    BY <1>1, DeadOK DEF FSMStates
  <2> HIDE DEF go, no
  <2> QED BY <2>1, <2>2
<1> HIDE DEF d
<1> QED BY <1>2, <1>3, <1>4, OneRunQuietly

(* write_pairing_step3 up to its first write.                              *)
LEMMA Step3Inv == ASSUME PairingInv, NEW s \in Sessions, write_pairing_step3(s) PROVE PairingInv'
<1> DEFINE c == client[s]
           go == [c EXCEPT !.sharedKey = <<s, c.msg.draw>>,
                           !.txNonce = incrementNonce(c.msg.nonce),
                           !.out = Fragments([kind |-> "step3", s |-> s,
                                              key |-> <<s, c.msg.draw>>,
                                              nonce |-> c.msg.nonce,
                                              body |-> c.rxNonce])]
           d == IF c.msg.kind = "step2" THEN go ELSE ErrorExit(c)
<1>1. ClientOK(s, c, server) /\ c.state = "STEP3" /\ c.out = <<>>
  BY DEF PairingInv, write_pairing_step3
<1>2. client' = [client EXCEPT ![s] = d] /\ server' = server /\ notes' = notes
  BY DEF write_pairing_step3
<1>3. troubled' \in BOOLEAN
  BY DEF write_pairing_step3, PairingInv
<1>4. ClientOK(s, d, server)
  <2>1. c.msg.kind = "step2" => ClientOK(s, go, server)
    BY <1>1, Step3OK
  <2>2. ClientOK(s, ErrorExit(c), server)
    BY <1>1, ErrorExitOK
  <2> HIDE DEF go
  <2> QED BY <2>1, <2>2
<1> HIDE DEF d
<1> QED BY <1>2, <1>3, <1>4, OneRunQuietly

(* write_pairing_commit up to its first write.                             *)
LEMMA CommitInv == ASSUME PairingInv, NEW s \in Sessions, write_pairing_commit(s) PROVE PairingInv'
<1> DEFINE c == client[s]
           go == SealedCommit(s, c)
           no == RefusedStep4(c)
           d == IF recPairingStep4(c) THEN go ELSE no
<1>1. ClientOK(s, c, server) /\ Unsealed(c)
  BY DEF PairingInv, write_pairing_commit, Unsealed
<1>2. client' = [client EXCEPT ![s] = d] /\ server' = server /\ notes' = notes
  BY DEF write_pairing_commit
<1>3. troubled' \in BOOLEAN
  BY DEF write_pairing_commit, PairingInv
<1>4. ClientOK(s, d, server)
  <2>1. recPairingStep4(c) => ClientOK(s, go, server)
    BY <1>1, CommitOK
  <2>2. ClientOK(s, no, server)
    BY <1>1, CommitOK
  <2> HIDE DEF go, no
  <2> QED BY <2>1, <2>2
<1> HIDE DEF d
<1> QED BY <1>2, <1>3, <1>4, OneRunQuietly

(* One write of a fragment: the run moves on, the server handles it, and   *)
(* everyone who listens is told.                                           *)
LEMMA WriteInv ==
    ASSUME PairingInv, NEW s \in Sessions,
           NEW ok \in BOOLEAN, NEW delivered \in BOOLEAN, NEW decodes \in BOOLEAN,
           NEW luck, NEW len, WriteFragment(s, ok, delivered, luck, len, decodes)
    PROVE  PairingInv'
<1> DEFINE c == client[s]
           f == Head(c.out)
           rep == IF delivered THEN server'.reply ELSE None
<1>1. /\ ClientOK(s, c, server) /\ c.out # <<>> /\ ServerOK(server)
      /\ DOMAIN client = Sessions
  BY DEF PairingInv, WriteFragment
<1>2. f \in Fragment
  <2>1. c.out \in Seq(Fragment)
    BY <1>1 DEF ClientOK, Clients
  <2> QED BY <1>1, <2>1
<1>3. /\ len \in Announced(f)
      /\ server' = IF delivered THEN chr_write_value(server, f, len, luck, decodes)
                   ELSE server
      /\ Notify(rep)
      /\ troubled' \in BOOLEAN
  BY DEF WriteFragment
<1>4. PICK d \in IF ok THEN {AfterFragment(c)} ELSE AfterFailedWrite(c) :
            client' = [client EXCEPT ![s] = d]
  BY DEF WriteFragment
<1> HIDE DEF f
<1>5. /\ ServerOK(server') /\ Kept(server, server')
      /\ rep # None => rep \in Replies /\ GoodReply(rep, server')
  <2>1. CASE delivered
    <3>1. WriteOK(server, server')
      BY <1>1, <1>2, <1>3, <2>1, WriteAtServer
    <3> QED BY <2>1, <3>1 DEF WriteOK
  <2>2. CASE ~delivered
    BY <1>1, <1>3, <2>2 DEF Kept
  <2> QED BY <2>1, <2>2
<1> HIDE DEF rep
<1>6. ClientOK(s, d, server')
  <2>1. ClientOK(s, c, server')
    BY <1>1, <1>5, StaysGood
  <2>2. CASE ok
    BY <1>1, <1>4, <2>1, <2>2, FragmentOK
  <2>3. CASE ~ok
    BY <1>1, <1>4, <2>1, <2>3, FailedWriteOK
  <2> QED BY <2>2, <2>3
<1>7. /\ DOMAIN client' = Sessions /\ client'[s] = d
      /\ \A t \in Sessions \ {s} : client'[t] = client[t]
  BY <1>1, <1>4
<1>8. DOMAIN notes' = Sessions
  BY <1>3 DEF Notify
<1>9. ASSUME NEW t \in Sessions PROVE NotesOK(notes'[t], server')
  <2>1. NotesOK(notes[t], server')
    <3>1. NotesOK(notes[t], server)
      BY DEF PairingInv
    <3> QED BY <1>5, <3>1, StaysGood
  <2>2. NotesOK(<<>>, server')
    BY NewClientOK
  <2>3. rep # None => NotesOK(Append(notes[t], rep), server')
    BY <1>5, <2>1, NoteAdded
  <2>4. \/ rep # None /\ notes'[t] = Append(notes[t], rep)
        \/ notes'[t] = notes[t]
        \/ notes'[t] = <<>>
    BY <1>3 DEF Notify
  <2> QED BY <2>1, <2>2, <2>3, <2>4
<1>10. ClientOK(s, client'[s], server')
  BY <1>6, <1>7
<1> QED BY <1>3, <1>5, <1>7, <1>8, <1>9, <1>10, OneRun

(* One notification less in the queue of a run.                            *)
LEMMA OneNoteLess ==
    ASSUME PairingInv, NEW s \in Sessions, notes' = [notes EXCEPT ![s] = Tail(@)],
           notes[s] # <<>>
    PROVE  DOMAIN notes' = Sessions /\ \A t \in Sessions : NotesOK(notes'[t], server)
<1>1. DOMAIN notes = Sessions /\ \A t \in Sessions : NotesOK(notes[t], server)
  BY DEF PairingInv
<1>2. ASSUME NEW t \in Sessions PROVE NotesOK(notes'[t], server)
  <2>1. CASE t = s
    <3>1. notes'[t] = Tail(notes[s])
      BY <1>1, <2>1
    <3> QED BY <1>1, <3>1, NotesTaken
  <2>2. CASE t # s
    BY <1>1, <2>2
  <2> QED BY <2>1, <2>2
<1> QED BY <1>1, <1>2

(* message_handler.                                                        *)
LEMMA HandlerInv == ASSUME PairingInv, NEW s \in Sessions, message_handler(s) PROVE PairingInv'
<1> DEFINE c == client[s]
           r == Head(notes[s])
           go == [c EXCEPT !.msg = r, !.quit = TRUE,
                           !.pairing_step = IF @ = "STEP1" THEN "STEP2" ELSE "STEP4"]
           d == IF c.pairing_step \in {"STEP1", "STEP3"} THEN go ELSE c
<1>1. /\ ClientOK(s, c, server) /\ c.state \in {"STEP2", "STEP4"}
      /\ notes[s] # <<>> /\ NotesOK(notes[s], server)
      /\ DOMAIN client = Sessions /\ troubled \in BOOLEAN
  BY DEF PairingInv, message_handler, Waiting
<1>2. /\ client' = [client EXCEPT ![s] = d] /\ server' = server /\ troubled' = troubled
      /\ notes' = [notes EXCEPT ![s] = Tail(@)]
  BY DEF message_handler
<1>3. ClientOK(s, d, server)
  <2>1. r \in Replies /\ r # None /\ GoodReply(r, server)
    BY <1>1, NotesTaken
  <2> HIDE DEF r
  <2>2. c.pairing_step \in {"STEP1", "STEP3"} => ClientOK(s, go, server)
    BY <1>1, <2>1, HandlerOK
  <2> HIDE DEF go
  <2> QED BY <1>1, <2>2
<1>4. DOMAIN notes' = Sessions /\ \A t \in Sessions : NotesOK(notes'[t], server)
  BY <1>1, <1>2, OneNoteLess
<1> HIDE DEF d
<1>5. /\ DOMAIN client' = Sessions /\ client'[s] = d
      /\ \A t \in Sessions \ {s} : client'[t] = client[t]
  BY <1>1, <1>2
<1> QED BY <1>1, <1>2, <1>3, <1>4, <1>5, OneRunAlone

(* LoopReturns.                                                            *)
LEMMA ReturnInv == ASSUME PairingInv, NEW s \in Sessions, LoopReturns(s) PROVE PairingInv'
<1> DEFINE c == client[s]
           st == IF c.state = "STEP2" THEN "STEP3" ELSE "COMMIT"
           d == [c EXCEPT !.quit = FALSE, !.state = st]
<1>1. /\ ClientOK(s, c, server) /\ c.state \in {"STEP2", "STEP4"} /\ c.quit
      /\ DOMAIN client = Sessions /\ c \in Clients
  BY DEF PairingInv, LoopReturns, Waiting, ClientOK
<1>2. server' = server /\ notes' = notes /\ troubled' \in BOOLEAN
  BY DEF LoopReturns, PairingInv
<1>3. client' = [client EXCEPT ![s] = d]
  BY <1>1 DEF LoopReturns, Clients
<1>4. ClientOK(s, d, server)
  BY <1>1, ReturnOK
<1> HIDE DEF d
<1> QED BY <1>2, <1>3, <1>4, OneRunQuietly

(* NotificationCut.                                                        *)
LEMMA CutInv == ASSUME PairingInv, NEW s \in Sessions, NotificationCut(s) PROVE PairingInv'
<1>1. DOMAIN notes' = Sessions /\ \A t \in Sessions : NotesOK(notes'[t], server)
  BY OneNoteLess DEF NotificationCut
<1>2. /\ client' = client /\ server' = server /\ troubled' = TRUE
      /\ DOMAIN client = Sessions /\ ClientOK(s, client[s], server)
  BY DEF NotificationCut, PairingInv
<1> QED BY <1>1, <1>2, OneRunAlone

(* Kill.                                                                   *)
LEMMA KillInv == ASSUME PairingInv, NEW s \in Sessions, Kill(s) PROVE PairingInv'
<1> DEFINE c == client[s]
           d == [c EXCEPT !.state = "dead", !.out = <<>>, !.notifying = FALSE]
<1>1. /\ ClientOK(s, c, server) /\ c.state \in FSMStates /\ c \in Clients
      /\ DOMAIN client = Sessions /\ DOMAIN notes = Sessions
      /\ \A t \in Sessions : NotesOK(notes[t], server)
  BY DEF PairingInv, Kill, ClientOK
<1>2. server' = server /\ troubled' = TRUE /\ notes' = [notes EXCEPT ![s] = <<>>]
  BY DEF Kill
<1>3. client' = [client EXCEPT ![s] = d]
  BY <1>1 DEF Kill, Clients
<1>4. ClientOK(s, d, server)
  BY <1>1, DeadOK
<1> HIDE DEF d
<1>5. /\ DOMAIN client' = Sessions /\ client'[s] = d
      /\ \A t \in Sessions \ {s} : client'[t] = client[t]
  BY <1>1, <1>3
<1>6. DOMAIN notes' = Sessions /\ \A t \in Sessions : NotesOK(notes'[t], server)
  BY <1>1, <1>2, NewClientOK
<1> QED BY <1>2, <1>4, <1>5, <1>6, OneRunAlone

(* Every step keeps the invariant.                                         *)
LEMMA NextInv == ASSUME PairingInv, [Next]_vars PROVE PairingInv'
<1>1. CASE UNCHANGED vars
  BY <1>1 DEF PairingInv, vars
<1>2. CASE Next
  <2>1. PICK s \in Sessions : addPairingTask(s) \/ FSMHandle(s) \/ NotificationCut(s) \/ Kill(s)
    BY <1>2 DEF Next
  <2>2. CASE addPairingTask(s)
    BY <2>2, AddInv
  <2>3. CASE NotificationCut(s)
    BY <2>3, CutInv
  <2>4. CASE Kill(s)
    BY <2>4, KillInv
  <2>5. CASE FSMHandle(s)
    <3>1. CASE \E connected, started \in BOOLEAN :
                   register_pairing_notfication(s, connected, started)
      BY <3>1, RegisterInv
    <3>2. CASE \E made \in BOOLEAN : write_pairing_step1(s, made)
      BY <3>2, Step1Inv
    <3>3. CASE write_pairing_step3(s)
      BY <3>3, Step3Inv
    <3>4. CASE write_pairing_commit(s)
      BY <3>4, CommitInv
    <3>5. CASE \E ok, delivered, decodes \in BOOLEAN, luck \in Lucks, len \in Lengths :
                   WriteFragment(s, ok, delivered, luck, len, decodes)
      BY <3>5, WriteInv
    <3>6. CASE message_handler(s)
      BY <3>6, HandlerInv
    <3>7. CASE LoopReturns(s)
      BY <3>7, ReturnInv
    <3> QED BY <2>5, <3>1, <3>2, <3>3, <3>4, <3>5, <3>6, <3>7 DEF FSMHandle
  <2> QED BY <2>1, <2>2, <2>3, <2>4, <2>5
<1> QED BY <1>1, <1>2

-----------------------------------------------------------------------------
(* What the invariant says.                                                *)

(* The invariant, in every reachable state of any number of runs.          *)
THEOREM PairingInvariant == Spec => []PairingInv
<1>1. Init => PairingInv
  BY InitInv
<1>2. PairingInv /\ [Next]_vars => PairingInv'
  BY NextInv
<1> QED BY <1>1, <1>2, PTL DEF Spec

(* Every variable keeps its type, and mixed writes never overfill the      *)
(* server's buffer (recvData and copyData of pairing.c).                   *)
THEOREM TypeCorrect == Spec => []TypeOK
<1>1. PairingInv => TypeOK
  <2> HAVE PairingInv
  <2>1. ASSUME NEW s \in Sessions
        PROVE  client[s] \in Clients /\ notes[s] \in Seq(Replies)
    BY DEF PairingInv, ClientOK, NotesOK
  <2>2. server \in Servers /\ server.recv.recv_len <= server.recv.data_len
    BY DEF PairingInv, ServerOK
  <2>3. server.recv \in Recvs
    BY <2>2 DEF Servers
  <2>4. troubled \in BOOLEAN
    BY DEF PairingInv
  <2>5. /\ server.recv.data \in Seq(Fragment)
        /\ server.admin_key \in Keys
        /\ server.server_nonce \in Nonces /\ server.client_nonce \in Nonces
    BY <2>2, <2>3 DEF Servers, Recvs
  <2>6. ASSUME NEW s \in Sessions
        PROVE  /\ client[s].state \in {"idle"} \cup FSMStates \cup Ended
               /\ client[s].pairing_step \in {"BEGIN", "STEP1", "STEP2", "STEP3", "STEP4", "DONE"}
               /\ client[s].out \in Seq(Fragment)
               /\ client[s].msg \in Replies \cup {None}
               /\ client[s].quit \in BOOLEAN /\ client[s].notifying \in BOOLEAN
               /\ client[s].sharedKey \in Keys
               /\ client[s].txNonce \in Nonces /\ client[s].rxNonce \in Nonces
               /\ client[s].result \in {None, "err", "success"}
               /\ notes[s] \in Seq(Replies)
    BY <2>1 DEF Clients, ClientStates
  <2> QED BY <2>2, <2>4, <2>5, <2>6 DEF TypeOK
<1> QED BY <1>1, PairingInvariant, PTL

(* However the writes of the runs and the replies to them are mixed, lost  *)
(* or answered with nothing, a run that write_pairing_commit calls paired  *)
(* shares its key and its nonce with the server.                           *)
THEOREM SuccessMeansShared == Spec => []SuccessIsShared
<1>1. PairingInv => SuccessIsShared
  <2> SUFFICES ASSUME PairingInv, NEW s \in Sessions, client[s].result = "success"
               PROVE  /\ server.admin_key = client[s].sharedKey
                      /\ server.client_nonce = [by |-> s, n |-> 0]
                      /\ server.crypt # None => server.crypt.key = client[s].sharedKey
    BY DEF SuccessIsShared
  <2>1. ClientOK(s, client[s], server) /\ ServerOK(server)
    BY DEF PairingInv
  <2>2. Paired(s, client[s], server)
    BY <2>1 DEF ClientOK
  <2>3. server.crypt # None => server.crypt.key = server.admin_key
    BY <2>1 DEF ServerOK
  <2> QED BY <2>2, <2>3 DEF Paired, RunNonce
<1> QED BY <1>1, PairingInvariant, PTL

(* Once ig_pairing_step4 has opened a run's step 3, the two sides stand on *)
(* the same nonces until the run seals its commit.                         *)
THEOREM NoncesStayInStep == Spec => []NoncesInStep
<1>1. PairingInv => NoncesInStep
  <2> SUFFICES ASSUME PairingInv, NEW s \in Sessions,
                      server.client_nonce = [by |-> s, n |-> 0],
                      \/ client[s].state = "STEP4"
                      \/ client[s].state = "COMMIT" /\ client[s].out = <<>>
               PROVE  /\ client[s].txNonce = server.server_nonce
                      /\ client[s].rxNonce = server.client_nonce
    BY DEF NoncesInStep
  <2>1. ClientOK(s, client[s], server) /\ ServerOK(server)
    BY DEF PairingInv
  <2>2. client[s].rxNonce = RunNonce(s) /\ client[s].txNonce = ServerNonce(1)
    BY <2>1 DEF ClientOK, Unsealed
  <2>3. server.client_nonce = RunNonce(s) /\ server.client_nonce # None
    BY NonceFacts DEF RunNonce
  <2>4. server.server_nonce = ServerNonce(1)
    BY <2>1, <2>3 DEF ServerOK
  <2> QED BY <2>2, <2>3, <2>4
<1> QED BY <1>1, PairingInvariant, PTL

=============================================================================
