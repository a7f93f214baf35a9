---------------------------- MODULE Connections ----------------------------
(***************************************************************************)
(* The table connections_[kMaxConnections] of connection_common.c and the  *)
(* four messages of the guest handshake that guest_connection.c builds and *)
(* reads with it.  Everything here is an operator on the value of the      *)
(* table; the modules that hold the table as a variable say when each one  *)
(* is called.                                                              *)
(*                                                                         *)
(* A key is named by the lock it belongs to.  A 12-byte nonce is named by  *)
(* the side that drew it, the seed it was drawn from and how many times it *)
(* was incremented since.  AES-CCM is abstracted to what both sides rely   *)
(* on: a ciphertext opens exactly under the key and the nonce it was       *)
(* sealed with.                                                            *)
(***************************************************************************)
EXTENDS Integers

CONSTANTS
    kMaxConnections,   \* slots of connections_ (32 in the code)
    Locks,             \* locks whose ekey the server has handed to the bridge
    MaxJobs,           \* bound: how many jobs a behaviour may run
    NoKey              \* the all-zero key of a slot that was never used

ASSUME ConnectionsAssumption ==
    /\ kMaxConnections \in Nat \ {0}
    /\ MaxJobs \in Nat
    /\ NoKey \notin Locks

Slots == 0 .. kMaxConnections - 1

ERROR_CONNECTION_ID == -1

JobIds == 1 .. MaxJobs

Nonces == [by : {"none", "bridge", "lock"}, seed : Nat, n : Nat]

ZeroNonce == [by |-> "none", seed |-> 0, n |-> 0]

Keys == Locks \cup {NoKey}

Connection == [active : BOOLEAN, txNonce : Nonces, rxNonce : Nonces, key : Keys]

ClearConnection ==
    [active |-> FALSE, txNonce |-> ZeroNonce, rxNonce |-> ZeroNonce, key |-> NoKey]

InitConnections == [i \in Slots |-> ClearConnection]

-----------------------------------------------------------------------------
(* The table.                                                              *)

(* srand is called with the time in seconds before every draw, so the      *)
(* second is the seed and two draws of one second are equal.               *)
generateRandomNonce(second) == [by |-> "bridge", seed |-> second, n |-> 0]

incrementNonce(nonce) == [nonce EXCEPT !.n = @ + 1]

FreeSlots(conns) == {i \in Slots : ~conns[i].active}

FirstFree(conns) ==
    CHOOSE i \in FreeSlots(conns) : \A j \in FreeSlots(conns) : i <= j

(* Mutant of beginConnectionId: the loop counter is returned after the     *)
(* loop has run to its end.                                                *)
CounterAfterLoop(conns, keyOk) ==
    IF FreeSlots(conns) # {} /\ keyOk THEN kMaxConnections ELSE ERROR_CONNECTION_ID

(* The connection id the call returns.  keyOk says whether keyLen equals   *)
(* kConnectionKeyLength.                                                   *)
beginConnectionId(conns, keyOk) ==
    IF FreeSlots(conns) # {} /\ keyOk THEN FirstFree(conns) ELSE ERROR_CONNECTION_ID

(* The table after the call.  The slot is taken before the length of the   *)
(* key is looked at, so a call that fails on the key leaves it taken.      *)
beginConnection(conns, key, keyOk, second) ==
    IF FreeSlots(conns) = {} THEN conns
    ELSE [conns EXCEPT ![FirstFree(conns)] =
             IF keyOk
             THEN [@ EXCEPT !.active = TRUE, !.key = key,
                            !.rxNonce = generateRandomNonce(second)]
             ELSE [@ EXCEPT !.active = TRUE]]

(* Mutant of endConnection: the slot is not given back.                    *)
EndWithoutRelease(conns, id) ==
    [conns EXCEPT ![0].rxNonce = ZeroNonce]

(* connections_->rxNonce is the nonce of slot 0 whatever the id is.        *)
endConnection(conns, id) ==
    LET released == IF id \in Slots
                    THEN [conns EXCEPT ![id].active = FALSE]
                    ELSE conns
    IN  [released EXCEPT ![0].rxNonce = ZeroNonce]

-----------------------------------------------------------------------------
(* What the handshake and the command do to a slot.                        *)

(* Mutant of genConnStep3: txNonce is left on the nonce that sealed step 3. *)
Step3WithoutIncrement(conns, id, step2Nonce) ==
    [conns EXCEPT ![id].txNonce = step2Nonce]

(* genConnStep3Native: the nonce of step 2 becomes txNonce, seals step 3   *)
(* (whose content is the slot's rxNonce) and is incremented.               *)
genConnStep3(conns, id, step2Nonce) ==
    [conns EXCEPT ![id].txNonce = incrementNonce(step2Nonce)]

(* Mutant of recConnStep4: rxNonce is left where it was.                   *)
RecWithoutIncrement(conns, id) == conns

(* recConnStep4Native increments rxNonce whether or not step 4 opened.     *)
recConnStep4(conns, id) ==
    [conns EXCEPT ![id].rxNonce = incrementNonce(@)]

(* encryptNative increments txNonce in every case.                         *)
encryptNative(conns, id) ==
    [conns EXCEPT ![id].txNonce = incrementNonce(@)]

(* decryptNative increments rxNonce only when the message opened.          *)
decryptNative(conns, id) ==
    [conns EXCEPT ![id].rxNonce = incrementNonce(@)]

(* decryptData succeeds on a message sealed under the slot's key and       *)
(* rxNonce and fails on every other.                                       *)
Opens(connection, sealKey, sealNonce) ==
    connection.key = sealKey /\ connection.rxNonce = sealNonce

=============================================================================
