---------------------------- MODULE CryptSocket ----------------------------
(***************************************************************************)
(* The thread of wifi_server that takes the keys of a pairing: each        *)
(* process `server' that completes one connects to port 13140, writes one  *)
(* Crypt and closes (handlePairingComplete).  The thread keeps its         *)
(* connections in a table of MAX_CLIENT descriptors and polls them with    *)
(* select; a turn looks only at the first conn_amount entries.             *)
(*                                                                         *)
(* decodeCrypt accepts whatever encodeCrypt wrote, so the error path that  *)
(* keeps crypt_mutex locked is not taken by these peers.                   *)
(***************************************************************************)
EXTENDS Integers, Sequences, FiniteSets

CONSTANTS
    Peers,        \* processes `server' that complete a pairing
    NoPeer,       \* a free entry of fd
    MAX_CLIENT    \* entries of fd (5 in the code)

ASSUME CryptSocketAssumption ==
    /\ NoPeer \notin Peers
    /\ MAX_CLIENT \in Nat \ {0}

VARIABLES
    listening,    \* whether the thread runs
    backlog,      \* connections not yet accepted
    fd,           \* the table
    conn_amount,  \* its count
    peer,         \* how far handlePairingComplete of a peer has come
    unread,       \* peers whose Crypt is in the socket
    taken         \* history: peers whose Crypt this process decoded

sockVars == <<listening, backlog, fd, conn_amount, peer, unread, taken>>

Slots    == 0 .. MAX_CLIENT - 1
EmptyFds == [i \in Slots |-> NoPeer]
Used     == {i \in Slots : fd[i] # NoPeer}

SockInit ==
    /\ listening = FALSE
    /\ backlog = <<>>
    /\ fd = EmptyFds
    /\ conn_amount = 0
    /\ peer = [p \in Peers |-> "idle"]
    /\ unread = {}
    /\ taken = {}

(* The table of a new process is empty, and with a process go its          *)
(* connections: a peer's next call fails, as does a connect that finds     *)
(* nobody listening (PairingServer has that outcome).                      *)
SockReset(on) ==
    /\ listening' = on
    /\ backlog' = <<>>
    /\ fd' = EmptyFds
    /\ conn_amount' = 0
    /\ peer' = [p \in Peers |-> "idle"]
    /\ unread' = {}
    /\ taken' = {}

-----------------------------------------------------------------------------
(* A peer, step by step: connect, sendCrypt, close.                        *)

Connect(p) ==
    /\ listening /\ peer[p] = "idle"
    /\ peer' = [peer EXCEPT ![p] = "connected"]
    /\ backlog' = Append(backlog, p)
    /\ UNCHANGED <<listening, fd, conn_amount, unread, taken>>

sendCrypt(p) ==
    /\ peer[p] = "connected"
    /\ peer' = [peer EXCEPT ![p] = "sent"]
    /\ unread' = unread \cup {p}
    /\ UNCHANGED <<listening, backlog, fd, conn_amount, taken>>

Close(p) ==
    /\ peer[p] = "sent"
    /\ peer' = [peer EXCEPT ![p] = "closed"]
    /\ UNCHANGED <<listening, backlog, fd, conn_amount, unread, taken>>

-----------------------------------------------------------------------------
(* One turn of the loop in serverThread.  read_fds is what select saw; a   *)
(* connection accepted in this turn is read in a later one at the earliest.*)

Readable(p) == p \in unread \/ peer[p] = "closed"

Select == {i \in Used : Readable(fd[i])}

FreeSlot(tab) == CHOOSE i \in Slots : tab[i] = NoPeer /\ \A j \in 0 .. i - 1 : tab[j] # NoPeer

(* Mutant of Ended: a connection is taken to have ended when its peer has  *)
(* closed it, whether or not everything in it has been read.               *)
EndedWhenClosed == {i \in Select : peer[fd[i]] = "closed"}

(* The entries whose recv returns 0: the peer has closed and everything it *)
(* sent has been read.                                                     *)
Ended == {i \in Select : fd[i] \notin unread}

(* Mutant of Recv: a connection that closed is still counted.              *)
RecvKeepsCount(t) ==
    LET visited == {i \in Select : i < t.amount - Cardinality({j \in Ended : j < i})}
        freed   == visited \cap Ended
        read    == {t.fd[i] : i \in visited \ Ended}
    IN  [fd     |-> [i \in Slots |-> IF i \in freed THEN NoPeer ELSE t.fd[i]],
         amount |-> t.amount,
         unread |-> t.unread \ read,
         taken  |-> t.taken \cup read]

(* The loop over the table, t being the table, its count, the unread data  *)
(* and the decoded Crypts.  An entry that is freed lowers conn_amount, the *)
(* bound of the loop, under the entries that follow.                       *)
Recv(t) ==
    LET visited == {i \in Select : i < t.amount - Cardinality({j \in Ended : j < i})}
        freed   == visited \cap Ended
        read    == {t.fd[i] : i \in visited \ Ended}
    IN  [fd     |-> [i \in Slots |-> IF i \in freed THEN NoPeer ELSE t.fd[i]],
         amount |-> t.amount - Cardinality(freed),
         unread |-> t.unread \ read,
         taken  |-> t.taken \cup read]

(* The table as it is after the accept of this turn.  accept is called     *)
(* with an uninitialised addrlen and may fail; then, or when the table is  *)
(* full, the connection is lost and the turn ends without reading.         *)
serverThread(accepted) ==
    LET p      == Head(backlog)
        fits   == conn_amount < MAX_CLIENT
        keeps  == backlog # <<>> /\ accepted /\ fits
        slot   == FreeSlot(fd)
        before == [fd     |-> IF keeps THEN [fd EXCEPT ![slot] = p] ELSE fd,
                   amount |-> IF keeps THEN conn_amount + 1 ELSE conn_amount,
                   unread |-> unread, taken |-> taken]
        after  == IF backlog = <<>> \/ keeps
                  THEN Recv(before)
                  ELSE [before EXCEPT !.unread = @ \ {p}]
    IN  /\ listening
        /\ backlog # <<>> \/ Select # {}
        /\ fd' = after.fd
        /\ conn_amount' = after.amount
        /\ unread' = after.unread
        /\ taken' = after.taken
        /\ backlog' = IF backlog = <<>> THEN backlog ELSE Tail(backlog)
        /\ peer' = IF backlog = <<>> \/ keeps THEN peer ELSE [peer EXCEPT ![p] = "idle"]
        /\ UNCHANGED listening

SockNext ==
    \/ \E p \in Peers : Connect(p) \/ sendCrypt(p) \/ Close(p)
    \/ \E accepted \in BOOLEAN : serverThread(accepted)

-----------------------------------------------------------------------------
(* Properties.                                                             *)

(* conn_amount counts the entries of fd, so that accept finds a free one   *)
(* whenever conn_amount < MAX_CLIENT, and no connection has two entries.   *)
TableMatchesCount ==
    /\ conn_amount = Cardinality(Used)
    /\ \A i, j \in Used : i # j => fd[i] # fd[j]

(* The connections that wait to be accepted.                               *)
Waiting == {backlog[a] : a \in 1 .. Len(backlog)}

(* A Crypt that was sent is not lost, unless its connection is refused: it *)
(* has been decoded, or it can still be read from a connection that waits  *)
(* or has an entry.  An entry may be out of the loop's sight, when a lower *)
(* one was freed and conn_amount fell; but then one of those in sight is   *)
(* free, and the next connection to be accepted moves the bound up.        *)
CryptIsKept ==
    \A p \in Peers :
        peer[p] \in {"sent", "closed"} =>
            \/ p \in taken
            \/ p \in unread /\ p \in Waiting
            \/ /\ p \in unread
               /\ \E i \in Used :
                     /\ fd[i] = p
                     /\ i < conn_amount \/ \E j \in 0 .. conn_amount - 1 : fd[j] = NoPeer

=============================================================================
