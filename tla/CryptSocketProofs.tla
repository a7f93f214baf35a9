------------------------- MODULE CryptSocketProofs -------------------------
(***************************************************************************)
(* The table of connections of serverThread, for any number of entries and *)
(* of pairing processes.  SockInv holds initially, in the table of a new   *)
(* process, and after every step of the thread and of its peers;           *)
(* WifiServerProofs composes this with the rest of the process.            *)
(***************************************************************************)
EXTENDS CryptSocket, FiniteSetTheorems, WellFoundedInduction, TLAPS

USE CryptSocketAssumption

-----------------------------------------------------------------------------
(* The inductive invariant.                                                *)

SockType ==
    /\ listening \in BOOLEAN
    /\ backlog \in Seq(Peers)
    /\ fd \in [Slots -> Peers \cup {NoPeer}]
    /\ peer \in [Peers -> {"idle", "connected", "sent", "closed"}]
    /\ unread \subseteq Peers
    /\ taken \subseteq Peers

InTable == {fd[i] : i \in Used}

(* A connection is in one place: once in the backlog, or in one entry.     *)
OnePlace ==
    /\ \A a, b \in 1 .. Len(backlog) : a # b => backlog[a] # backlog[b]
    /\ \A i, j \in Used : i # j => fd[i] # fd[j]
    /\ \A i \in Used : fd[i] \notin Waiting
    /\ \A q \in Waiting : peer[q] # "idle"
    /\ \A i \in Used : peer[fd[i]] # "idle"

(* A connection is somewhere until its Crypt has been taken.               *)
KeptInv ==
    \A p \in Peers :
        /\ peer[p] = "connected" => p \in Waiting \cup InTable
        /\ peer[p] \in {"sent", "closed"} =>
              p \in taken \/ (p \in unread /\ p \in Waiting \cup InTable)

SockInv ==
    /\ SockType
    /\ conn_amount = Cardinality(Used)
    /\ OnePlace
    /\ KeptInv

-----------------------------------------------------------------------------
(* The entries in use, and the one that accept takes.                      *)

(* The table is finite, and so is every part of it.                        *)
LEMMA TableFinite ==
    /\ IsFiniteSet(Slots) /\ Cardinality(Slots) = MAX_CLIENT
    /\ \A S \in SUBSET Slots : IsFiniteSet(S) /\ Cardinality(S) \in Nat
                               /\ Cardinality(S) <= MAX_CLIENT
<1>1. IsFiniteSet(Slots) /\ Cardinality(Slots) = MAX_CLIENT
  BY FS_Interval DEF Slots
<1>2. \A S \in SUBSET Slots : IsFiniteSet(S) /\ Cardinality(S) <= Cardinality(Slots)
  BY <1>1, FS_Subset
<1> QED BY <1>1, <1>2, FS_CardinalityType

(* When conn_amount is below MAX_CLIENT there is a free entry, and the     *)
(* loop of accept finds the first.                                         *)
LEMMA FreeSlotIsFirst ==
    ASSUME SockType, conn_amount = Cardinality(Used), conn_amount < MAX_CLIENT
    PROVE  /\ FreeSlot(fd) \in Slots \ Used
           /\ \A j \in 0 .. FreeSlot(fd) - 1 : j \in Used
<1> DEFINE Free == Slots \ Used
<1>1. Free # {}
  <2>1. Used \subseteq Slots
    BY DEF Used
  <2> SUFFICES ASSUME Used = Slots PROVE FALSE
    BY <2>1
  <2> QED BY TableFinite
<1>2. Free \subseteq Nat
  BY DEF Slots
<1>3. PICK x \in Free : \A y \in Free : ~ (<<y, x>> \in OpToRel(<, Nat))
  BY <1>1, <1>2, NatLessThanWellFounded, WFMin
<1>4. \A y \in Free : ~(y < x)
  BY <1>2, <1>3 DEF OpToRel
<1>5. /\ x \in Slots /\ fd[x] = NoPeer
      /\ \A j \in 0 .. x - 1 : fd[j] # NoPeer
  <2>1. x \in Slots /\ fd[x] = NoPeer
    BY <1>3 DEF Used
  <2>2. ASSUME NEW j \in 0 .. x - 1 PROVE fd[j] # NoPeer
    <3>1. j \in Slots /\ j < x
      BY <2>1, <2>2 DEF Slots
    <3> QED BY <1>4, <3>1 DEF Used
  <2> QED BY <2>1, <2>2
<1> DEFINE s == FreeSlot(fd)
<1>6. s \in Slots /\ fd[s] = NoPeer /\ \A j \in 0 .. s - 1 : fd[j] # NoPeer
  BY <1>5 DEF FreeSlot
<1>7. \A j \in 0 .. s - 1 : j \in Slots
  BY <1>6 DEF Slots
<1> QED BY <1>6, <1>7 DEF Used

(* Taking entries away lowers the count by their number.                   *)
LEMMA CountWithout ==
    ASSUME NEW U \in SUBSET Slots, NEW F \in SUBSET U
    PROVE  Cardinality(U \ F) = Cardinality(U) - Cardinality(F)
<1>1. IsFiniteSet(U \ F) /\ IsFiniteSet(F)
  BY TableFinite
<1>2. Cardinality((U \ F) \cup F) =
          Cardinality(U \ F) + Cardinality(F) - Cardinality((U \ F) \cap F)
  BY <1>1, FS_Union
<1>3. (U \ F) \cup F = U /\ (U \ F) \cap F = {}
  OBVIOUS
<1>4. /\ Cardinality(U \ F) \in Nat /\ Cardinality(F) \in Nat
      /\ Cardinality(U) \in Nat /\ Cardinality({}) = 0
  BY TableFinite, FS_EmptySet
<1>5. Cardinality(U) = Cardinality(U \ F) + Cardinality(F) - 0
  BY <1>2, <1>3, <1>4
<1> QED BY <1>4, <1>5

-----------------------------------------------------------------------------
(* Init, a new process, and the peers.                                     *)

(* The table is empty at first.                                            *)
LEMMA SockInitInv == SockInit => SockInv
<1> SUFFICES ASSUME SockInit PROVE SockInv
  OBVIOUS
<1>1. Used = {}
  BY DEF SockInit, Used, EmptyFds
<1>2. Waiting = {}
  BY DEF SockInit, Waiting
<1>3. conn_amount = Cardinality(Used)
  BY <1>1, FS_EmptySet DEF SockInit
<1>4. SockType
  <2>1. listening \in BOOLEAN
    BY DEF SockInit
  <2>2. backlog \in Seq(Peers)
    BY DEF SockInit
  <2>3. fd \in [Slots -> Peers \cup {NoPeer}]
    BY DEF SockInit, EmptyFds
  <2>4. peer \in [Peers -> {"idle", "connected", "sent", "closed"}]
    BY DEF SockInit
  <2> QED BY <2>1, <2>2, <2>3, <2>4 DEF SockType, SockInit
<1>5. \A a \in 1 .. Len(backlog) : FALSE
  BY DEF SockInit
<1>6. \A p \in Peers : peer[p] = "idle"
  BY DEF SockInit
<1> QED BY <1>1, <1>2, <1>3, <1>4, <1>5, <1>6 DEF SockInv, OnePlace, KeptInv

(* So is that of a new process.                                            *)
LEMMA SockResetInv == ASSUME NEW on \in BOOLEAN, SockReset(on) PROVE SockInv'
<1>1. Used' = {}
  BY DEF SockReset, Used, EmptyFds
<1>2. Waiting' = {}
  BY DEF SockReset, Waiting
<1>3. conn_amount' = Cardinality(Used')
  BY <1>1, FS_EmptySet DEF SockReset
<1>4. SockType'
  BY DEF SockType, SockReset, EmptyFds
<1>5. \A a \in 1 .. Len(backlog') : FALSE
  BY DEF SockReset
<1>6. \A p \in Peers : peer'[p] = "idle"
  BY DEF SockReset
<1> QED BY <1>1, <1>2, <1>3, <1>4, <1>5, <1>6 DEF SockInv, OnePlace, KeptInv

(* A peer that connects is new to the backlog and to the table.            *)
LEMMA ConnectInv == ASSUME SockInv, NEW p \in Peers, Connect(p) PROVE SockInv'
<1> USE DEF SockInv
<1>1. SockType'
  BY DEF SockType, Connect
<1>2. Used' = Used /\ conn_amount' = conn_amount /\ fd' = fd
  BY DEF Connect, Used
<1>3. p \notin Waiting /\ \A i \in Used : fd[i] # p
  BY DEF Connect, OnePlace
<1>4. /\ Len(backlog') = Len(backlog) + 1 /\ Len(backlog) \in Nat
      /\ \A a \in 1 .. Len(backlog) : backlog'[a] = backlog[a]
      /\ backlog'[Len(backlog) + 1] = p
  BY DEF Connect, SockType
<1>5. Waiting' = Waiting \cup {p}
  <2>1. \A a \in 1 .. Len(backlog') : a \in 1 .. Len(backlog) \/ a = Len(backlog) + 1
    BY <1>4
  <2>2. \A q \in Waiting' : q \in Waiting \cup {p}
    BY <1>4, <2>1 DEF Waiting
  <2>3. \A q \in Waiting : q \in Waiting'
    <3> TAKE q \in Waiting
    <3>1. PICK a \in 1 .. Len(backlog) : q = backlog[a]
      BY DEF Waiting
    <3>2. a \in 1 .. Len(backlog') /\ backlog'[a] = q
      BY <1>4, <3>1
    <3> QED BY <3>2 DEF Waiting
  <2>4. p \in Waiting'
    <3>1. Len(backlog) + 1 \in 1 .. Len(backlog')
      BY <1>4
    <3> QED BY <1>4, <3>1 DEF Waiting
  <2> QED BY <2>2, <2>3, <2>4
<1>6. \A a, b \in 1 .. Len(backlog') : a # b => backlog'[a] # backlog'[b]
  <2> SUFFICES ASSUME NEW a \in 1 .. Len(backlog'), NEW b \in 1 .. Len(backlog'), a < b
               PROVE  backlog'[a] # backlog'[b]
    BY <1>4
  <2>1. a \in 1 .. Len(backlog) /\ backlog'[a] = backlog[a]
    BY <1>4
  <2>2. CASE b \in 1 .. Len(backlog)
    BY <1>4, <2>1, <2>2 DEF OnePlace
  <2>3. CASE b = Len(backlog) + 1
    BY <1>3, <1>4, <2>1, <2>3 DEF Waiting
  <2> QED BY <1>4, <2>2, <2>3
<1>7. peer'[p] = "connected" /\ \A q \in Peers \ {p} : peer'[q] = peer[q]
  BY DEF Connect, SockType
<1>8. Waiting \subseteq Peers /\ \A i \in Used : fd[i] \in Peers
  BY DEF Waiting, Used, SockType
<1>9. OnePlace'
  BY <1>2, <1>3, <1>5, <1>6, <1>7, <1>8 DEF OnePlace
<1>10. KeptInv'
  <2>1. InTable' = InTable /\ unread' = unread /\ taken' = taken
    BY <1>2 DEF InTable, Connect
  <2> QED BY <1>5, <1>7, <2>1 DEF KeptInv
<1> QED BY <1>1, <1>2, <1>9, <1>10

(* sendCrypt and close leave a connection where it is.                     *)
LEMMA PeerInv ==
    ASSUME SockInv, NEW p \in Peers, sendCrypt(p) \/ Close(p)
    PROVE  SockInv'
<1> USE DEF SockInv
<1>1. SockType'
  BY DEF SockType, sendCrypt, Close
<1>2. Used' = Used /\ conn_amount' = conn_amount /\ fd' = fd /\ backlog' = backlog
  BY DEF sendCrypt, Close, Used
<1>3. Waiting' = Waiting
  BY <1>2 DEF Waiting
<1>4. \A q \in Peers : peer[q] # "idle" => peer'[q] # "idle"
  BY DEF sendCrypt, Close, SockType
<1>5. Waiting \subseteq Peers /\ \A i \in Used : fd[i] \in Peers
  BY DEF Waiting, Used, SockType
<1>6. OnePlace'
  BY <1>2, <1>3, <1>4, <1>5 DEF OnePlace
<1>7. KeptInv'
  <2>1. InTable' = InTable /\ taken' = taken
    BY <1>2 DEF InTable, sendCrypt, Close
  <2>2. CASE sendCrypt(p)
    BY <1>3, <2>1, <2>2 DEF sendCrypt, KeptInv, SockType
  <2>3. CASE Close(p)
    BY <1>3, <2>1, <2>3 DEF Close, KeptInv, SockType
  <2> QED BY <2>2, <2>3
<1> QED BY <1>1, <1>2, <1>6, <1>7

-----------------------------------------------------------------------------
(* A turn of the thread.                                                   *)

(* What the loop over the table may do: free some entries whose peer has   *)
(* closed and left nothing to read, count them off, and take what it reads *)
(* from others.                                                            *)
LEMMA RecvFrees ==
    ASSUME NEW tab \in [Slots -> Peers \cup {NoPeer}], NEW amt,
           NEW ur \in SUBSET Peers, NEW tk \in SUBSET Peers,
           \A i \in Used : tab[i] \in Peers,
           NEW r, r = Recv([fd |-> tab, amount |-> amt, unread |-> ur, taken |-> tk])
    PROVE  /\ \E F \in SUBSET Used :
                 /\ r.fd = [i \in Slots |-> IF i \in F THEN NoPeer ELSE tab[i]]
                 /\ r.amount = amt - Cardinality(F)
                 /\ \A i \in F : fd[i] \notin unread /\ peer[fd[i]] = "closed"
           /\ \E R \in SUBSET Peers : r.unread = ur \ R /\ r.taken = tk \cup R
<1> DEFINE t == [fd |-> tab, amount |-> amt, unread |-> ur, taken |-> tk]
           visited == {i \in Select : i < t.amount - Cardinality({j \in Ended : j < i})}
           freed == visited \cap Ended
           read == {t.fd[i] : i \in visited \ Ended}
<1>1. Recv(t) = [fd     |-> [i \in Slots |-> IF i \in freed THEN NoPeer ELSE t.fd[i]],
                 amount |-> t.amount - Cardinality(freed),
                 unread |-> t.unread \ read,
                 taken  |-> t.taken \cup read]
  BY DEF Recv
<1>2. freed \subseteq Used /\ visited \subseteq Used
  BY DEF Select
<1>3. read \subseteq Peers
  <2> HIDE DEF visited
  <2> QED BY <1>2
<1>4. \A i \in freed : fd[i] \notin unread /\ peer[fd[i]] = "closed"
  BY DEF Ended, Select, Readable
<1> HIDE DEF visited, freed, read
<1>5. /\ Recv(t).fd = [i \in Slots |-> IF i \in freed THEN NoPeer ELSE tab[i]]
      /\ Recv(t).amount = amt - Cardinality(freed)
      /\ Recv(t).unread = ur \ read /\ Recv(t).taken = tk \cup read
  BY <1>1
<1> HIDE DEF t
<1>6. /\ \E F \in SUBSET Used :
            /\ Recv(t).fd = [i \in Slots |-> IF i \in F THEN NoPeer ELSE tab[i]]
            /\ Recv(t).amount = amt - Cardinality(F)
            /\ \A i \in F : fd[i] \notin unread /\ peer[fd[i]] = "closed"
      /\ \E R \in SUBSET Peers : Recv(t).unread = ur \ R /\ Recv(t).taken = tk \cup R
  BY <1>2, <1>3, <1>4, <1>5
<1> QED BY <1>6 DEF t

(* The connection that accept takes from the backlog is in it no more.     *)
LEMMA AcceptShortens ==
    ASSUME SockType, OnePlace, backlog # <<>>, backlog' = Tail(backlog)
    PROVE  /\ Head(backlog) \in Waiting /\ Head(backlog) \in Peers
           /\ Waiting' = Waiting \ {Head(backlog)}
           /\ backlog' \in Seq(Peers)
           /\ \A a, b \in 1 .. Len(backlog') : a # b => backlog'[a] # backlog'[b]
<1>1. /\ Len(backlog) \in Nat /\ Len(backlog) >= 1
      /\ Len(backlog') = Len(backlog) - 1
      /\ \A a \in 1 .. Len(backlog') : backlog'[a] = backlog[a + 1]
      /\ Head(backlog) = backlog[1]
      /\ backlog' \in Seq(Peers)
      /\ Head(backlog) \in Peers
  BY DEF SockType
<1>2. 1 \in 1 .. Len(backlog) /\ \A a \in 1 .. Len(backlog') : a + 1 \in 1 .. Len(backlog)
  BY <1>1
<1>3. \A a, b \in 1 .. Len(backlog) : a # b => backlog[a] # backlog[b]
  BY DEF OnePlace
<1>4. \A a, b \in 1 .. Len(backlog') : a # b => backlog'[a] # backlog'[b]
  <2> SUFFICES ASSUME NEW a \in 1 .. Len(backlog'), NEW b \in 1 .. Len(backlog'), a # b
               PROVE  backlog'[a] # backlog'[b]
    OBVIOUS
  <2>1. a + 1 # b + 1
    BY <1>1
  <2> QED BY <1>1, <1>2, <1>3, <2>1
<1>5. \A q \in Waiting' : q \in Waiting \ {Head(backlog)}
  <2> SUFFICES ASSUME NEW a \in 1 .. Len(backlog')
               PROVE  backlog'[a] \in Waiting \ {Head(backlog)}
    BY DEF Waiting
  <2>1. a + 1 \in 1 .. Len(backlog) /\ a + 1 # 1
    BY <1>1, <1>2
  <2> QED BY <1>1, <1>2, <1>3, <2>1 DEF Waiting
<1>6. \A q \in Waiting \ {Head(backlog)} : q \in Waiting'
  <2> TAKE q \in Waiting \ {Head(backlog)}
  <2>1. PICK a \in 1 .. Len(backlog) : q = backlog[a]
    BY DEF Waiting
  <2>2. a # 1
    BY <1>1, <2>1
  <2>3. a - 1 \in 1 .. Len(backlog') /\ (a - 1) + 1 = a
    BY <1>1, <2>2
  <2>4. backlog'[a - 1] = q
    BY <1>1, <2>1, <2>3
  <2> QED BY <2>3, <2>4 DEF Waiting
<1>7. Head(backlog) \in Waiting
  BY <1>1, <1>2 DEF Waiting
<1> QED BY <1>1, <1>4, <1>5, <1>6, <1>7

(* A turn without a new connection only frees entries and reads.           *)
LEMMA TurnReads ==
    ASSUME SockInv, NEW accepted \in BOOLEAN, serverThread(accepted), backlog = <<>>
    PROVE  SockInv'
<1> USE DEF SockInv
<1> DEFINE r == Recv([fd |-> fd, amount |-> conn_amount, unread |-> unread, taken |-> taken])
<1>1. /\ fd' = r.fd /\ conn_amount' = r.amount /\ unread' = r.unread /\ taken' = r.taken
      /\ backlog' = backlog /\ peer' = peer /\ listening' = listening
  BY DEF serverThread
<1>2. \A i \in Used : fd[i] \in Peers
  BY DEF Used, SockType
<1>3. /\ \E F \in SUBSET Used :
            /\ r.fd = [i \in Slots |-> IF i \in F THEN NoPeer ELSE fd[i]]
            /\ r.amount = conn_amount - Cardinality(F)
            /\ \A i \in F : fd[i] \notin unread /\ peer[fd[i]] = "closed"
      /\ \E R \in SUBSET Peers : r.unread = unread \ R /\ r.taken = taken \cup R
  <2> DEFINE tab == fd
             amt == conn_amount
  <2>1. /\ tab \in [Slots -> Peers \cup {NoPeer}]
        /\ unread \in SUBSET Peers /\ taken \in SUBSET Peers
        /\ \A i \in Used : tab[i] \in Peers
    BY <1>2 DEF SockType
  <2>2. r = Recv([fd |-> tab, amount |-> amt, unread |-> unread, taken |-> taken])
    OBVIOUS
  <2> HIDE DEF SockInv, r, tab, amt
  <2>3. /\ \E F \in SUBSET Used :
              /\ r.fd = [i \in Slots |-> IF i \in F THEN NoPeer ELSE tab[i]]
              /\ r.amount = amt - Cardinality(F)
              /\ \A i \in F : fd[i] \notin unread /\ peer[fd[i]] = "closed"
        /\ \E R \in SUBSET Peers : r.unread = unread \ R /\ r.taken = taken \cup R
    BY ONLY <2>1, <2>2, RecvFrees
  <2> QED BY <2>3 DEF tab, amt
<1> HIDE DEF r
<1>4. PICK F \in SUBSET Used :
          /\ fd' = [i \in Slots |-> IF i \in F THEN NoPeer ELSE fd[i]]
          /\ conn_amount' = conn_amount - Cardinality(F)
          /\ \A i \in F : fd[i] \notin unread /\ peer[fd[i]] = "closed"
  BY <1>1, <1>3
<1>5. Used' = Used \ F /\ Used \subseteq Slots /\ \A i \in Used \ F : fd'[i] = fd[i]
  BY <1>4 DEF Used
<1>6. conn_amount' = Cardinality(Used')
  BY <1>4, <1>5, CountWithout
<1>7. Waiting' = Waiting
  BY <1>1 DEF Waiting
<1>8. SockType'
  BY <1>1, <1>3, <1>4 DEF SockType
<1>9. OnePlace'
  BY <1>1, <1>5, <1>7 DEF OnePlace
<1>10. KeptInv'
  <2>1. PICK R \in SUBSET Peers : unread' = unread \ R /\ taken' = taken \cup R
    BY <1>1, <1>3
  <2>2. \A q \in InTable : q \in InTable' \/ (q \notin unread /\ peer[q] = "closed")
    BY <1>4, <1>5 DEF InTable
  <2> QED BY <1>1, <1>7, <2>1, <2>2 DEF KeptInv
<1> QED BY <1>6, <1>8, <1>9, <1>10

(* A connection that is accepted takes the first free entry.               *)
LEMMA TurnAccepts ==
    ASSUME SockInv, serverThread(TRUE), backlog # <<>>, conn_amount < MAX_CLIENT
    PROVE  SockInv'
<1> USE DEF SockInv
<1> DEFINE p == Head(backlog)
           slot == FreeSlot(fd)
           tab == [fd EXCEPT ![slot] = p]
           U == Used \cup {slot}
           r == Recv([fd |-> tab, amount |-> conn_amount + 1,
                      unread |-> unread, taken |-> taken])
<1>1. /\ fd' = r.fd /\ conn_amount' = r.amount /\ unread' = r.unread /\ taken' = r.taken
      /\ backlog' = Tail(backlog) /\ peer' = peer /\ listening' = listening
  BY DEF serverThread
<1>2. /\ p \in Waiting /\ p \in Peers
      /\ Waiting' = Waiting \ {p}
      /\ backlog' \in Seq(Peers)
      /\ \A a, b \in 1 .. Len(backlog') : a # b => backlog'[a] # backlog'[b]
  BY <1>1, AcceptShortens
<1>3. slot \in Slots \ Used /\ \A j \in 0 .. slot - 1 : j \in Used
  BY FreeSlotIsFirst
<1> HIDE DEF p, slot
<1>4. /\ tab \in [Slots -> Peers \cup {NoPeer}]
      /\ \A i \in U : tab[i] = (IF i = slot THEN p ELSE fd[i]) /\ tab[i] \in Peers
      /\ \A i \in Slots \ U : tab[i] = NoPeer
  BY <1>2, <1>3 DEF SockType, Used
<1>5. /\ \E F \in SUBSET Used :
            /\ r.fd = [i \in Slots |-> IF i \in F THEN NoPeer ELSE tab[i]]
            /\ r.amount = (conn_amount + 1) - Cardinality(F)
            /\ \A i \in F : fd[i] \notin unread /\ peer[fd[i]] = "closed"
      /\ \E R \in SUBSET Peers : r.unread = unread \ R /\ r.taken = taken \cup R
  <2>1. /\ unread \in SUBSET Peers /\ taken \in SUBSET Peers
        /\ \A i \in Used : tab[i] \in Peers
    BY <1>4 DEF SockType
  <2>2. r = Recv([fd |-> tab, amount |-> conn_amount + 1, unread |-> unread,
                  taken |-> taken])
    OBVIOUS
  <2> HIDE DEF SockInv, tab, r
  <2> QED BY ONLY <1>4, <2>1, <2>2, RecvFrees
<1> HIDE DEF r
<1>6. PICK F \in SUBSET Used :
          /\ fd' = [i \in Slots |-> IF i \in F THEN NoPeer ELSE tab[i]]
          /\ conn_amount' = (conn_amount + 1) - Cardinality(F)
          /\ \A i \in F : fd[i] \notin unread /\ peer[fd[i]] = "closed"
  BY <1>1, <1>5
<1>7. U \subseteq Slots
  BY <1>3 DEF Used
<1> HIDE DEF tab
<1>8. Used' = U \ F /\ \A i \in U \ F : fd'[i] = (IF i = slot THEN p ELSE fd[i])
  <2>1. \A i \in Slots : i \in Used' <=> i \in U \ F
    <3> TAKE i \in Slots
    <3>1. CASE i \in F
      BY <1>6, <3>1 DEF Used
    <3>2. CASE i \in U \ F
      BY <1>4, <1>6, <3>2 DEF Used
    <3>3. CASE i \notin U
      BY <1>4, <1>6, <3>3 DEF Used
    <3> QED BY <3>1, <3>2, <3>3
  <2>2. Used' \subseteq Slots
    BY DEF Used
  <2>3. \A i \in U \ F : fd'[i] = (IF i = slot THEN p ELSE fd[i])
    BY <1>4, <1>6, <1>7
  <2> QED BY <1>7, <2>1, <2>2, <2>3
<1>9. conn_amount' = Cardinality(Used')
  <2>1. Cardinality(U) = Cardinality(Used) + 1
    BY <1>3, TableFinite, FS_AddElement DEF Used
  <2>2. Cardinality(U \ F) = Cardinality(U) - Cardinality(F)
    BY <1>7, CountWithout
  <2> HIDE DEF U
  <2> QED BY <1>6, <1>8, <2>1, <2>2
<1>10. SockType'
  <2>1. fd' \in [Slots -> Peers \cup {NoPeer}]
    BY <1>4, <1>6
  <2> QED BY <1>1, <1>2, <1>5, <2>1 DEF SockType
<1>11. Waiting \subseteq Peers /\ \A i \in Used : fd[i] # p /\ fd[i] \in Peers
  BY <1>2 DEF OnePlace, Used, SockType, Waiting
<1>12. OnePlace'
  <2>1. \A i, j \in Used' : i # j => fd'[i] # fd'[j]
    BY <1>8, <1>11 DEF OnePlace
  <2>2. \A i \in Used' : fd'[i] \notin Waiting' /\ peer'[fd'[i]] # "idle"
    BY <1>1, <1>2, <1>8, <1>11 DEF OnePlace
  <2>3. \A q \in Waiting' : peer'[q] # "idle"
    BY <1>1, <1>2 DEF OnePlace
  <2> QED BY <1>2, <2>1, <2>2, <2>3 DEF OnePlace
<1>13. KeptInv'
  <2>1. PICK R \in SUBSET Peers : unread' = unread \ R /\ taken' = taken \cup R
    BY <1>1, <1>5
  <2>2. \A q \in InTable : q \in InTable' \/ (q \notin unread /\ peer[q] = "closed")
    BY <1>3, <1>6, <1>8 DEF InTable
  <2>3. p \in InTable'
    BY <1>3, <1>8 DEF InTable
  <2> QED BY <1>1, <1>2, <2>1, <2>2, <2>3 DEF KeptInv
<1> QED BY <1>9, <1>10, <1>12, <1>13

(* A connection that is lost, at a full table or because accept failed,    *)
(* leaves the table alone.                                                 *)
LEMMA TurnRefuses ==
    ASSUME SockInv, NEW accepted \in BOOLEAN, serverThread(accepted), backlog # <<>>,
           ~(accepted /\ conn_amount < MAX_CLIENT)
    PROVE  SockInv'
<1> USE DEF SockInv
<1> DEFINE p == Head(backlog)
<1>1. /\ fd' = fd /\ conn_amount' = conn_amount /\ unread' = unread \ {p} /\ taken' = taken
      /\ backlog' = Tail(backlog) /\ peer' = [peer EXCEPT ![p] = "idle"]
      /\ listening' = listening
  BY DEF serverThread
<1>2. /\ p \in Waiting /\ p \in Peers
      /\ Waiting' = Waiting \ {p}
      /\ backlog' \in Seq(Peers)
      /\ \A a, b \in 1 .. Len(backlog') : a # b => backlog'[a] # backlog'[b]
  BY <1>1, AcceptShortens
<1> HIDE DEF p
<1>3. SockType'
  BY <1>1, <1>2 DEF SockType
<1>4. Used' = Used
  BY <1>1 DEF Used
<1>5. \A q \in Peers \ {p} : peer'[q] = peer[q]
  BY <1>1 DEF SockType
<1>6. Waiting \subseteq Peers /\ \A i \in Used : fd[i] # p /\ fd[i] \in Peers
  BY <1>2 DEF OnePlace, Used, SockType, Waiting
<1>7. OnePlace'
  BY <1>1, <1>2, <1>4, <1>5, <1>6 DEF OnePlace
<1>8. KeptInv'
  <2>1. InTable' = InTable
    BY <1>1, <1>4 DEF InTable
  <2>2. peer'[p] = "idle"
    BY <1>1, <1>2 DEF SockType
  <2> QED BY <1>1, <1>2, <1>5, <2>1, <2>2 DEF KeptInv
<1> QED BY <1>1, <1>3, <1>4, <1>7, <1>8

(* Every step of the thread and of its peers keeps the invariant.          *)
LEMMA SockNextInv == ASSUME SockInv, SockNext PROVE SockInv'
<1>1. ASSUME NEW accepted \in BOOLEAN, serverThread(accepted) PROVE SockInv'
  <2>1. CASE backlog = <<>>
    BY <1>1, <2>1, TurnReads
  <2>2. CASE backlog # <<>> /\ accepted /\ conn_amount < MAX_CLIENT
    BY <1>1, <2>2, TurnAccepts
  <2>3. CASE backlog # <<>> /\ ~(accepted /\ conn_amount < MAX_CLIENT)
    BY <1>1, <2>3, TurnRefuses
  <2> QED BY <2>1, <2>2, <2>3
<1> QED BY <1>1, ConnectInv, PeerInv DEF SockNext

(* The invariant is about nothing but the thread and its peers.            *)
LEMMA SockUnchangedInv == ASSUME SockInv, UNCHANGED sockVars PROVE SockInv'
  BY DEF SockInv, sockVars, SockType, OnePlace, KeptInv, InTable, Used, Waiting

-----------------------------------------------------------------------------
(* What the invariant gives.                                               *)

(* The count is right, and no connection has two entries.                  *)
LEMMA TableIsCounted == SockInv => TableMatchesCount
  BY DEF SockInv, OnePlace, TableMatchesCount

(* The count never exceeds the table.                                      *)
LEMMA AmountInTable == SockInv => conn_amount \in 0 .. MAX_CLIENT
  BY TableFinite DEF SockInv, Used

(* An entry beyond conn_amount has a free one below it, in sight.          *)
LEMMA HoleInSight ==
    ASSUME SockInv, NEW i \in Used, ~(i < conn_amount)
    PROVE  \E j \in 0 .. conn_amount - 1 : fd[j] = NoPeer
<1> DEFINE Low == 0 .. conn_amount - 1
<1>1. conn_amount \in Nat /\ conn_amount = Cardinality(Used) /\ conn_amount <= MAX_CLIENT
  BY AmountInTable DEF SockInv
<1>2. Used \subseteq Slots /\ IsFiniteSet(Used) /\ i \in Slots
  BY TableFinite DEF Used
<1>3. IsFiniteSet(Low) /\ Cardinality(Low) = conn_amount
  <2>1. CASE conn_amount = 0
    <3>1. Low = {}
      BY <2>1
    <3> QED BY <2>1, <3>1, FS_EmptySet
  <2>2. CASE conn_amount # 0
    <3>1. 0 \in Int /\ conn_amount - 1 \in Int /\ ~(0 > conn_amount - 1)
          /\ (conn_amount - 1) - 0 + 1 = conn_amount
      BY <1>1, <2>2
    <3> QED BY <3>1, FS_Interval
  <2> QED BY <2>1, <2>2
<1>4. Low \subseteq Slots /\ i \notin Low
  BY <1>1, <1>2 DEF Slots
<1> HIDE DEF Low
<1> SUFFICES ASSUME \A j \in Low : fd[j] # NoPeer PROVE FALSE
  BY DEF Low
<1>5. Low \cup {i} \subseteq Used
  BY <1>4 DEF Used
<1>6. Cardinality(Low \cup {i}) = conn_amount + 1
  BY <1>3, <1>4, FS_AddElement
<1>7. Cardinality(Low \cup {i}) <= Cardinality(Used)
  BY <1>2, <1>5, FS_Subset
<1> QED BY <1>1, <1>6, <1>7

(* A Crypt that was sent has been taken or can still be.                   *)
LEMMA SentIsKept == SockInv => CryptIsKept
<1> SUFFICES ASSUME SockInv, NEW p \in Peers, peer[p] \in {"sent", "closed"},
                    p \notin taken, p \notin Waiting
             PROVE  /\ p \in unread
                    /\ \E i \in Used :
                          /\ fd[i] = p
                          /\ i < conn_amount \/ \E j \in 0 .. conn_amount - 1 : fd[j] = NoPeer
  BY DEF CryptIsKept, SockInv, KeptInv
<1>1. p \in unread /\ p \in InTable
  BY DEF SockInv, KeptInv
<1>2. PICK i \in Used : fd[i] = p
  BY <1>1 DEF InTable
<1> QED BY <1>1, <1>2, HoleInSight

=============================================================================
