-------------------------- MODULE MqttBridgeProofs --------------------------
(***************************************************************************)
(* What MqttBridge promises for every set of locks, every table size and   *)
(* every number of messages and breaks.                                    *)
(***************************************************************************)
EXTENDS MqttBridge, FiniteSetTheorems, WellFoundedInduction, TLAPS

USE MqttBridgeAssumption

-----------------------------------------------------------------------------
(* The table of locks.                                                     *)

(* A bounded set of positions that is not empty has a last one.            *)
LEMMA LastPosition ==
    ASSUME NEW n \in Nat, NEW A \in SUBSET (1 .. n), A # {}
    PROVE  \E m \in A : \A i \in A : i <= m
<1> DEFINE T == {n - i : i \in A}
<1>1. T \subseteq Nat /\ T # {}
  <2>1. \A i \in A : n - i \in Nat
    OBVIOUS
  <2>2. PICK i \in A : TRUE
    OBVIOUS
  <2> QED BY <2>1, <2>2
<1>2. PICK x \in T : \A y \in T : ~ (<<y, x>> \in OpToRel(<, Nat))
  BY <1>1, NatLessThanWellFounded, WFMin
<1>3. \A y \in T : ~(y < x)
  BY <1>1, <1>2 DEF OpToRel
<1>4. PICK m \in A : x = n - m
  OBVIOUS
<1>5. \A i \in A : i <= m
  <2> TAKE i \in A
  <2>1. n - i \in T
    OBVIOUS
  <2> QED BY <1>3, <1>4, <2>1
<1> QED BY <1>5

(* A set of positions that is not empty has a first one.                   *)
LEMMA FirstPosition ==
    ASSUME NEW n \in Nat, NEW A \in SUBSET (1 .. n), A # {}
    PROVE  \E m \in A : \A i \in A : ~(i < m)
<1>1. A \subseteq Nat
  OBVIOUS
<1>2. PICK m \in A : \A i \in A : ~ (<<i, m>> \in OpToRel(<, Nat))
  BY <1>1, NatLessThanWellFounded, WFMin
<1> QED BY <1>1, <1>2 DEF OpToRel

(* What an update leaves in the table was discovered and is listed in it;  *)
(* it fits, and is everything, or as much as fits.                         *)
LEMMA UpdateFillsTable ==
    ASSUME NEW locks \in Seq(LockIds),
           \A i, j \in DOMAIN locks : i # j => locks[i] # locks[j]
    PROVE  /\ AddLockinfo(InitLockinfo, locks)
                  \subseteq {locks[i] : i \in DOMAIN locks} \cap ble_list
           /\ AddLockinfo(InitLockinfo, locks) \subseteq LockIds
           /\ Cardinality(AddLockinfo(InitLockinfo, locks)) < MAX_LOCK_COUNT
           /\ AddLockinfo(InitLockinfo, locks) # {locks[i] : i \in DOMAIN locks} \cap ble_list
                 => Cardinality(AddLockinfo(InitLockinfo, locks)) = MAX_LOCK_COUNT - 1
<1> DEFINE D == {i \in DOMAIN locks : locks[i] \in ble_list}
           Before(i) == {j \in D : j < i}
           A == {i \in D : Cardinality(Before(i)) < MAX_LOCK_COUNT - 1}
           R == {locks[i] : i \in A}
           n == Len(locks)
<1>1. DOMAIN locks = 1 .. n /\ n \in Nat /\ \A i \in 1 .. n : locks[i] \in LockIds
  OBVIOUS
<1>2. A \subseteq 1 .. n /\ D \subseteq 1 .. n
  BY <1>1
<1>3. IsFiniteSet(1 .. n)
  BY <1>1, FS_Interval
<1>4. IsFiniteSet(A) /\ IsFiniteSet(D) /\ \A i : IsFiniteSet(Before(i))
  <2>1. \A i : Before(i) \subseteq 1 .. n
    BY <1>2
  <2> HIDE DEF A, D, Before
  <2> QED BY <1>2, <1>3, <2>1, FS_Subset
<1>5. AddLockinfo(InitLockinfo, locks) = R
  <2>1. \A i : Cardinality(Before(i)) \in Nat
    BY <1>4, FS_CardinalityType
  <2>2. Cardinality(InitLockinfo) = 0
    BY FS_EmptySet DEF InitLockinfo
  <2>3. \A i : Cardinality(InitLockinfo) + Cardinality(Before(i)) = Cardinality(Before(i))
    <3> HIDE DEF Before
    <3> QED BY <2>1, <2>2
  <2> DEFINE B == {i \in D : Cardinality(InitLockinfo) + Cardinality(Before(i))
                               < MAX_LOCK_COUNT - 1}
  <2>4. AddLockinfo(InitLockinfo, locks) = InitLockinfo \cup {locks[i] : i \in B}
    BY DEF AddLockinfo
  <2>5. B = A
    <3> HIDE DEF Before, D
    <3> QED BY <2>3
  <2> HIDE DEF A, B
  <2> QED BY <2>4, <2>5 DEF InitLockinfo
<1>6. Cardinality(A) < MAX_LOCK_COUNT
  <2>1. CASE A = {}
    <3> HIDE DEF A
    <3> QED BY <2>1, FS_EmptySet
  <2>2. CASE A # {}
    <3>1. PICK m \in A : \A i \in A : i <= m
      <4> HIDE DEF A, D
      <4> QED BY <1>1, <1>2, <2>2, LastPosition
    <3>2. A \subseteq Before(m) \cup {m}
      <4> SUFFICES ASSUME NEW i \in A PROVE i < m \/ i = m
        OBVIOUS
      <4> HIDE DEF A, D, n
      <4>1. i \in 1 .. n /\ m \in 1 .. n /\ i <= m
        BY <1>2, <3>1
      <4> QED BY <1>1, <4>1
    <3>3. m \notin Before(m)
      BY <1>2, <3>1
    <3>4. Cardinality(Before(m)) < MAX_LOCK_COUNT - 1
      BY <3>1
    <3>5. IsFiniteSet(Before(m) \cup {m}) /\ Cardinality(Before(m) \cup {m}) = Cardinality(Before(m)) + 1
      <4> HIDE DEF Before
      <4> QED BY <1>4, <3>3, FS_AddElement
    <3>6. Cardinality(A) <= Cardinality(Before(m) \cup {m})
      <4> HIDE DEF A, Before
      <4> QED BY <3>2, <3>5, FS_Subset
    <3>7. Cardinality(A) \in Nat /\ Cardinality(Before(m)) \in Nat
      <4> HIDE DEF A, Before
      <4> QED BY <1>4, FS_CardinalityType
    <3> HIDE DEF A, Before
    <3> QED BY <3>4, <3>5, <3>6, <3>7
  <2> QED BY <2>1, <2>2
<1>7. Cardinality(R) = Cardinality(A)
  <2> DEFINE f == [i \in A |-> locks[i]]
  <2>1. f \in Bijection(A, R)
    <3>1. f \in Surjection(A, R)
      BY DEF Surjection
    <3>2. f \in Injection(A, R)
      BY <1>1, <1>2 DEF Injection, IsInjective
    <3> QED BY <3>1, <3>2 DEF Bijection
  <2> HIDE DEF A, f, R
  <2> QED BY <1>4, <2>1, FS_Bijection DEF ExistsBijection
<1>8. ASSUME A # D PROVE Cardinality(A) = MAX_LOCK_COUNT - 1
  <2>1. PICK m \in D \ A : \A i \in D \ A : ~(i < m)
    <3>1. D \ A # {} /\ D \ A \subseteq 1 .. n
      BY <1>2, <1>8
    <3> HIDE DEF A, D
    <3> QED BY <1>1, <3>1, FirstPosition
  <2>2. Before(m) \subseteq A
    BY <2>1
  <2>3. ~(Cardinality(Before(m)) < MAX_LOCK_COUNT - 1)
    BY <2>1
  <2> HIDE DEF A, Before, D
  <2>4. /\ Cardinality(A) \in Nat /\ Cardinality(Before(m)) \in Nat
        /\ Cardinality(Before(m)) <= Cardinality(A)
    BY <1>4, <2>2, FS_CardinalityType, FS_Subset
  <2> QED BY <1>6, <2>3, <2>4
<1>9. {locks[i] : i \in DOMAIN locks} \cap ble_list = {locks[i] : i \in D}
  OBVIOUS
<1>10. R # {locks[i] : i \in D} => A # D
  OBVIOUS
<1>11. R \subseteq {locks[i] : i \in D} /\ R \subseteq LockIds
  BY <1>1, <1>2
<1> HIDE DEF A, D, R
<1> QED BY <1>5, <1>6, <1>7, <1>8, <1>9, <1>10, <1>11

-----------------------------------------------------------------------------
(* The inductive invariant.                                                *)

(* The table is that of the last update, and the job that is running was   *)
(* looked up in it.                                                        *)
TableInv ==
    /\ TableFollowsUpdate
    /\ pc = "scan" => lockinfo = {} /\ granted = {}
    /\ pc = "job" => current \in granted \cap ble_list

(* Where the code has a client, and where it is subscribed.                *)
ListenInv ==
    /\ pc \in {"subscribe", "resubscribe", "getUserInfo", "receive", "job"} => client
    /\ pc \in {"getUserInfo", "receive", "job"} /\ link = "up" /\ ~refused =>
          "server" \in subscribed

BridgeInv == TypeOK /\ TableInv /\ ListenInv

(* The bridge starts with an empty table and without a client.             *)
LEMMA InitInv == Init => BridgeInv
<1> SUFFICES ASSUME Init PROVE BridgeInv
  OBVIOUS
<1>1. Cardinality(lockinfo) = 0
  BY FS_EmptySet DEF Init
<1>2. Cardinality(lockinfo) < MAX_LOCK_COUNT
  BY <1>1
<1>3. queue \in Seq(ServerMessages \cup WebAsks)
  BY DEF Init
<1>4. 0 \in 0 .. HeartBeatEvery - 1 /\ 0 \in 0 .. MaxMessages /\ 0 \in 0 .. MaxBreaks
  OBVIOUS
<1>5. TypeOK
  BY <1>3, <1>4 DEF Init, TypeOK
<1>6. TableInv
  BY <1>1, <1>2 DEF Init, TableInv, TableFollowsUpdate
<1>7. ListenInv
  BY DEF Init, ListenInv
<1> QED BY <1>5, <1>6, <1>7 DEF BridgeInv

(* The next message is one that was published, and so are the rest.        *)
LEMMA QueueHead ==
    ASSUME TypeOK, queue # <<>>
    PROVE  /\ Head(queue) \in ServerMessages \cup WebAsks
           /\ Tail(queue) \in Seq(ServerMessages \cup WebAsks)
  BY DEF TypeOK

(* The entries of an update form a list of locks.                          *)
LEMMA UpdateLocks ==
    ASSUME NEW m \in ServerMessages \cup WebAsks, m.type = "UPDATE_USER_INFO"
    PROVE  /\ m.locks \in Seq(LockIds)
           /\ \A i, j \in DOMAIN m.locks : i # j => m.locks[i] # m.locks[j]
<1>1. m \in Updates
  BY DEF ServerMessages, Updates, Jobs, Others, WebAsks
<1>2. m.locks \in LockLists
  BY <1>1 DEF Updates
<1>3. PICK n \in 0 .. Cardinality(LockIds) : m.locks \in [1 .. n -> LockIds]
  BY <1>2 DEF LockLists
<1>4. \A i, j \in DOMAIN m.locks : i # j => m.locks[i] # m.locks[j]
  BY <1>2 DEF LockLists
<1> QED BY <1>3, <1>4

(* SendMQTTMsg goes back to the loop or starts the reconnection.           *)
LEMMA SendStep ==
    ASSUME NEW fits, NEW ok, SendMQTTMsg(fits, ok)
    PROVE  pc' \in {"receive", "reconnect"}
  BY DEF SendMQTTMsg

(* The counter of HeartBeat stays below its limit.                         *)
LEMMA FoldedCounter ==
    ASSUME NEW h \in 0 .. HeartBeatEvery - 1
    PROVE  (h + 1) % HeartBeatEvery \in 0 .. HeartBeatEvery - 1
  OBVIOUS

(* The steps of Init keep the invariant.                                   *)
LEMMA InitStepsInv == ASSUME BridgeInv, InitSteps PROVE BridgeInv'
<1> USE DEF BridgeInv, TypeOK, TableInv, TableFollowsUpdate, ListenInv, broker
<1>1. ASSUME NEW ok \in BOOLEAN, NEW found \in SUBSET LockIds, ScanBLE(ok, found)
      PROVE  BridgeInv'
  BY <1>1 DEF ScanBLE
<1>2. ASSUME NEW okServer \in BOOLEAN, NEW okWeb \in BOOLEAN,
             InitSubscribe(okServer, okWeb)
      PROVE  BridgeInv'
  BY <1>2 DEF InitSubscribe, SubscribeOutcome, Topics
<1> QED BY <1>1, <1>2 DEF InitSteps

(* A new client, or a failure to create one, keeps the invariant.          *)
LEMMA ConnectStepsInv == ASSUME BridgeInv, ConnectSteps PROVE BridgeInv'
<1> USE DEF BridgeInv, TypeOK, TableInv, TableFollowsUpdate, ListenInv, broker, Init_MQTT
<1>1. ASSUME NEW ok \in BOOLEAN, InitConnect(ok) PROVE BridgeInv'
  BY <1>1 DEF InitConnect
<1>2. ASSUME NEW ok \in BOOLEAN, Reconnect(ok) PROVE BridgeInv'
  BY <1>2 DEF Reconnect
<1> QED BY <1>1, <1>2 DEF ConnectSteps

(* Every step of the receiving thread keeps the invariant.                 *)
LEMMA WaitMQTTStepsInv == ASSUME BridgeInv, WaitMQTTSteps PROVE BridgeInv'
<1> USE DEF BridgeInv, TypeOK, TableInv, TableFollowsUpdate, ListenInv, broker
<1>1. ASSUME NEW ok \in BOOLEAN, GetUserInfo(ok) PROVE BridgeInv'
  BY <1>1, SendStep DEF GetUserInfo
<1>2. ASSUME NEW ok \in BOOLEAN, HeartBeat(ok) PROVE BridgeInv'
  <2>1. hbInterval' \in 0 .. HeartBeatEvery - 1
    BY <1>2, FoldedCounter DEF HeartBeat
  <2>2. pc' \in {"receive", "reconnect"}
    BY <1>2, SendStep DEF HeartBeat
  <2> QED BY <1>2, <2>1, <2>2 DEF HeartBeat
<1>3. ASSUME NEW fits \in BOOLEAN, NEW ok \in BOOLEAN, DealUpdate(fits, ok)
      PROVE  BridgeInv'
  <2> DEFINE locks == Head(queue).locks
  <2>1. /\ locks \in Seq(LockIds)
        /\ \A i, j \in DOMAIN locks : i # j => locks[i] # locks[j]
    BY <1>3, QueueHead, UpdateLocks DEF DealUpdate
  <2>2. /\ lockinfo' \subseteq {locks[i] : i \in DOMAIN locks} \cap ble_list
        /\ lockinfo' \subseteq LockIds
        /\ Cardinality(lockinfo') < MAX_LOCK_COUNT
        /\ lockinfo' # {locks[i] : i \in DOMAIN locks} \cap ble_list
              => Cardinality(lockinfo') = MAX_LOCK_COUNT - 1
    <3>1. lockinfo' = AddLockinfo(InitLockinfo, locks)
      BY <1>3 DEF DealUpdate
    <3> HIDE DEF locks
    <3> QED BY <2>1, <3>1, UpdateFillsTable
  <2>3. granted' = {locks[i] : i \in DOMAIN locks}
    BY <1>3 DEF DealUpdate
  <2>4. granted' \subseteq LockIds
    <3> HIDE DEF locks
    <3> QED BY <2>1, <2>3
  <2>5. queue' \in Seq(ServerMessages \cup WebAsks)
    BY <1>3, QueueHead DEF DealUpdate
  <2>6. pc' \in {"receive", "reconnect"}
    BY <1>3, SendStep DEF DealUpdate
  <2> HIDE DEF locks
  <2> QED BY <1>3, <2>2, <2>3, <2>4, <2>5, <2>6 DEF DealUpdate
<1>4. ASSUME NEW publishes \in BOOLEAN, NEW fits \in BOOLEAN, NEW ok \in BOOLEAN,
             JobEnds(publishes, fits, ok)
      PROVE  BridgeInv'
  <2>1. pc' \in {"receive", "reconnect"}
    BY <1>4, SendStep DEF JobEnds
  <2> QED BY <1>4, <2>1 DEF JobEnds
<1>5. CASE DealJob
  <2>1. Tail(queue) \in Seq(ServerMessages \cup WebAsks)
    BY <1>5, QueueHead DEF DealJob
  <2> QED BY <1>5, <2>1 DEF DealJob, Known
<1>6. CASE DoWebMsg
  <2>1. Tail(queue) \in Seq(ServerMessages \cup WebAsks)
    BY <1>6, QueueHead DEF DoWebMsg
  <2> QED BY <1>6, <2>1 DEF DoWebMsg
<1>7. CASE DealOther
  <2>1. Tail(queue) \in Seq(ServerMessages \cup WebAsks)
    BY <1>7, QueueHead DEF DealOther
  <2> QED BY <1>7, <2>1 DEF DealOther
<1>8. ASSUME NEW okServer \in BOOLEAN, NEW okWeb \in BOOLEAN,
             Resubscribe(okServer, okWeb)
      PROVE  BridgeInv'
  BY <1>8 DEF Resubscribe, SubscribeOutcome, Topics
<1> QED BY <1>1, <1>2, <1>3, <1>4, <1>5, <1>6, <1>7, <1>8 DEF WaitMQTTSteps

(* The broker, the server and the network keep the invariant.              *)
LEMMA EnvironmentInv == ASSUME BridgeInv, Environment PROVE BridgeInv'
<1> USE DEF BridgeInv, TypeOK, TableInv, TableFollowsUpdate, ListenInv, broker
<1>1. ASSUME NEW m \in ServerMessages \cup WebAsks, NEW topic, Publish(m, topic)
      PROVE  BridgeInv'
  <2>1. queue' \in Seq(ServerMessages \cup WebAsks)
    BY <1>1 DEF Publish
  <2> QED BY <1>1, <2>1 DEF Publish
<1>2. CASE LinkBreaks
  BY <1>2 DEF LinkBreaks
<1>3. CASE KeepAliveFails
  BY <1>3 DEF KeepAliveFails
<1> QED BY <1>1, <1>2, <1>3 DEF Environment

(* The invariant holds throughout every run of the bridge.                 *)
THEOREM BridgeInvariant == Spec => []BridgeInv
<1>1. BridgeInv /\ [Next]_vars => BridgeInv'
  <2> SUFFICES ASSUME BridgeInv, [Next]_vars PROVE BridgeInv'
    OBVIOUS
  <2>1. CASE UNCHANGED vars
    BY <2>1 DEF vars, BridgeInv, TypeOK, TableInv, TableFollowsUpdate, ListenInv
  <2>2. CASE Aborted
    BY <2>1, <2>2 DEF Aborted
  <2> QED BY <2>1, <2>2, InitStepsInv, ConnectStepsInv, WaitMQTTStepsInv,
             EnvironmentInv DEF Next
<1> QED BY <1>1, InitInv, PTL DEF Spec

(* Every variable keeps its type, and the counter of HeartBeat its range.  *)
THEOREM TypeCorrect == Spec => []TypeOK
<1>1. BridgeInv => TypeOK
  BY DEF BridgeInv
<1> QED BY <1>1, BridgeInvariant, PTL

(* The table holds the discovered locks of the last update, as many as fit *)
(* below MAX_LOCK_COUNT, for any number of locks and entries in an update. *)
THEOREM TableIsCurrent == Spec => []TableFollowsUpdate
<1>1. BridgeInv => TableFollowsUpdate
  BY DEF BridgeInv, TableInv
<1> QED BY <1>1, BridgeInvariant, PTL

(* HandleLockCMD never runs a job on a lock that the last update did not   *)
(* list or the scan did not find, however updates, jobs, reconnections and *)
(* lost messages follow each other.                                        *)
THEOREM OnlyGrantedLocks == Spec => []JobsOnlyForGrantedLocks
<1>1. BridgeInv => JobsOnlyForGrantedLocks
  BY DEF BridgeInv, TableInv, JobsOnlyForGrantedLocks
<1> QED BY <1>1, BridgeInvariant, PTL

(* WaitMQTT never receives on a NULL client, and on a live connection      *)
(* whose SUBSCRIBE was not refused the bridge is subscribed.               *)
THEOREM AlwaysListening == Spec => []ListeningWhenConnected
<1>1. BridgeInv => ListeningWhenConnected
  BY DEF BridgeInv, ListenInv, ListeningWhenConnected
<1> QED BY <1>1, BridgeInvariant, PTL

=============================================================================
