-------------------------- MODULE GuestJobsProofs --------------------------
(***************************************************************************)
(* What a caller of HandleLockCMD can count on, whatever the lock, the     *)
(* timer and the GATT calls do: every job is reported as CommandService    *)
(* says, only what the lock has handled is published, and a job fails only *)
(* for a cause outside the session's code.                                 *)
(*                                                                         *)
(* Two invariants build on FlowInv of GuestProtocolProofs.  JobsInv says   *)
(* what has been handled and reported, CauseInv what has gone wrong.       *)
(***************************************************************************)
EXTENDS GuestProtocolProofs

USE ConnectionsAssumption, GuestSessionAssumption

(* What has been handled and reported.                                     *)

(* The jobs after the current one are untouched, those before it reported. *)
JobOrder ==
    /\ \A k \in JobIds : k > job.id => /\ reports[k] = "none"
                                       /\ handled[k] = "no"
                                       /\ published[k] = "none"
    /\ \A k \in JobIds : k < job.id => reports[k] # "none"
    /\ job.id \in JobIds => (reports[job.id] = "none" <=> pc # "idle")

(* The lock is in a session of the current job or of an earlier one.       *)
LinkOrder ==
    /\ peer.job <= job.id
    /\ pc = "connect" => peer.job < job.id
    /\ pc \in {"notify", "step1", "loop"} => peer.job = job.id
    /\ peer.phase # "off" => peer.job \in JobIds
    /\ \A k \in JobIds : handled[k] # "no" => k <= peer.job
    /\ peer.job \in JobIds => (handled[peer.job] # "no" <=> peer.phase = "end")

(* The thread leaves the loop without an error only when the lock has      *)
(* ended the session, that is, handled the command.                        *)
EndsHandled ==
    /\ pc \in {"connect", "notify", "step1"} => ~quit
    /\ pc \in {"connect", "notify", "step1", "loop"} => err = 0
    /\ pc = "loop" /\ quit => gc.waiting_err \/ gc.receive_err \/ peer.phase = "end"
    /\ pc = "exit" /\ err = 0 => peer.job = job.id /\ peer.phase = "end"

OkWasHandled ==
    \A k \in JobIds : /\ reports[k] = "ok" => handled[k] # "no"
                      /\ published[k] # "none" => reports[k] = "ok"

JobsInv == JobOrder /\ LinkOrder /\ EndsHandled /\ OkWasHandled

-----------------------------------------------------------------------------
(* What has gone wrong.                                                    *)

AllGood(s) == \A i \in 1 .. Len(s) : s[i].good

(* A message that is not good was made by a lock that is in trouble.       *)
BadIsTrouble ==
    pc = "loop" /\ job.id \notin troubled =>
        /\ AllGood(batch) /\ AllGood(inbox) /\ AllGood(peer.out)
        /\ gc.step_max_size # 0 => gc.step_data.good

CauseInv ==
    /\ FailureHasCause
    /\ pc = "exit" /\ err # 0 => job.id \in troubled
    /\ timer \in {"expired", "due"} => job.id \in troubled
    /\ pc \in {"connect", "notify", "step1"} => ~gc.waiting_err /\ ~gc.receive_err
    /\ pc = "loop" /\ (gc.waiting_err \/ gc.receive_err) => job.id \in troubled
    /\ BadIsTrouble

-----------------------------------------------------------------------------
(* JobsInv is kept.                                                        *)

(* The types that the histories need.                                      *)
LEMMA HistoryTypes ==
    ASSUME SessionInv
    PROVE  /\ reports \in [JobIds -> {"none", "ok", "err"}]
           /\ handled \in [JobIds -> Verdicts \cup {"no"}]
           /\ published \in [JobIds -> {"none", "default", "fresh"}]
           /\ job.id \in 0 .. MaxJobs /\ peer.job \in 0 .. MaxJobs
           /\ pc # "idle" => job.id \in JobIds
           /\ pc \in {"idle", "connect", "notify", "step1", "loop", "exit"}
BY DEF SessionInv, TypeOK

(* Before the first job nothing is handled or reported.                    *)
LEMMA InitJobs == Init => JobsInv
<1> SUFFICES ASSUME Init PROVE JobsInv
  OBVIOUS
<1>1. JobOrder
  BY DEF Init, JobOrder, NoJob, JobIds
<1>2. LinkOrder
  BY DEF Init, LinkOrder, NoJob, LinkDown, JobIds
<1>3. EndsHandled
  BY DEF Init, EndsHandled
<1>4. OkWasHandled
  BY DEF Init, OkWasHandled
<1> QED BY <1>1, <1>2, <1>3, <1>4 DEF JobsInv

(* A step inside a session that ends neither the session nor the link.     *)
LEMMA JobsKept ==
    ASSUME JobsInv, UNCHANGED <<pc, job, err, handled, reports, published>>,
           peer'.job = peer.job,
           peer'.phase = "end" <=> peer.phase = "end",
           peer'.phase # "off" => peer.phase # "off",
           pc \in {"connect", "notify", "step1"} => quit' = quit,
           pc = "loop" /\ quit' =>
               gc'.waiting_err \/ gc'.receive_err \/ peer.phase = "end"
    PROVE  JobsInv'
<1>1. JobOrder'
  BY DEF JobsInv, JobOrder
<1>2. LinkOrder'
  BY DEF JobsInv, LinkOrder
<1>3. EndsHandled'
  BY DEF JobsInv, EndsHandled
<1>4. OkWasHandled'
  BY DEF JobsInv, OkWasHandled
<1> QED BY <1>1, <1>2, <1>3, <1>4 DEF JobsInv

(* A job is started when the one before it has been reported.              *)
LEMMA StartJobs == ASSUME SessionInv, JobsInv, StartJob PROVE JobsInv'
<1> USE DEF bridgeVars, glibVars, lockVars, history
<1>0. job.id \in 0 .. MaxJobs /\ peer.job \in 0 .. MaxJobs
      /\ reports \in [JobIds -> {"none", "ok", "err"}]
  BY HistoryTypes
<1>1. ASSUME pc = "idle", NEW k \in JobIds, k < job.id + 1 PROVE reports[k] # "none"
  <2>1. CASE k < job.id
    BY <2>1 DEF JobsInv, JobOrder
  <2>2. CASE k = job.id
    BY <1>1, <2>2 DEF JobsInv, JobOrder
  <2> QED BY <1>0, <1>1, <2>1, <2>2 DEF JobIds
<1>2. ASSUME NEW l \in Locks, NEW keyOk \in BOOLEAN, NEW cmd \in Commands,
             HandleLockCMD(l, keyOk, cmd)
      PROVE  JobsInv'
  <2>1. /\ pc = "idle" /\ pc' = "connect" /\ job'.id = job.id + 1 /\ job.id + 1 \in JobIds
        /\ err' = 0 /\ quit' = FALSE
        /\ UNCHANGED <<peer, handled, reports, published>>
    BY <1>0, <1>2 DEF HandleLockCMD, JobIds
  <2>2. \A k \in JobIds : k > job.id + 1 => k > job.id
    BY <1>0 DEF JobIds
  <2>3. JobOrder'
    <3>1. reports[job.id + 1] = "none"
      BY <1>0, <2>1 DEF JobsInv, JobOrder
    <3> QED BY <1>1, <2>1, <2>2, <3>1 DEF JobsInv, JobOrder
  <2>4. LinkOrder'
    <3>1. peer.job < job.id + 1 /\ peer.job <= job.id + 1
      BY <1>0 DEF JobsInv, LinkOrder
    <3> QED BY <2>1, <3>1 DEF JobsInv, LinkOrder
  <2>5. EndsHandled'
    BY <2>1 DEF EndsHandled
  <2>6. OkWasHandled'
    BY <2>1 DEF JobsInv, OkWasHandled
  <2> QED BY <2>3, <2>4, <2>5, <2>6 DEF JobsInv
<1>3. ASSUME NEW l \in Locks, HandleUnknownCMD(l) PROVE JobsInv'
  <2>1. /\ pc = "idle" /\ pc' = "idle" /\ job'.id = job.id + 1 /\ job.id + 1 \in JobIds
        /\ reports' = [reports EXCEPT ![job.id + 1] = "err"]
        /\ UNCHANGED <<peer, handled, published>>
    BY <1>0, <1>3 DEF HandleUnknownCMD, JobIds, NoJob
  <2>2. \A k \in JobIds : k > job.id + 1 => k > job.id /\ k # job.id + 1
    BY <1>0 DEF JobIds
  <2>3. /\ reports'[job.id + 1] = "err"
        /\ \A k \in JobIds : k # job.id + 1 => reports'[k] = reports[k]
    BY <1>0, <2>1
  <2>4. JobOrder'
    <3>1. \A k \in JobIds : k < job.id + 1 => k # job.id + 1
      BY <1>0 DEF JobIds
    <3> QED BY <1>1, <2>1, <2>2, <2>3, <3>1 DEF JobsInv, JobOrder
  <2>5. LinkOrder'
    <3>1. peer.job <= job.id + 1
      BY <1>0 DEF JobsInv, LinkOrder
    <3> QED BY <2>1, <3>1 DEF JobsInv, LinkOrder
  <2>6. EndsHandled'
    BY <2>1 DEF EndsHandled
  <2>7. OkWasHandled'
    <3>1. published[job.id + 1] = "none"
      BY <1>0, <2>1 DEF JobsInv, JobOrder
    <3> QED BY <2>1, <2>3, <3>1 DEF JobsInv, OkWasHandled
  <2> QED BY <2>4, <2>5, <2>6, <2>7 DEF JobsInv
<1> QED BY <1>2, <1>3 DEF StartJob

(* The lock of a new link has handled nothing of its job.                  *)
LEMMA OpeningJobs ==
    ASSUME SessionInv, JobsInv,
           \/ \E ok \in BOOLEAN : Connect(ok)
           \/ \E ok, connected \in BOOLEAN : NotificationStart(ok, connected)
           \/ \E second \in {job.id - 1, job.id}, sent, reached \in BOOLEAN :
                  write_guest_step1(second, sent, reached)
    PROVE  JobsInv'
<1> USE DEF bridgeVars, glibVars, lockVars, history
<1>0. /\ job.id \in 0 .. MaxJobs /\ peer.job \in 0 .. MaxJobs
      /\ pc # "idle" => job.id \in JobIds
  BY HistoryTypes
<1>1. ASSUME NEW ok \in BOOLEAN, Connect(ok), ok PROVE JobsInv'
  <2>1. /\ pc = "connect" /\ pc' = "notify" /\ job.id \in JobIds
        /\ peer'.phase = "wait1" /\ peer'.job = job.id
        /\ UNCHANGED <<job, err, quit, handled, reports, published>>
    BY <1>0, <1>1 DEF Connect, LinkDown
  <2>2. JobOrder'
    BY <2>1 DEF JobsInv, JobOrder
  <2>3. LinkOrder'
    <3>1. peer.job < job.id
      BY <2>1 DEF JobsInv, LinkOrder
    <3>2. handled[job.id] = "no"
      <4>1. ~(job.id <= peer.job)
        BY <1>0, <3>1
      <4> QED BY <2>1, <4>1 DEF JobsInv, LinkOrder
    <3>3. \A k \in JobIds : k <= peer.job => k <= job.id
      BY <1>0, <3>1 DEF JobIds
    <3>4. job.id <= job.id
      BY <1>0
    <3> QED BY <2>1, <3>2, <3>3, <3>4 DEF JobsInv, LinkOrder
  <2>4. EndsHandled'
    BY <2>1 DEF JobsInv, EndsHandled
  <2>5. OkWasHandled'
    BY <2>1 DEF JobsInv, OkWasHandled
  <2> QED BY <2>2, <2>3, <2>4, <2>5 DEF JobsInv
<1>2. ASSUME pc \in {"connect", "notify", "step1"},
             pc' \in {"step1", "loop", "exit"},
             pc = "connect" => pc' = "exit",
             pc' = "exit" => err' # 0, pc' # "exit" => err' = err,
             UNCHANGED <<job, quit, peer, handled, reports, published>>
      PROVE  JobsInv'
  <2>1. JobOrder'
    BY <1>2 DEF JobsInv, JobOrder
  <2>2. LinkOrder'
    BY <1>2 DEF JobsInv, LinkOrder
  <2>3. EndsHandled'
    BY <1>2 DEF JobsInv, EndsHandled
  <2>4. OkWasHandled'
    BY <1>2 DEF JobsInv, OkWasHandled
  <2> QED BY <2>1, <2>2, <2>3, <2>4 DEF JobsInv
<1>3. ASSUME NEW ok \in BOOLEAN, Connect(ok), ~ok PROVE JobsInv'
  BY <1>2, <1>3 DEF Connect, ERR_GATT
<1>4. ASSUME NEW ok \in BOOLEAN, NEW connected \in BOOLEAN,
             NotificationStart(ok, connected)
      PROVE  JobsInv'
  BY <1>2, <1>4 DEF NotificationStart, ERR_GATT
<1>5. ASSUME NEW second \in {job.id - 1, job.id}, NEW sent \in BOOLEAN,
             NEW reached \in BOOLEAN, write_guest_step1(second, sent, reached)
      PROVE  JobsInv'
  BY <1>2, <1>5 DEF write_guest_step1, ERR_STEP1
<1> QED BY <1>1, <1>3, <1>4, <1>5

(* Whoever asks the loop to quit has set an error flag or read the         *)
(* response of a lock that ended the session.                              *)
LEMMA LoopJobs ==
    ASSUME SessionInv, FlowInv, JobsInv,
           \/ Expire \/ Iterate \/ stop_main_loop_func \/ handle_cmd_responce
           \/ \E step \in {"BEGIN", "STEP4", "CMD_RESULT"} : StoreFragment(step)
           \/ \E sent, reached \in BOOLEAN : handle_step2_message(sent, reached)
           \/ \E encoded, sent, reached \in BOOLEAN :
                  handle_step4_message(encoded, sent, reached)
    PROVE  JobsInv'
<1> USE DEF bridgeVars, glibVars, lockVars, history
<1>0. /\ gc \in GuestConnections
      /\ pc = "loop" /\ quit => gc.waiting_err \/ gc.receive_err \/ peer.phase = "end"
  BY FlowTypes DEF JobsInv, EndsHandled
<1>1. CASE Expire \/ Iterate
  <2>1. UNCHANGED <<pc, job, gc, quit, err, peer, handled, reports, published>>
    BY <1>1 DEF Expire, Iterate
  <2> QED BY <1>0, <2>1, JobsKept
<1>2. CASE stop_main_loop_func
  <2>1. gc'.waiting_err = TRUE
    BY <1>0, <1>2 DEF stop_main_loop_func, GuestConnections
  <2> QED BY <1>2, <2>1, JobsKept DEF stop_main_loop_func
<1>3. CASE handle_cmd_responce
  <2>1. pc = "loop" /\ peer.phase = "end"
    BY <1>3, NotifiedStage DEF handle_cmd_responce, ReceivesResponse
  <2> QED BY <1>3, <2>1, JobsKept DEF handle_cmd_responce
<1>4. ASSUME NEW step, StoreFragment(step) PROVE JobsInv'
  <2>1. gc'.waiting_err = gc.waiting_err /\ gc'.receive_err = gc.receive_err
    BY <1>0, <1>4 DEF StoreFragment, save_message_data, GuestConnections
  <2> QED BY <1>0, <1>4, <2>1, JobsKept DEF StoreFragment, Notified
<1>5. ASSUME NEW sent \in BOOLEAN, NEW reached \in BOOLEAN,
             handle_step2_message(sent, reached)
      PROVE  JobsInv'
  <2> DEFINE saved == save_message_data(gc, Head(batch))
             stepped == [saved EXCEPT !.guest_step = "STEP4"]
             failed == [saved EXCEPT !.guest_step = "STEP3", !.receive_err = TRUE]
  <2>1. /\ pc = "loop" /\ saved \in GuestConnections
        /\ \/ gc' = releaseGuestConnectionData(stepped) /\ quit' = quit
           \/ gc' = failed
    BY <1>5, SavedFacts DEF handle_step2_message
  <2>2. saved.waiting_err = gc.waiting_err /\ saved.receive_err = gc.receive_err
    BY <1>0 DEF save_message_data, GuestConnections
  <2> HIDE DEF saved
  <2>3. \/ /\ gc'.waiting_err = gc.waiting_err /\ gc'.receive_err = gc.receive_err
           /\ quit' = quit
        \/ gc'.receive_err = TRUE
    BY <2>1, <2>2 DEF GuestConnections, releaseGuestConnectionData
  <2>4. UNCHANGED <<pc, job, err, handled, reports, published, peer>>
    BY <1>5 DEF handle_step2_message
  <2> QED BY <1>0, <2>1, <2>3, <2>4, JobsKept
<1>6. ASSUME NEW encoded \in BOOLEAN, NEW sent \in BOOLEAN, NEW reached \in BOOLEAN,
             handle_step4_message(encoded, sent, reached)
      PROVE  JobsInv'
  <2> DEFINE saved == save_message_data(gc, Head(batch))
             moved == [saved EXCEPT !.guest_step = IF encoded THEN "CMD_RESULT" ELSE @]
             failed == [saved EXCEPT !.receive_err = TRUE]
  <2>1. /\ pc = "loop" /\ saved \in GuestConnections /\ quit' = quit
        /\ gc' = releaseGuestConnectionData(moved) \/ gc' = failed
    BY <1>6, SavedFacts DEF handle_step4_message, write_cmd_request
  <2>2. saved.waiting_err = gc.waiting_err /\ saved.receive_err = gc.receive_err
    BY <1>0 DEF save_message_data, GuestConnections
  <2> HIDE DEF saved
  <2>3. \/ gc'.waiting_err = gc.waiting_err /\ gc'.receive_err = gc.receive_err
        \/ gc'.receive_err = TRUE
    BY <2>1, <2>2 DEF GuestConnections, releaseGuestConnectionData
  <2>4. UNCHANGED <<pc, job, err, handled, reports, published, peer>>
    BY <1>6 DEF handle_step4_message
  <2> QED BY <1>0, <2>1, <2>3, <2>4, JobsKept
<1> QED BY <1>1, <1>2, <1>3, <1>4, <1>5, <1>6

(* A job is reported once, as done only when the lock has handled it.      *)
LEMMA ExitJobs ==
    ASSUME SessionInv, JobsInv,
           LoopReturn \/ \E stopped \in BOOLEAN : guest_exit(stopped)
    PROVE  JobsInv'
<1> USE DEF bridgeVars, glibVars, lockVars, history
<1>1. CASE LoopReturn
  <2>1. /\ pc = "loop" /\ pc' = "exit" /\ quit
        /\ err' = IF gc.waiting_err \/ gc.receive_err THEN ERR_WAITING ELSE err
        /\ UNCHANGED <<job, gc, quit, peer, handled, reports, published>>
    BY <1>1 DEF LoopReturn
  <2>2. JobOrder'
    BY <2>1 DEF JobsInv, JobOrder
  <2>3. LinkOrder'
    BY <2>1 DEF JobsInv, LinkOrder
  <2>4. EndsHandled'
    BY <2>1 DEF JobsInv, EndsHandled, LinkOrder, ERR_WAITING
  <2>5. OkWasHandled'
    BY <2>1 DEF JobsInv, OkWasHandled
  <2> QED BY <2>2, <2>3, <2>4, <2>5 DEF JobsInv
<1>2. ASSUME NEW stopped \in BOOLEAN, guest_exit(stopped) PROVE JobsInv'
  <2>0. /\ reports \in [JobIds -> {"none", "ok", "err"}]
        /\ published \in [JobIds -> {"none", "default", "fresh"}]
        /\ job.id \in 0 .. MaxJobs
        /\ pc # "idle" => job.id \in JobIds
    BY HistoryTypes
  <2>1. /\ pc = "exit" /\ pc' = "idle" /\ job.id \in JobIds
        /\ reports' = [reports EXCEPT ![job.id] = IF err = 0 THEN "ok" ELSE "err"]
        /\ \/ published' = published
           \/ err = 0 /\ published' = [published EXCEPT ![job.id] = ble_data.value]
        /\ UNCHANGED <<job, peer, err, quit, handled>>
    BY <1>2, <2>0 DEF guest_exit, saveTaskData
  <2>2. /\ reports'[job.id] = IF err = 0 THEN "ok" ELSE "err"
        /\ \A k \in JobIds : k # job.id => reports'[k] = reports[k] /\ published'[k] = published[k]
        /\ err # 0 => published' = published
    BY <2>0, <2>1
  <2>3. JobOrder'
    <3>1. \A k \in JobIds : k > job.id \/ k < job.id => k # job.id
      BY <2>0 DEF JobIds
    <3> QED BY <2>1, <2>2, <3>1 DEF JobsInv, JobOrder
  <2>4. LinkOrder'
    BY <2>1 DEF JobsInv, LinkOrder
  <2>5. EndsHandled'
    BY <2>1 DEF JobsInv, EndsHandled
  <2>6. OkWasHandled'
    <3>1. ASSUME NEW k \in JobIds, k # job.id
          PROVE  /\ reports'[k] = "ok" => handled'[k] # "no"
                 /\ published'[k] # "none" => reports'[k] = "ok"
      BY <2>1, <2>2, <3>1 DEF JobsInv, OkWasHandled
    <3>2. reports'[job.id] = "ok" => handled'[job.id] # "no"
      BY <2>1, <2>2 DEF JobsInv, EndsHandled, LinkOrder
    <3>3. published'[job.id] # "none" => reports'[job.id] = "ok"
      <4>1. CASE err = 0
        BY <2>2, <4>1
      <4>2. CASE err # 0
        BY <2>1, <2>2, <4>2 DEF JobsInv, OkWasHandled, JobOrder
      <4> QED BY <4>1, <4>2
    <3> QED BY <3>1, <3>2, <3>3 DEF OkWasHandled
  <2> QED BY <2>3, <2>4, <2>5, <2>6 DEF JobsInv
<1> QED BY <1>1, <1>2

(* The lock handles one command in a link.                                 *)
LEMMA LockJobs == ASSUME SessionInv, JobsInv, LockStep PROVE JobsInv'
<1> USE DEF bridgeVars, glibVars, lockVars, history
<1>0. /\ peer \in Peers /\ peer.job \in 0 .. MaxJobs
      /\ handled \in [JobIds -> Verdicts \cup {"no"}]
      /\ pc = "loop" /\ quit => gc.waiting_err \/ gc.receive_err \/ peer.phase = "end"
  BY FlowTypes, HistoryTypes DEF JobsInv, EndsHandled
<1>1. ASSUME UNCHANGED <<pc, job, gc, quit, err, handled, reports, published>>,
             \/ peer.phase = "wait1" /\ peer'.phase = "wait3"
             \/ peer.phase = "wait3" /\ peer'.phase = "waitcmd"
             \/ peer'.phase = peer.phase,
             peer'.job = peer.job
      PROVE  JobsInv'
  BY <1>0, <1>1, JobsKept
<1>2. ASSUME NEW len \in 1 .. MaxFrags, NEW good \in BOOLEAN, LockStep1(len, good)
      PROVE  JobsInv'
  BY <1>0, <1>1, <1>2 DEF LockStep1, LockReads, Peers
<1>3. ASSUME NEW len \in 1 .. MaxFrags, NEW ff \in BOOLEAN, NEW good \in BOOLEAN,
             LockStep3(len, ff, good)
      PROVE  JobsInv'
  BY <1>0, <1>1, <1>3 DEF LockStep3, LockReads, Peers
<1>4. CASE LockSend
  BY <1>0, <1>1, <1>4 DEF LockSend, Peers
<1>5. ASSUME NEW len \in 1 .. MaxFrags, NEW ff \in BOOLEAN, NEW good \in BOOLEAN,
             NEW verdict \in Verdicts, LockCommand(len, ff, good, verdict)
      PROVE  JobsInv'
  <2>1. /\ peer.phase = "waitcmd" /\ peer'.phase = "end" /\ peer'.job = peer.job
        /\ handled' = [handled EXCEPT ![peer.job] = verdict]
        /\ UNCHANGED <<pc, job, gc, quit, err, reports, published>>
    <3>1. /\ peer.phase = "waitcmd"
          /\ handled' = [handled EXCEPT ![peer.job] = verdict]
          /\ UNCHANGED <<pc, job, gc, quit, err, reports, published>>
      BY <1>5 DEF LockCommand, LockReads
    <3>2. peer'.phase = "end" /\ peer'.job = peer.job
      BY <1>0, <1>5 DEF LockCommand, Peers
    <3> QED BY <3>1, <3>2
  <2>2. peer.job \in JobIds /\ verdict # "no"
    BY <2>1 DEF JobsInv, LinkOrder, Verdicts
  <2>3. /\ handled'[peer.job] = verdict
        /\ \A k \in JobIds : k # peer.job => handled'[k] = handled[k]
    BY <1>0, <2>1, <2>2
  <2>4. JobOrder'
    <3>1. \A k \in JobIds : k > job.id => k # peer.job
      BY <1>0, HistoryTypes DEF JobsInv, LinkOrder, JobIds
    <3> QED BY <2>1, <2>3, <3>1 DEF JobsInv, JobOrder
  <2>5. LinkOrder'
    <3>1. peer.job <= peer.job
      BY <1>0
    <3> QED BY <2>1, <2>2, <2>3, <3>1 DEF JobsInv, LinkOrder
  <2>6. EndsHandled'
    BY <2>1 DEF JobsInv, EndsHandled
  <2>7. OkWasHandled'
    BY <2>1, <2>2, <2>3 DEF JobsInv, OkWasHandled
  <2> QED BY <2>4, <2>5, <2>6, <2>7 DEF JobsInv
<1> QED BY <1>2, <1>3, <1>4, <1>5 DEF LockStep

(* The order of the jobs is an invariant of every session.                 *)
LEMMA JobsStep == ASSUME SessionInv, FlowInv, JobsInv, [Next]_vars PROVE JobsInv'
<1>1. CASE StartJob
  BY <1>1, StartJobs
<1>2. CASE BridgeStep
  BY <1>2, OpeningJobs, LoopJobs, ExitJobs DEF BridgeStep
<1>3. CASE Expire
  BY <1>3, LoopJobs
<1>4. CASE LockStep
  BY <1>4, LockJobs
<1>5. CASE UNCHANGED vars
  <2>1. UNCHANGED <<pc, job, err, gc, quit, peer, handled, reports, published>>
    BY <1>5 DEF vars, bridgeVars, glibVars, lockVars, history
  <2> QED BY <2>1, JobsKept DEF JobsInv, EndsHandled
<1>6. CASE AllJobsDone
  BY <1>5, <1>6 DEF AllJobsDone
<1> QED BY <1>1, <1>2, <1>3, <1>4, <1>5, <1>6 DEF Next

(* The order of jobs, links and ends is an invariant of the session.       *)
LEMMA JobsInvariant == Spec => []JobsInv
<1>1. SessionInv /\ FlowInv /\ JobsInv /\ [Next]_vars => JobsInv'
  BY JobsStep
<1> QED BY <1>1, InitJobs, SessionInvariant, FlowInvariant, PTL DEF Spec

(* What saveTaskData publishes belongs to a job that was reported as done  *)
(* and that the lock has handled.                                          *)
THEOREM PublishedIsHandled == Spec => []PublishedWasHandled
<1>1. JobsInv => PublishedWasHandled
  BY DEF JobsInv, OkWasHandled, PublishedWasHandled
<1> QED BY <1>1, JobsInvariant, PTL

-----------------------------------------------------------------------------
(* The session implements CommandService.                                  *)

(* A step of a session is a step of the service or changes nothing of it:  *)
(* a job is submitted when all before it are reported, handled at most     *)
(* once and in order, and reported once, "ok" only after it was handled.   *)
LEMMA ServiceStep ==
    ASSUME SessionInv, FlowInv, JobsInv, [Next]_vars
    PROVE  [Service!Next]_(Service!vars)
<1> USE DEF bridgeVars, glibVars, lockVars, history, Service!vars
<1>0. /\ reports \in [JobIds -> {"none", "ok", "err"}]
      /\ handled \in [JobIds -> Verdicts \cup {"no"}]
      /\ job.id \in 0 .. MaxJobs /\ peer.job \in 0 .. MaxJobs
      /\ Service!Jobs = JobIds
  BY HistoryTypes DEF Service!Jobs, JobIds
<1>1. ASSUME pc = "idle" PROVE Service!AllReported
  <2>1. ASSUME NEW k \in 1 .. job.id PROVE reports[k] # "none"
    <3>1. k \in JobIds /\ (k < job.id \/ k = job.id)
      BY <1>0 DEF JobIds
    <3> QED BY <1>1, <3>1 DEF JobsInv, JobOrder
  <2> QED BY <2>1 DEF Service!AllReported
<1>2. CASE StartJob
  <2>1. ASSUME NEW l \in Locks, NEW keyOk \in BOOLEAN, NEW cmd \in Commands,
               HandleLockCMD(l, keyOk, cmd)
        PROVE  Service!Submit
    BY <1>1, <2>1 DEF HandleLockCMD, Service!Submit
  <2>2. ASSUME NEW l \in Locks, HandleUnknownCMD(l) PROVE Service!Refuse
    BY <1>1, <2>2 DEF HandleUnknownCMD, Service!Refuse, NoJob
  <2> QED BY <1>2, <2>1, <2>2 DEF StartJob, Service!Next
<1>3. ASSUME NEW stopped \in BOOLEAN, guest_exit(stopped) PROVE Service!Next
  <2>1. /\ pc = "exit" /\ job.id \in JobIds
        /\ reports' = [reports EXCEPT ![job.id] = IF err = 0 THEN "ok" ELSE "err"]
        /\ UNCHANGED <<job, handled>>
    BY <1>3, HistoryTypes DEF guest_exit
  <2>2. reports[job.id] = "none"
    BY <2>1 DEF JobsInv, JobOrder
  <2>3. err = 0 => handled[job.id] # "no"
    BY <2>1 DEF JobsInv, EndsHandled, LinkOrder
  <2>4. Service!Report(job.id, IF err = 0 THEN "ok" ELSE "err")
    BY <2>1, <2>2, <2>3 DEF Service!Report
  <2> QED BY <1>0, <2>1, <2>4 DEF Service!Next
<1>4. ASSUME NEW len \in 1 .. MaxFrags, NEW ff \in BOOLEAN, NEW good \in BOOLEAN,
             NEW verdict \in Verdicts, LockCommand(len, ff, good, verdict)
      PROVE  Service!Next
  <2>1. /\ peer.phase = "waitcmd"
        /\ handled' = [handled EXCEPT ![peer.job] = verdict]
        /\ UNCHANGED <<job, reports>>
    BY <1>4 DEF LockCommand, LockReads
  <2>2. peer.job \in JobIds /\ peer.job <= job.id /\ handled[peer.job] = "no"
    BY <2>1 DEF JobsInv, LinkOrder
  <2>3. reports[peer.job] # "ok"
    BY <2>2 DEF JobsInv, OkWasHandled
  <2>4. \A k \in JobIds : k > peer.job => handled[k] = "no"
    <3>1. \A k \in JobIds : k > peer.job => ~(k <= peer.job)
      BY <1>0 DEF JobIds
    <3> QED BY <3>1 DEF JobsInv, LinkOrder
  <2>5. Service!Handle(peer.job, verdict)
    BY <1>0, <2>1, <2>2, <2>3, <2>4 DEF Service!Handle
  <2> QED BY <1>0, <2>2, <2>5 DEF Service!Next, Verdicts
<1>5. CASE BridgeStep
  <2>1. \/ UNCHANGED <<job, handled, reports>>
        \/ \E stopped \in BOOLEAN : guest_exit(stopped)
    BY <1>5 DEF BridgeStep, Connect, NotificationStart, write_guest_step1, Iterate,
                stop_main_loop_func, StoreFragment, handle_step2_message,
                handle_step4_message, handle_cmd_responce, LoopReturn
  <2> QED BY <1>3, <2>1
<1>6. CASE LockStep
  <2>1. \/ UNCHANGED <<job, handled, reports>>
        \/ \E len \in 1 .. MaxFrags, ff, good \in BOOLEAN, verdict \in Verdicts :
               LockCommand(len, ff, good, verdict)
    BY <1>6 DEF LockStep, LockStep1, LockStep3, LockSend
  <2> QED BY <1>4, <2>1
<1>7. CASE Expire
  BY <1>7 DEF Expire
<1>8. CASE UNCHANGED vars
  BY <1>8 DEF vars
<1>9. CASE AllJobsDone
  BY <1>8, <1>9 DEF AllJobsDone
<1> QED BY <1>2, <1>5, <1>6, <1>7, <1>8, <1>9 DEF Next

(* HandleLockCMD with everything it drives keeps the promise of            *)
(* CommandService, for any number of jobs, locks, slots and fragments.     *)
THEOREM SessionImplementsService == Spec => ImplementsCommandService
<1>1. Init => Service!Init
  BY DEF Init, Service!Init, Service!Jobs, JobIds, NoJob
<1>2. SessionInv /\ FlowInv /\ JobsInv /\ [Next]_vars => [Service!Next]_(Service!vars)
  BY ServiceStep
<1> QED BY <1>1, <1>2, SessionInvariant, FlowInvariant, JobsInvariant, PTL
        DEF Spec, ImplementsCommandService, Service!Spec

-----------------------------------------------------------------------------
(* CauseInv is kept.                                                       *)

LEMMA InitCause == Init => CauseInv
BY DEF Init, CauseInv, FailureHasCause, BadIsTrouble, initGuestConnection

(* A trouble is never forgotten, and one that was met is recorded.         *)
LEMMA TroubleGrows ==
    ASSUME NEW j, NEW met, Trouble(j, met)
    PROVE  troubled \subseteq troubled' /\ (met => j \in troubled')
BY DEF Trouble

(* Starting and opening a session leaves no trouble unrecorded.            *)
LEMMA OpeningCause ==
    ASSUME SessionInv, FlowInv, JobsInv, CauseInv,
           \/ StartJob
           \/ \E ok \in BOOLEAN : Connect(ok)
           \/ \E ok, connected \in BOOLEAN : NotificationStart(ok, connected)
    PROVE  CauseInv'
<1> USE DEF bridgeVars, glibVars, lockVars, history
<1>0. /\ reports \in [JobIds -> {"none", "ok", "err"}] /\ job.id \in 0 .. MaxJobs
      /\ pc \in {"idle", "connect", "notify"} => timer = "none"
      /\ gc \in GuestConnections
  BY HistoryTypes, FlowTypes DEF FlowInv, PhaseInv
<1>1. ASSUME NEW l \in Locks, NEW keyOk \in BOOLEAN, NEW cmd \in Commands,
             HandleLockCMD(l, keyOk, cmd)
      PROVE  CauseInv'
  BY <1>0, <1>1
     DEF HandleLockCMD, CauseInv, FailureHasCause, BadIsTrouble, initGuestConnection
<1>2. ASSUME NEW l \in Locks, HandleUnknownCMD(l) PROVE CauseInv'
  <2>1. /\ pc = "idle" /\ pc' = "idle" /\ timer' = "none"
        /\ reports' = [reports EXCEPT ![job.id + 1] = "err"]
        /\ troubled' = troubled \cup {job.id + 1}
    BY <1>0, <1>2 DEF HandleUnknownCMD
  <2>2. FailureHasCause'
    BY <1>0, <2>1 DEF CauseInv, FailureHasCause
  <2> QED BY <2>1, <2>2 DEF CauseInv, BadIsTrouble
<1>3. ASSUME NEW ok \in BOOLEAN, Connect(ok) PROVE CauseInv'
  <2>1. /\ pc = "connect" /\ pc' \in {"notify", "exit"} /\ timer' = "none"
        /\ pc' = "exit" => ~ok
        /\ UNCHANGED <<job, gc, reports>>
    BY <1>0, <1>3 DEF Connect
  <2>2. troubled \subseteq troubled' /\ (~ok => job.id \in troubled')
    BY <1>3, TroubleGrows DEF Connect
  <2>3. FailureHasCause'
    BY <2>1, <2>2 DEF CauseInv, FailureHasCause
  <2> QED BY <2>1, <2>2, <2>3 DEF CauseInv, BadIsTrouble
<1>4. ASSUME NEW ok \in BOOLEAN, NEW connected \in BOOLEAN,
             NotificationStart(ok, connected)
      PROVE  CauseInv'
  <2>1. /\ pc = "notify" /\ pc' \in {"step1", "exit"} /\ timer' \in {"none", "armed"}
        /\ pc' = "exit" => ~ok
        /\ gc' = gc \/ gc' = [gc EXCEPT !.guest_step = "BEGIN"]
        /\ UNCHANGED <<job, reports>>
    BY <1>0, <1>4 DEF NotificationStart
  <2>2. gc'.waiting_err = gc.waiting_err /\ gc'.receive_err = gc.receive_err
    BY <1>0, <2>1 DEF GuestConnections
  <2>3. troubled \subseteq troubled' /\ (~ok => job.id \in troubled')
    BY <1>4, TroubleGrows DEF NotificationStart
  <2>4. FailureHasCause'
    BY <2>1, <2>3 DEF CauseInv, FailureHasCause
  <2> QED BY <2>1, <2>2, <2>3, <2>4 DEF CauseInv, BadIsTrouble
<1> QED BY <1>1, <1>2, <1>3, <1>4 DEF StartJob

(* write_guest_step1 fails for a key of the wrong length or for a GATT     *)
(* call that failed, never for want of a slot.                             *)
LEMMA Step1Cause ==
    ASSUME SessionInv, FlowInv, CauseInv, NEW second \in {job.id - 1, job.id},
           NEW sent \in BOOLEAN, NEW reached \in BOOLEAN,
           write_guest_step1(second, sent, reached)
    PROVE  CauseInv'
<1> USE DEF bridgeVars, glibVars, lockVars, history
<1> DEFINE id == beginConnectionId(connections, job.keyOk)
<1>1. /\ pc = "step1" /\ ~connections[0].active /\ job.keyOk \in BOOLEAN
      /\ job.lock \in Keys /\ job.id \in JobIds /\ second \in Nat
  BY DEF write_guest_step1, SessionInv, SlotDiscipline, TypeOK, JobIds
<1>2. id = IF job.keyOk THEN 0 ELSE ERROR_CONNECTION_ID
  BY <1>1, FlowTypes, BeginTable
<1>3. Silent /\ BufferEmpty /\ ~gc.waiting_err /\ ~gc.receive_err
  BY <1>1 DEF FlowInv, PhaseInv, CauseInv
<1>4. /\ pc' \in {"loop", "exit"}
      /\ \/ id = ERROR_CONNECTION_ID /\ gc' = gc /\ pc' = "exit" /\ Trouble(job.id, ~job.keyOk)
         \/ /\ id # ERROR_CONNECTION_ID /\ gc' = [gc EXCEPT !.connectionID = id]
            /\ pc' = (IF sent THEN "loop" ELSE "exit") /\ Trouble(job.id, ~sent)
      /\ UNCHANGED <<job, inbox, batch, timer, peer, reports>>
  BY DEF write_guest_step1
<1>5. /\ gc'.waiting_err = gc.waiting_err /\ gc'.receive_err = gc.receive_err
      /\ gc'.step_max_size = gc.step_max_size
  <2> HIDE DEF id
  <2> QED BY <1>4, FlowTypes DEF GuestConnections
<1>6. troubled \subseteq troubled' /\ (pc' = "exit" => job.id \in troubled')
  <2>1. CASE id = ERROR_CONNECTION_ID
    <3>1. Trouble(job.id, ~job.keyOk) /\ ~job.keyOk
      BY <1>1, <1>2, <1>4, <2>1 DEF ERROR_CONNECTION_ID
    <3> QED BY <3>1, TroubleGrows
  <2>2. CASE id # ERROR_CONNECTION_ID
    <3>1. Trouble(job.id, ~sent) /\ (pc' = "exit" => ~sent)
      BY <1>4, <2>2
    <3> QED BY <3>1, TroubleGrows
  <2> QED BY <2>1, <2>2
<1> HIDE DEF id
<1>7. FailureHasCause'
  BY <1>4, <1>6 DEF CauseInv, FailureHasCause
<1>8. BadIsTrouble'
  BY <1>3, <1>4, <1>5 DEF BadIsTrouble, Silent, BufferEmpty, AllGood
<1> QED BY <1>1, <1>3, <1>4, <1>5, <1>6, <1>7, <1>8 DEF CauseInv

(* What a step in the loop has to show.                                    *)
LEMMA CauseKept ==
    ASSUME CauseInv, pc = "loop", pc' = "loop", UNCHANGED <<job, reports>>,
           troubled \subseteq troubled',
           timer' \in {"expired", "due"} => job.id \in troubled',
           gc'.waiting_err \/ gc'.receive_err => job.id \in troubled',
           BadIsTrouble'
    PROVE  CauseInv'
<1>1. FailureHasCause'
  BY DEF CauseInv, FailureHasCause
<1> QED BY <1>1 DEF CauseInv

(* Without a trouble, the message that a handler finds in the buffer is    *)
(* good, and so is what is left.                                           *)
LEMMA SavedGood ==
    ASSUME SessionInv, BadIsTrouble, NEW step, Notified(step), job.id \notin troubled
    PROVE  /\ save_message_data(gc, Head(batch)).step_data.good
           /\ AllGood(Tail(batch)) /\ AllGood(inbox) /\ AllGood(peer.out)
<1>1. /\ pc = "loop" /\ batch # <<>> /\ batch \in Seq(LockMessages)
      /\ gc \in GuestConnections
  BY FlowTypes DEF Notified
<1>2. /\ AllGood(batch) /\ AllGood(inbox) /\ AllGood(peer.out)
      /\ gc.step_max_size # 0 => gc.step_data.good
  BY <1>1 DEF BadIsTrouble
<1>3. Head(batch).good /\ AllGood(Tail(batch))
  BY <1>1, <1>2 DEF AllGood
<1>4. save_message_data(gc, Head(batch)).step_data =
         IF gc.step_max_size = 0 THEN Head(batch) ELSE gc.step_data
  BY <1>1 DEF save_message_data, GuestConnections
<1> QED BY <1>2, <1>3, <1>4

(* The timer and the queue.                                                *)
LEMMA TimerCause ==
    ASSUME SessionInv, FlowInv, CauseInv,
           Expire \/ Iterate \/ stop_main_loop_func
    PROVE  CauseInv'
<1> USE DEF bridgeVars, glibVars, lockVars, history
<1>1. CASE Expire
  <2>1. /\ troubled \subseteq troubled' /\ job.id \in troubled'
        /\ UNCHANGED <<pc, job, gc, reports, err>>
    BY <1>1, TroubleGrows DEF Expire
  <2>2. FailureHasCause'
    BY <2>1 DEF CauseInv, FailureHasCause
  <2> QED BY <2>1, <2>2 DEF CauseInv, BadIsTrouble
<1>2. CASE Iterate
  <2>1. /\ pc = "loop" /\ batch = <<>> /\ batch' = inbox /\ inbox' = <<>>
        /\ timer' = IF timer = "expired" THEN "due" ELSE timer
        /\ UNCHANGED <<pc, job, gc, peer, reports, troubled>>
    BY <1>2 DEF Iterate
  <2>2. BadIsTrouble'
    BY <2>1 DEF CauseInv, BadIsTrouble, AllGood
  <2>3. timer' \in {"expired", "due"} => job.id \in troubled'
    BY <2>1 DEF CauseInv
  <2>4. gc'.waiting_err \/ gc'.receive_err => job.id \in troubled'
    BY <2>1 DEF CauseInv
  <2> QED BY <2>1, <2>2, <2>3, <2>4, CauseKept
<1>3. CASE stop_main_loop_func
  <2>1. /\ pc = "loop" /\ job.id \in troubled
        /\ UNCHANGED <<pc, job, reports, troubled>>
    BY <1>3 DEF stop_main_loop_func, CauseInv
  <2>2. BadIsTrouble'
    BY <2>1 DEF BadIsTrouble
  <2> QED BY <2>1, <2>2, CauseKept
<1> QED BY <1>1, <1>2, <1>3

(* A stored fragment.                                                      *)
LEMMA StoreCause == ASSUME SessionInv, CauseInv, NEW step, StoreFragment(step) PROVE CauseInv'
<1> USE DEF bridgeVars, glibVars, lockVars, history
<1> DEFINE saved == save_message_data(gc, Head(batch))
<1>1. /\ Notified(step) /\ pc = "loop" /\ batch' = Tail(batch) /\ gc' = saved
      /\ UNCHANGED <<pc, job, inbox, timer, peer, reports, troubled>>
  BY DEF StoreFragment, Notified
<1>2. saved.waiting_err = gc.waiting_err /\ saved.receive_err = gc.receive_err
  BY FlowTypes DEF save_message_data, GuestConnections
<1>3. ASSUME job.id \notin troubled
      PROVE  saved.step_data.good /\ AllGood(Tail(batch)) /\ AllGood(inbox) /\ AllGood(peer.out)
  BY <1>1, <1>3, SavedGood DEF CauseInv
<1> HIDE DEF saved
<1>4. BadIsTrouble'
  BY <1>1, <1>3 DEF BadIsTrouble, AllGood
<1> QED BY <1>1, <1>2, <1>4, CauseKept DEF CauseInv

(* handle_step2_message gives up on a bad step 2 or a failed write.        *)
LEMMA Step2Cause ==
    ASSUME SessionInv, CauseInv, NEW sent \in BOOLEAN, NEW reached \in BOOLEAN,
           handle_step2_message(sent, reached)
    PROVE  CauseInv'
<1> USE DEF bridgeVars, glibVars, lockVars, history
<1> DEFINE saved == save_message_data(gc, Head(batch))
           good == saved.step_data.good
           stepped == [saved EXCEPT !.guest_step = "STEP4"]
           failed == [saved EXCEPT !.guest_step = "STEP3", !.receive_err = TRUE]
<1>1. /\ Notified("BEGIN") /\ pc = "loop" /\ batch' = Tail(batch)
      /\ saved \in GuestConnections /\ good \in BOOLEAN
      /\ good /\ sent => gc' = releaseGuestConnectionData(stepped)
      /\ ~(good /\ sent) => gc' = failed
      /\ Trouble(job.id, good /\ ~sent)
      /\ UNCHANGED <<pc, job, inbox, timer, peer, reports>>
  <2>1. /\ Notified("BEGIN")
        /\ good /\ sent => gc' = releaseGuestConnectionData(stepped)
        /\ ~(good /\ sent) => gc' = failed
        /\ Trouble(job.id, good /\ ~sent)
        /\ UNCHANGED <<pc, job, inbox, timer, peer, reports>>
    BY DEF handle_step2_message
  <2>2. pc = "loop" /\ batch' = Tail(batch)
    BY <2>1 DEF Notified
  <2>3. saved \in GuestConnections /\ saved.step_data \in LockMessages
    BY <2>1, SavedFacts
  <2>4. good \in BOOLEAN
    BY <2>3 DEF LockMessages
  <2> QED BY <2>1, <2>2, <2>3, <2>4
<1>2. saved.waiting_err = gc.waiting_err /\ saved.receive_err = gc.receive_err
  BY FlowTypes DEF save_message_data, GuestConnections
<1>3. ASSUME job.id \notin troubled
      PROVE  good /\ AllGood(Tail(batch)) /\ AllGood(inbox) /\ AllGood(peer.out)
  BY <1>1, <1>3, SavedGood DEF CauseInv
<1>4. troubled \subseteq troubled' /\ (good /\ ~sent => job.id \in troubled')
  BY <1>1, TroubleGrows
<1>5. gc' = releaseGuestConnectionData(stepped) \/ job.id \in troubled'
  <2> HIDE DEF saved, stepped, failed
  <2> QED BY <1>1, <1>3, <1>4
<1>6. gc' = releaseGuestConnectionData(stepped) =>
         /\ gc'.waiting_err = gc.waiting_err /\ gc'.receive_err = gc.receive_err
         /\ gc'.step_max_size # 0 => gc'.step_data = saved.step_data
  <2> HIDE DEF saved
  <2> QED BY <1>1, <1>2 DEF GuestConnections, releaseGuestConnectionData
<1> HIDE DEF saved, stepped, failed
<1>7. BadIsTrouble'
  BY <1>1, <1>3, <1>4, <1>5, <1>6 DEF BadIsTrouble, AllGood
<1>8. gc'.waiting_err \/ gc'.receive_err => job.id \in troubled'
  BY <1>1, <1>4, <1>5, <1>6 DEF CauseInv
<1> QED BY <1>1, <1>4, <1>7, <1>8, CauseKept DEF CauseInv

(* A step 4 that does not open is one the lock meant as a refusal: the     *)
(* nonces agree.                                                           *)
LEMMA Step4Cause ==
    ASSUME SessionInv, FlowInv, CauseInv, NEW encoded \in BOOLEAN, NEW sent \in BOOLEAN,
           NEW reached \in BOOLEAN, handle_step4_message(encoded, sent, reached)
    PROVE  CauseInv'
<1> USE DEF bridgeVars, glibVars, lockVars, history
<1> DEFINE saved == save_message_data(gc, Head(batch))
           step4 == saved.step_data
           opened == Opens(connections[saved.connectionID], step4.key, step4.nonce) /\ step4.good
           moved == [saved EXCEPT !.guest_step = IF encoded THEN "CMD_RESULT" ELSE @]
           failed == [saved EXCEPT !.receive_err = TRUE]
<1>1. /\ Notified("STEP4") /\ Complete(saved) /\ pc = "loop" /\ batch' = Tail(batch)
      /\ saved \in GuestConnections
      /\ opened => gc' = releaseGuestConnectionData(moved)
      /\ ~opened => gc' = failed
      /\ Trouble(job.id, opened /\ ~sent)
      /\ UNCHANGED <<pc, job, inbox, timer, peer, reports>>
  <2>1. /\ Notified("STEP4") /\ Complete(saved)
        /\ opened => gc' = releaseGuestConnectionData(moved)
        /\ ~opened => gc' = failed
        /\ Trouble(job.id, opened /\ ~sent)
        /\ UNCHANGED <<pc, job, inbox, timer, peer, reports>>
    BY DEF handle_step4_message, write_cmd_request
  <2>2. pc = "loop" /\ batch' = Tail(batch)
    BY <2>1 DEF Notified
  <2>3. saved \in GuestConnections
    BY <2>1, SavedFacts
  <2> QED BY <2>1, <2>2, <2>3
<1>2. saved.waiting_err = gc.waiting_err /\ saved.receive_err = gc.receive_err
  BY FlowTypes DEF save_message_data, GuestConnections
<1>3. ASSUME job.id \notin troubled
      PROVE  step4.good /\ AllGood(Tail(batch)) /\ AllGood(inbox) /\ AllGood(peer.out)
  BY <1>1, <1>3, SavedGood DEF CauseInv
<1>4. ~opened => ~step4.good
  <2>1. connections[0].key = peer.key /\ ReceivesStep4
    BY <1>1, NotifiedStage
  <2>2. PICK m \in LockMessages :
           Carrying(m) /\ m.key = peer.key /\ m.nonce = connections[0].rxNonce
    BY <2>1 DEF ReceivesStep4
  <2>3. step4 = m /\ saved.connectionID = 0
    BY <1>1, <2>2, CompleteFacts
  <2> QED BY <2>1, <2>2, <2>3 DEF Opens
<1>5. troubled \subseteq troubled'
  BY <1>1, TroubleGrows
<1>6. /\ gc' = failed \/ gc' = releaseGuestConnectionData(moved)
      /\ ~opened => job.id \in troubled'
  BY <1>1, <1>3, <1>4, <1>5
<1>7. /\ gc' = releaseGuestConnectionData(moved) =>
            /\ gc'.waiting_err = gc.waiting_err /\ gc'.receive_err = gc.receive_err
            /\ gc'.step_max_size # 0 => gc'.step_data = saved.step_data
      /\ gc' = failed => gc'.step_data = saved.step_data
  <2> HIDE DEF saved
  <2> QED BY <1>1, <1>2 DEF GuestConnections, releaseGuestConnectionData
<1> HIDE DEF saved, moved, failed, opened
<1>8. BadIsTrouble'
  BY <1>1, <1>3, <1>5, <1>6, <1>7 DEF BadIsTrouble, AllGood
<1>9. gc'.waiting_err \/ gc'.receive_err => job.id \in troubled'
  BY <1>1, <1>5, <1>6, <1>7 DEF CauseInv
<1> QED BY <1>1, <1>5, <1>8, <1>9, CauseKept DEF CauseInv

(* Nor does a response that does not open come from a lock in order.       *)
LEMMA ResponseCause ==
    ASSUME SessionInv, FlowInv, CauseInv, handle_cmd_responce
    PROVE  CauseInv'
<1> USE DEF bridgeVars, glibVars, lockVars, history
<1> DEFINE saved == save_message_data(gc, Head(batch))
           resp == saved.step_data
           opened == Opens(connections[saved.connectionID], resp.key, resp.nonce)
           failed == [saved EXCEPT !.receive_err = TRUE]
<1>1. /\ Notified("CMD_RESULT") /\ Complete(saved) /\ pc = "loop" /\ batch' = Tail(batch)
      /\ saved \in GuestConnections
      /\ opened /\ resp.good => gc' = saved
      /\ ~(opened /\ resp.good) => gc' = failed
      /\ UNCHANGED <<pc, job, inbox, timer, peer, reports, troubled>>
  <2>1. /\ Notified("CMD_RESULT") /\ Complete(saved)
        /\ opened /\ resp.good => gc' = saved
        /\ ~(opened /\ resp.good) => gc' = failed
        /\ UNCHANGED <<pc, job, inbox, timer, peer, reports, troubled>>
    BY DEF handle_cmd_responce
  <2>2. pc = "loop" /\ batch' = Tail(batch)
    BY <2>1 DEF Notified
  <2>3. saved \in GuestConnections
    BY <2>1, SavedFacts
  <2> QED BY <2>1, <2>2, <2>3
<1>2. saved.waiting_err = gc.waiting_err /\ saved.receive_err = gc.receive_err
  BY FlowTypes DEF save_message_data, GuestConnections
<1>3. ASSUME job.id \notin troubled
      PROVE  resp.good /\ AllGood(Tail(batch)) /\ AllGood(inbox) /\ AllGood(peer.out)
  BY <1>1, <1>3, SavedGood DEF CauseInv
<1>4. opened
  <2>1. connections[0].key = peer.key /\ ReceivesResponse
    BY <1>1, NotifiedStage
  <2>2. PICK m \in LockMessages :
           Carrying(m) /\ m.key = peer.key /\ m.nonce = connections[0].rxNonce
    BY <2>1 DEF ReceivesResponse
  <2>3. resp = m /\ saved.connectionID = 0
    BY <1>1, <2>2, CompleteFacts
  <2> QED BY <2>1, <2>2, <2>3 DEF Opens
<1>5. /\ gc' = saved \/ gc' = failed
      /\ gc' # saved => job.id \in troubled
      /\ gc'.step_data = saved.step_data
  <2>1. failed.step_data = saved.step_data
    <3> HIDE DEF saved
    <3> QED BY <1>1 DEF GuestConnections
  <2> QED BY <1>1, <1>3, <1>4, <2>1
<1> HIDE DEF saved, failed, opened
<1>6. BadIsTrouble'
  BY <1>1, <1>3, <1>5 DEF BadIsTrouble, AllGood
<1>7. gc'.waiting_err \/ gc'.receive_err => job.id \in troubled'
  BY <1>1, <1>2, <1>5 DEF CauseInv
<1> QED BY <1>1, <1>6, <1>7, CauseKept DEF CauseInv

(* An error that leaves the loop, or is reported, has its cause recorded.  *)
LEMMA ExitCause ==
    ASSUME SessionInv, JobsInv, CauseInv,
           LoopReturn \/ \E stopped \in BOOLEAN : guest_exit(stopped)
    PROVE  CauseInv'
<1> USE DEF bridgeVars, glibVars, lockVars, history
<1>1. CASE LoopReturn
  <2>1. /\ pc = "loop" /\ pc' = "exit" /\ err = 0
        /\ err' = IF gc.waiting_err \/ gc.receive_err THEN ERR_WAITING ELSE err
        /\ UNCHANGED <<job, gc, timer, reports, troubled>>
    BY <1>1 DEF LoopReturn, JobsInv, EndsHandled
  <2>2. err' # 0 => job.id \in troubled
    BY <2>1 DEF CauseInv
  <2>3. FailureHasCause'
    BY <2>1 DEF CauseInv, FailureHasCause
  <2> QED BY <2>1, <2>2, <2>3 DEF CauseInv, BadIsTrouble
<1>2. ASSUME NEW stopped \in BOOLEAN, guest_exit(stopped) PROVE CauseInv'
  <2>1. /\ pc = "exit" /\ pc' = "idle" /\ timer' = "none"
        /\ reports' = [reports EXCEPT ![job.id] = IF err = 0 THEN "ok" ELSE "err"]
        /\ UNCHANGED <<job, troubled>>
    BY <1>2 DEF guest_exit
  <2>2. FailureHasCause'
    <3>1. reports \in [JobIds -> {"none", "ok", "err"}]
      BY HistoryTypes
    <3> QED BY <2>1, <3>1 DEF CauseInv, FailureHasCause
  <2> QED BY <2>1, <2>2 DEF CauseInv, BadIsTrouble
<1> QED BY <1>1, <1>2

(* The fragments of a good message are good, alone or after others.        *)
LEMMA FragmentsGood ==
    ASSUME NEW m \in LockMessages, m.good, NEW s \in Seq(LockMessages), AllGood(s)
    PROVE  AllGood(Fragments(m)) /\ AllGood(s \o Fragments(m))
<1>1. AllGood(Fragments(m)) /\ Fragments(m) \in Seq(LockMessages)
  BY FragmentsAll, FragmentsType DEF AllAre, AllGood
<1>2. AllGood(s \o Fragments(m))
  BY <1>1 DEF AllGood
<1> QED BY <1>1, <1>2

(* A step of the lock outside the loop concerns no job that can still      *)
(* fail.                                                                   *)
LEMMA LockKeepsCause ==
    ASSUME CauseInv, UNCHANGED <<pc, job, gc, batch, timer, err, reports>>,
           troubled \subseteq troubled',
           pc = "loop" /\ job.id \notin troubled' => AllGood(inbox') /\ AllGood(peer'.out)
    PROVE  CauseInv'
<1>1. FailureHasCause'
  BY DEF CauseInv, FailureHasCause
<1>2. BadIsTrouble'
  BY DEF CauseInv, BadIsTrouble, AllGood
<1> QED BY <1>1, <1>2 DEF CauseInv

(* A lock that makes a bad message is in trouble from then on.             *)
LEMMA LockCause == ASSUME SessionInv, JobsInv, CauseInv, LockStep PROVE CauseInv'
<1> USE DEF bridgeVars, glibVars, lockVars, history
<1>0. /\ peer \in Peers /\ peer.out \in Seq(LockMessages) /\ inbox \in Seq(LockMessages)
      /\ pc = "loop" => peer.job = job.id
      /\ pc = "loop" /\ job.id \notin troubled => AllGood(inbox) /\ AllGood(peer.out)
  BY FlowTypes DEF JobsInv, LinkOrder, CauseInv, BadIsTrouble
<1>1. ASSUME NEW m \in LockMessages, Trouble(peer.job, m.ff \/ ~m.good),
             peer'.out = Fragments(m) \/ peer'.out = peer.out \o Fragments(m),
             UNCHANGED <<pc, job, gc, inbox, batch, timer, err, reports>>
      PROVE  CauseInv'
  <2>1. troubled \subseteq troubled' /\ (~m.good => peer.job \in troubled')
    BY <1>1, TroubleGrows
  <2>2. ASSUME pc = "loop", job.id \notin troubled'
        PROVE  AllGood(inbox') /\ AllGood(peer'.out)
    <3>1. m.good /\ AllGood(inbox) /\ AllGood(peer.out)
      BY <1>0, <2>1, <2>2
    <3>2. AllGood(Fragments(m)) /\ AllGood(peer.out \o Fragments(m))
      BY <1>0, <3>1, FragmentsGood
    <3> QED BY <1>1, <3>1, <3>2
  <2> QED BY <1>1, <2>1, <2>2, LockKeepsCause
<1>2. ASSUME NEW len \in 1 .. MaxFrags, NEW good \in BOOLEAN, LockStep1(len, good)
      PROVE  CauseInv'
  <2> DEFINE nonce == [by |-> "lock", seed |-> peer.job, n |-> 0]
             step2 == [kind |-> "step2", len |-> len, ff |-> FALSE, good |-> good,
                       key |-> NoKey, nonce |-> nonce, verdict |-> "done"]
  <2>1. step2 \in LockMessages /\ step2.ff = FALSE /\ step2.good = good
    <3>1. nonce \in Nonces
      BY <1>0 DEF Nonces, Peers
    <3> HIDE DEF nonce
    <3> QED BY <3>1 DEF LockMessages, Keys, Verdicts
  <2>2. /\ peer' = [peer EXCEPT !.phase = "wait3", !.rx = nonce, !.out = Fragments(step2)]
        /\ Trouble(peer.job, ~good)
        /\ UNCHANGED <<pc, job, gc, inbox, batch, timer, err, reports>>
    BY <1>2 DEF LockStep1
  <2> HIDE DEF step2
  <2>3. peer'.out = Fragments(step2)
    BY <1>0, <2>2 DEF Peers
  <2>4. Trouble(peer.job, step2.ff \/ ~step2.good)
    BY <2>1, <2>2 DEF Trouble
  <2> QED BY <1>1, <2>1, <2>2, <2>3, <2>4
<1>3. ASSUME NEW len \in 1 .. MaxFrags, NEW ff \in BOOLEAN, NEW good \in BOOLEAN,
             LockStep3(len, ff, good)
      PROVE  CauseInv'
  <2> DEFINE sealed == Sealed("step4", len, ff, good, "done")
             step4 == [sealed EXCEPT !.nonce = Head(wire).body]
  <2>1. step4 \in LockMessages /\ step4.ff = ff /\ step4.good = good
    <3>1. sealed \in LockMessages /\ sealed.ff = ff /\ sealed.good = good
      BY <1>0, SealedType DEF Verdicts, Sealed
    <3>2. Head(wire).body \in Nonces
      <4>1. wire # <<>> /\ wire \in Seq(BridgeMessages)
        BY <1>3, FlowTypes DEF LockStep3, LockReads
      <4>2. Head(wire) \in BridgeMessages
        BY <4>1
      <4> QED BY <4>2 DEF BridgeMessages
    <3> HIDE DEF sealed
    <3> QED BY <3>1, <3>2 DEF LockMessages
  <2>2. /\ peer' = [peer EXCEPT !.phase = "waitcmd", !.rx = incrementNonce(@),
                                !.tx = incrementNonce(Head(wire).body),
                                !.out = @ \o Fragments(step4)]
        /\ Trouble(peer.job, ff \/ ~good)
        /\ UNCHANGED <<pc, job, gc, inbox, batch, timer, err, reports>>
    BY <1>3 DEF LockStep3
  <2> HIDE DEF step4
  <2>3. peer'.out = peer.out \o Fragments(step4)
    BY <1>0, <2>2 DEF Peers
  <2>4. Trouble(peer.job, step4.ff \/ ~step4.good)
    BY <2>1, <2>2 DEF Trouble
  <2> QED BY <1>1, <2>1, <2>2, <2>3, <2>4
<1>4. ASSUME NEW len \in 1 .. MaxFrags, NEW ff \in BOOLEAN, NEW good \in BOOLEAN,
             NEW verdict \in Verdicts, LockCommand(len, ff, good, verdict)
      PROVE  CauseInv'
  <2> DEFINE resp == Sealed("response", len, ff, good, verdict)
  <2>1. resp \in LockMessages /\ resp.ff = ff /\ resp.good = good
    BY <1>0, SealedType DEF Sealed
  <2>2. /\ peer' = [peer EXCEPT !.phase = "end", !.tx = incrementNonce(@),
                                !.out = @ \o Fragments(resp)]
        /\ Trouble(peer.job, ff \/ ~good)
        /\ UNCHANGED <<pc, job, gc, inbox, batch, timer, err, reports>>
    BY <1>4 DEF LockCommand
  <2> HIDE DEF resp
  <2>3. peer'.out = peer.out \o Fragments(resp)
    BY <1>0, <2>2 DEF Peers
  <2>4. Trouble(peer.job, resp.ff \/ ~resp.good)
    BY <2>1, <2>2 DEF Trouble
  <2> QED BY <1>1, <2>1, <2>2, <2>3, <2>4
<1>5. CASE LockSend
  <2>1. /\ peer.out # <<>> /\ peer' = [peer EXCEPT !.out = Tail(@)]
        /\ inbox' = inbox \/ inbox' = Append(inbox, Head(peer.out))
        /\ UNCHANGED <<pc, job, gc, batch, timer, err, reports, troubled>>
    BY <1>5 DEF LockSend
  <2>2. peer'.out = Tail(peer.out)
    BY <1>0, <2>1 DEF Peers
  <2>3. ASSUME AllGood(inbox), AllGood(peer.out)
        PROVE  AllGood(Append(inbox, Head(peer.out))) /\ AllGood(Tail(peer.out))
    <3> DEFINE out == peer.out
    <3>1. out \in Seq(LockMessages) /\ out # <<>> /\ AllGood(out)
      BY <1>0, <2>1, <2>3
    <3> HIDE DEF out
    <3>2. Head(out) \in LockMessages /\ Head(out) = out[1] /\ 1 \in 1 .. Len(out)
      BY <3>1
    <3>3. Head(out).good
      BY <3>1, <3>2 DEF AllGood
    <3>4. AllGood(Tail(out))
      BY <3>1 DEF AllGood
    <3>5. AllGood(Append(inbox, Head(out)))
      BY <1>0, <2>3, <3>2, <3>3 DEF AllGood
    <3> QED BY <3>4, <3>5 DEF out
  <2> QED BY <1>0, <2>1, <2>2, <2>3, LockKeepsCause
<1> QED BY <1>2, <1>3, <1>4, <1>5 DEF LockStep

(* Every step of the session keeps the causes of failures on record.       *)
LEMMA CauseStep == ASSUME SessionInv, FlowInv, JobsInv, CauseInv, [Next]_vars PROVE CauseInv'
<1>1. CASE StartJob
  BY <1>1, OpeningCause
<1>2. CASE BridgeStep
  BY <1>2, OpeningCause, Step1Cause, TimerCause, StoreCause, Step2Cause, Step4Cause,
     ResponseCause, ExitCause DEF BridgeStep
<1>3. CASE Expire
  BY <1>3, TimerCause
<1>4. CASE LockStep
  BY <1>4, LockCause
<1>5. CASE UNCHANGED vars
  <2>1. UNCHANGED <<pc, job, gc, err, inbox, batch, timer, peer, reports, troubled>>
    BY <1>5 DEF vars, bridgeVars, glibVars, lockVars, history
  <2>2. AllGood(inbox') = AllGood(inbox) /\ AllGood(peer'.out) = AllGood(peer.out)
    BY <2>1
  <2> QED BY <2>1, <2>2, LockKeepsCause DEF CauseInv, BadIsTrouble
<1>6. CASE AllJobsDone
  BY <1>5, <1>6 DEF AllJobsDone
<1> QED BY <1>1, <1>2, <1>3, <1>4, <1>5, <1>6 DEF Next

(* A job fails only for a cause outside the session's own code.  The slots *)
(* that earlier jobs used, the nonces, the buffer and the order of the     *)
(* callbacks never make an undisturbed session fail.                       *)
THEOREM FailuresHaveCauses == Spec => []FailureHasCause
<1>1. SessionInv /\ FlowInv /\ JobsInv /\ CauseInv /\ [Next]_vars => CauseInv'
  BY CauseStep
<1>2. CauseInv => FailureHasCause
  BY DEF CauseInv
<1> QED BY <1>1, <1>2, InitCause, SessionInvariant, FlowInvariant, JobsInvariant, PTL
        DEF Spec

=============================================================================
