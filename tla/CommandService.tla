--------------------------- MODULE CommandService ---------------------------
(***************************************************************************)
(* What a caller of HandleLockCMD (ign.c) can count on, without the GATT   *)
(* link, the handshake or the main loop.  Jobs are submitted one at a      *)
(* time.  The lock handles the command of a job at most once, possibly     *)
(* after the bridge has given up on it but not after a later command.      *)
(* Each job is reported once, and "ok" only after the lock has handled its *)
(* command.                                                                *)
(***************************************************************************)
EXTENDS Naturals

CONSTANT MaxJobs   \* bound: how many jobs a behaviour may run

VARIABLES
    submitted,   \* number of jobs accepted so far; the last one is current
    handled,     \* what the lock did with the command of each job
    reports      \* what HandleLockCMD returned for each job

vars == <<submitted, handled, reports>>

Jobs == 1 .. MaxJobs

Init ==
    /\ submitted = 0
    /\ handled = [j \in Jobs |-> "no"]
    /\ reports = [j \in Jobs |-> "none"]

(* The previous job has been reported.                                     *)
AllReported == \A j \in 1 .. submitted : reports[j] # "none"

Submit ==
    /\ submitted < MaxJobs
    /\ AllReported
    /\ submitted' = submitted + 1
    /\ UNCHANGED <<handled, reports>>

(* A command HandleLockCMD does not know never reaches the lock.           *)
Refuse ==
    /\ submitted < MaxJobs
    /\ AllReported
    /\ submitted' = submitted + 1
    /\ reports' = [reports EXCEPT ![submitted + 1] = "err"]
    /\ UNCHANGED handled

Handle(j, verdict) ==
    /\ j <= submitted
    /\ handled[j] = "no"
    /\ reports[j] # "ok"
    /\ \A k \in Jobs : k > j => handled[k] = "no"
    /\ handled' = [handled EXCEPT ![j] = verdict]
    /\ UNCHANGED <<submitted, reports>>

Report(j, outcome) ==
    /\ j = submitted
    /\ reports[j] = "none"
    /\ outcome = "ok" => handled[j] # "no"
    /\ reports' = [reports EXCEPT ![j] = outcome]
    /\ UNCHANGED <<submitted, handled>>

Next ==
    \/ Submit
    \/ Refuse
    \/ \E j \in Jobs :
           \/ \E verdict \in {"done", "refused"} : Handle(j, verdict)
           \/ \E outcome \in {"ok", "err"} : Report(j, outcome)

Spec == Init /\ [][Next]_vars

=============================================================================
