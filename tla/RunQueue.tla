------------------------------ MODULE RunQueue ------------------------------
(***************************************************************************)
(* What the experiment runner promises about its runs, without loop,       *)
(* signals, contexts and steps: every run is in one of the states of       *)
(* matrix.RunStatus, one run executes at a time, it is the only one marked *)
(* "running", and what has begun can only end.  Orchestrator implements    *)
(* this specification.                                                     *)
(***************************************************************************)
CONSTANTS
    Runs,   \* the run ids a matrix can name
    NoRun   \* no run id

VARIABLES
    status,  \* the status of every run, "absent" if the matrix has none
    current  \* the run that executes

queue == <<status, current>>

QueueInit == status \in [Runs -> {"absent", "queued"}] /\ current = NoRun

(* Runs are added to the matrix: those that are new are queued.            *)
Add(new) ==
    /\ \A id \in new : status[id] = "absent"
    /\ status' = [id \in Runs |-> IF id \in new THEN "queued" ELSE status[id]]
    /\ UNCHANGED current

(* A run that does not execute is deleted.                                 *)
Remove(id) ==
    /\ id # current
    /\ status' = [status EXCEPT ![id] = "absent"]
    /\ UNCHANGED current

(* Every run that has ended is queued again, the one that executes is not. *)
Requeue ==
    /\ status' = [id \in Runs |-> IF status[id] \in {"success", "failed"} THEN "queued" ELSE status[id]]
    /\ UNCHANGED current

(* A run begins when no other executes.  It is queued, or was deleted just *)
(* now.                                                                    *)
Begin(id) ==
    /\ current = NoRun
    /\ status[id] \in {"queued", "absent"}
    /\ status' = [status EXCEPT ![id] = "running"]
    /\ current' = id

End(outcome) ==
    /\ current # NoRun
    /\ status' = [status EXCEPT ![current] = outcome]
    /\ current' = NoRun

QueueNext ==
    \/ \E new \in SUBSET Runs : Add(new)
    \/ \E id \in Runs : Remove(id) \/ Begin(id)
    \/ Requeue
    \/ \E outcome \in {"success", "failed"} : End(outcome)

QueueSpec == QueueInit /\ [][QueueNext]_queue

(* What has begun ends.                                                    *)
QueueFairSpec == QueueSpec /\ WF_queue(\E outcome \in {"success", "failed"} : End(outcome))
=============================================================================
