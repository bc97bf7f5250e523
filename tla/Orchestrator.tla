---------------------------- MODULE Orchestrator ----------------------------
(***************************************************************************)
(* The experiment runner's orchestrator (auto-run/internal/orchestrator/   *)
(* orchestrator.go) together with the HTTP handlers that drive it and edit *)
(* its matrix (auto-run/internal/api/handler.go).                          *)
(*                                                                         *)
(* One goroutine, `loop', takes the queued runs one after the other        *)
(* through their steps.  Handlers run concurrently: they test whether the  *)
(* loop runs and start it in two separate critical sections, send signals  *)
(* into a bounded channel that blocks when it is full, cancel the context  *)
(* of the run in progress, and edit the matrix.  The loop reads the        *)
(* channel only between runs, one signal at a time.                        *)
(*                                                                         *)
(* An action is one critical section, one channel operation or one step of *)
(* a run.  A step of a run (reset, deploy, load) is a series of calls to   *)
(* the Kubernetes API; what counts here is how it ends, whether it left a  *)
(* controller behind, and that none of it succeeds once the context is     *)
(* cancelled.  A cancellation in the middle of a step shows as a step that *)
(* fails.                                                                  *)
(***************************************************************************)
EXTENDS RunMatrix

CONSTANTS
    Clients,     \* HTTP requests to /api/control that may be in flight together
    Slots,       \* goroutines that may execute `loop'
    ControlCap,  \* capacity of controlCh, 4 in the code
    NoRun,       \* no run id
    NoSlot       \* no goroutine

ASSUME ControlCapAssumption == ControlCap \in Nat \ {0}
ASSUME NoRunAssumption == NoRun \notin Runs
ASSUME NoSlotAssumption == NoSlot \notin Slots

VARIABLES
    order,       \* the matrix: the list of runs
    status,      \* the matrix: the status of every run
    running,     \* o.running
    controlCh,   \* o.controlCh
    pauseAfter,  \* o.pauseAfter
    cancelRun,   \* whose context o.cancelRun cancels; NoSlot: nil, or a run that is over
    pc,          \* where each loop goroutine is
    run,         \* its runID
    live,        \* its run's context is not cancelled
    failed,      \* its runErr # nil
    request,     \* where each control request is
    deployed     \* runs whose controller Deployment exists in Kubernetes

matrix  == <<order, status>>
control == <<running, controlCh, pauseAfter, cancelRun>>
loops   == <<pc, run, live, failed>>
vars    == <<matrix, control, loops, request, deployed>>

Signals == {"start", "stop"}

(* The steps between SetState(running) and the final SetState.             *)
ExecutingPcs == {"arm", "reset", "deploy", "load", "teardown", "finish"}
LoopPcs == {"none", "top", "next", "spec", "claim", "pause", "paused", "exit"} \cup ExecutingPcs
Requests == {"idle", "start", "sendStart", "sendStop", "retry"}

Active(s)    == pc[s] # "none"
Executing(s) == pc[s] \in ExecutingPcs
-----------------------------------------------------------------------------
(* NewStore reads the matrix file, which nothing validates for duplicate   *)
(* ids; files with distinct ids are assumed.                               *)
Init ==
    /\ order \in Matrices
    /\ status = AddStates(order, [id \in Runs |-> "absent"])
    /\ running = FALSE
    /\ controlCh = <<>>
    /\ pauseAfter = FALSE
    /\ cancelRun = NoSlot
    /\ pc = [s \in Slots |-> "none"]
    /\ run = [s \in Slots |-> NoRun]
    /\ live = [s \in Slots |-> FALSE]
    /\ failed = [s \in Slots |-> FALSE]
    /\ request = [c \in Clients |-> "idle"]
    /\ deployed = {}
-----------------------------------------------------------------------------
(* The control requests: ApplyControl.                                     *)

(* "start": IsRunning, then Start or Send, each in a step of its own.      *)
ControlStart(c) ==
    /\ request[c] = "idle"
    /\ request' = [request EXCEPT ![c] = IF running THEN "sendStart" ELSE "start"]
    /\ UNCHANGED <<matrix, control, loops, deployed>>

(* Faulty variant: Start relies on the test its caller made.               *)
StartUnchecked(c) ==
    /\ request[c] = "start"
    /\ request' = [request EXCEPT ![c] = "idle"]
    /\ running' = TRUE
    /\ \E s \in Slots : pc[s] = "none" /\ pc' = [pc EXCEPT ![s] = "top"]
    /\ UNCHANGED <<matrix, controlCh, pauseAfter, cancelRun, run, live, failed, deployed>>

(* Start: test and set `running' under the mutex, then launch the loop.    *)
Start(c) ==
    /\ request[c] = "start"
    /\ request' = [request EXCEPT ![c] = "idle"]
    /\ \/ /\ running
          /\ UNCHANGED <<running, pc>>
       \/ /\ ~running
          /\ running' = TRUE
          /\ \E s \in Slots : pc[s] = "none" /\ pc' = [pc EXCEPT ![s] = "top"]
    /\ UNCHANGED <<matrix, controlCh, pauseAfter, cancelRun, run, live, failed, deployed>>

(* Send blocks while the channel is full.                                  *)
Send(c) ==
    /\ request[c] \in {"sendStart", "sendStop"}
    /\ Len(controlCh) < ControlCap
    /\ controlCh' = Append(controlCh, IF request[c] = "sendStop" THEN "stop" ELSE "start")
    /\ request' = [request EXCEPT ![c] = "idle"]
    /\ UNCHANGED <<matrix, running, pauseAfter, cancelRun, loops, deployed>>

(* "pause": PauseAfterCurrent.                                             *)
ControlPause(c) ==
    /\ request[c] = "idle"
    /\ pauseAfter' = TRUE
    /\ UNCHANGED <<matrix, running, controlCh, cancelRun, loops, request, deployed>>

(* "stop": StopCurrent cancels the context that cancelRun stands for; the  *)
(* signal is sent in a step of its own.  To cancel a run that is over does *)
(* nothing.                                                                *)
ControlStop(c) ==
    /\ request[c] = "idle"
    /\ live' = [s \in Slots |-> live[s] /\ s # cancelRun]
    /\ request' = [request EXCEPT ![c] = "sendStop"]
    /\ UNCHANGED <<matrix, control, pc, run, failed, deployed>>

(* "retry": ResetQueued, then IsRunning, then Start.                       *)
ControlRetry(c) ==
    /\ request[c] = "idle"
    /\ status' = ResetQueued(status)
    /\ request' = [request EXCEPT ![c] = "retry"]
    /\ UNCHANGED <<order, control, loops, deployed>>

RetryCheck(c) ==
    /\ request[c] = "retry"
    /\ request' = [request EXCEPT ![c] = IF running THEN "idle" ELSE "start"]
    /\ UNCHANGED <<matrix, control, loops, deployed>>
-----------------------------------------------------------------------------
(* The requests that edit the matrix.                                      *)

PutMatrix ==
    /\ order' \in Matrices
    /\ status' = AddStates(order', status)
    /\ UNCHANGED <<control, loops, request, deployed>>

MoveRun(id, after) ==
    /\ id \in Listed(order) /\ after \in Listed(order) \cup {"front"}
    /\ order' = MoveAfter(order, id, after)
    /\ UNCHANGED <<status, control, loops, request, deployed>>

DeleteRun(id) ==
    /\ status[id] # "running"
    /\ order' = Without(order, id)
    /\ status' = [status EXCEPT ![id] = "absent"]
    /\ UNCHANGED <<control, loops, request, deployed>>
-----------------------------------------------------------------------------
(* The loop between two runs.                                              *)

Goto(s, from, to) == pc[s] = from /\ pc' = [pc EXCEPT ![s] = to]

(* At most one signal is taken per iteration; only "stop" ends the loop.   *)
Drain(s) ==
    /\ \/ /\ controlCh = <<>>
          /\ Goto(s, "top", "next")
          /\ UNCHANGED controlCh
       \/ /\ controlCh # <<>>
          /\ controlCh' = Tail(controlCh)
          /\ Goto(s, "top", IF Head(controlCh) = "stop" THEN "exit" ELSE "next")
    /\ UNCHANGED <<matrix, running, pauseAfter, cancelRun, run, live, failed, request, deployed>>

TakeNext(s) ==
    /\ \/ /\ NoneQueued(order, status)
          /\ Goto(s, "next", "exit")
          /\ UNCHANGED run
       \/ \E id \in Runs :
             /\ NextQueued(order, status, id)
             /\ Goto(s, "next", "spec")
             /\ run' = [run EXCEPT ![s] = id]
    /\ UNCHANGED <<matrix, control, live, failed, request, deployed>>

PauseCheck(s) ==
    /\ Goto(s, "pause", IF pauseAfter THEN "paused" ELSE "top")
    /\ pauseAfter' = FALSE
    /\ run' = [run EXCEPT ![s] = NoRun]
    /\ UNCHANGED <<matrix, running, controlCh, cancelRun, live, failed, request, deployed>>

(* Faulty variant: while paused only "start" is looked for.                *)
PausedWaitsForStart(s) ==
    /\ controlCh # <<>>
    /\ controlCh' = Tail(controlCh)
    /\ Goto(s, "paused", IF Head(controlCh) = "stop" THEN "paused" ELSE "top")
    /\ UNCHANGED <<matrix, running, pauseAfter, cancelRun, run, live, failed, request, deployed>>

(* Paused: the loop waits for a signal.                                    *)
Paused(s) ==
    /\ controlCh # <<>>
    /\ controlCh' = Tail(controlCh)
    /\ Goto(s, "paused", IF Head(controlCh) = "stop" THEN "exit" ELSE "top")
    /\ UNCHANGED <<matrix, running, pauseAfter, cancelRun, run, live, failed, request, deployed>>

(* The deferred function of loop.                                          *)
Exit(s) ==
    /\ Goto(s, "exit", "none")
    /\ running' = FALSE
    /\ UNCHANGED <<matrix, controlCh, pauseAfter, cancelRun, run, live, failed, request, deployed>>
-----------------------------------------------------------------------------
(* executeRun.                                                             *)

(* GetSpec may find the run deleted, and MkdirAll may fail: the run is     *)
(* given up as it is, queued or deleted.                                   *)
GetSpec(s) ==
    /\ \/ run[s] \in Listed(order) /\ Goto(s, "spec", "claim")
       \/ Goto(s, "spec", "pause")
    /\ UNCHANGED <<matrix, control, run, live, failed, request, deployed>>

(* SetState(running) does not look at the state it replaces.               *)
Claim(s) ==
    /\ Goto(s, "claim", "arm")
    /\ status' = [status EXCEPT ![run[s]] = "running"]
    /\ UNCHANGED <<order, control, run, live, failed, request, deployed>>

(* A new context, and cancelRun set to cancel it.                          *)
Arm(s) ==
    /\ Goto(s, "arm", "reset")
    /\ live' = [live EXCEPT ![s] = TRUE]
    /\ failed' = [failed EXCEPT ![s] = FALSE]
    /\ cancelRun' = s
    /\ UNCHANGED <<matrix, running, controlCh, pauseAfter, run, request, deployed>>

ResetCluster(s) ==
    /\ \/ /\ live[s]
          /\ Goto(s, "reset", "deploy")
          /\ UNCHANGED failed
       \/ /\ Goto(s, "reset", "finish")
          /\ failed' = [failed EXCEPT ![s] = TRUE]
    /\ UNCHANGED <<matrix, control, run, live, request, deployed>>

(* A failed deploy may have created the Deployment: the wait for its       *)
(* rollout timed out or was cancelled.  It goes to `finish' all the same.  *)
DeployController(s) ==
    /\ \/ /\ live[s]
          /\ Goto(s, "deploy", "load")
          /\ deployed' = deployed \cup {run[s]}
          /\ UNCHANGED failed
       \/ /\ Goto(s, "deploy", "finish")
          /\ deployed' \in {deployed, deployed \cup {run[s]}}
          /\ failed' = [failed EXCEPT ![s] = TRUE]
    /\ UNCHANGED <<matrix, control, run, live, request>>

(* RunLoadgen, and CollectMetrics after it if it succeeded.                *)
RunLoadgen(s) ==
    /\ Goto(s, "load", "teardown")
    /\ \/ live[s] /\ UNCHANGED failed
       \/ failed' = [failed EXCEPT ![s] = TRUE]
    /\ UNCHANGED <<matrix, control, run, live, request, deployed>>

(* TeardownController uses the run's context and only logs errors.  Backup *)
(* and upload follow; they leave the status as it is.                      *)
TeardownController(s) ==
    /\ Goto(s, "teardown", "finish")
    /\ \/ live[s] /\ deployed' = deployed \ {run[s]}
       \/ UNCHANGED deployed
    /\ UNCHANGED <<matrix, control, run, live, failed, request>>

(* The final status; the deferred cancel ends the context, and runErr goes *)
(* with the call.                                                          *)
Finish(s) ==
    /\ Goto(s, "finish", "pause")
    /\ status' = [status EXCEPT ![run[s]] = IF failed[s] THEN "failed" ELSE "success"]
    /\ live' = [live EXCEPT ![s] = FALSE]
    /\ failed' = [failed EXCEPT ![s] = FALSE]
    /\ cancelRun' = IF cancelRun = s THEN NoSlot ELSE cancelRun
    /\ UNCHANGED <<order, running, controlCh, pauseAfter, run, request, deployed>>
-----------------------------------------------------------------------------
Control(c) ==
    \/ ControlStart(c) \/ Start(c) \/ Send(c) \/ ControlPause(c)
    \/ ControlStop(c) \/ ControlRetry(c) \/ RetryCheck(c)

Edit ==
    \/ PutMatrix
    \/ \E id \in Runs, after \in Runs \cup {"front"} : MoveRun(id, after)
    \/ \E id \in Runs : DeleteRun(id)

LoopStep(s) ==
    \/ Drain(s) \/ TakeNext(s) \/ PauseCheck(s) \/ Paused(s) \/ Exit(s)
    \/ GetSpec(s) \/ Claim(s) \/ Arm(s) \/ ResetCluster(s) \/ DeployController(s)
    \/ RunLoadgen(s) \/ TeardownController(s) \/ Finish(s)

Next ==
    \/ \E c \in Clients : Control(c)
    \/ Edit
    \/ \E s \in Slots : LoopStep(s)

Spec == Init /\ [][Next]_vars

(* Every step of a run ends: what it calls is assumed to return, as not    *)
(* all of it has a timeout (the Prometheus queries of CollectMetrics and   *)
(* the uploads have none).  Nothing is assumed of the requests.            *)
FairSpec == Spec /\ \A s \in Slots : WF_vars(LoopStep(s))
-----------------------------------------------------------------------------
TypeOK ==
    /\ order \in Seq(Runs)
    /\ status \in [Runs -> Statuses]
    /\ running \in BOOLEAN
    /\ controlCh \in Seq(Signals) /\ Len(controlCh) <= ControlCap
    /\ pauseAfter \in BOOLEAN
    /\ cancelRun \in Slots \cup {NoSlot}
    /\ pc \in [Slots -> LoopPcs]
    /\ run \in [Slots -> Runs \cup {NoRun}]
    /\ live \in [Slots -> BOOLEAN]
    /\ failed \in [Slots -> BOOLEAN]
    /\ request \in [Clients -> Requests]
    /\ deployed \in SUBSET Runs

(* Requests test IsRunning and call Start in two critical sections, and    *)
(* several may do so at once; still there is never more than one loop, and *)
(* `running' says whether there is one (Start, the deferred exit of loop). *)
OneLoop ==
    /\ \A s, t \in Slots : Active(s) /\ Active(t) => s = t
    /\ running <=> \E s \in Slots : Active(s)

(* A run has status "running" exactly while the loop executes it, whatever *)
(* retries, deletions and replaced matrices come in between: nobody else   *)
(* changes the state that executeRun reads back at its end.                *)
RunningIffExecuted ==
    \A id \in Runs :
        status[id] = "running" <=> \E s \in Slots : Executing(s) /\ run[s] = id

(* No edit of the matrix lists a run twice or lists one without a state,   *)
(* which NextQueued would pass over for ever (ReplaceMatrix, DeleteRun,    *)
(* MoveAfter, and executeRun on a run deleted under it).                   *)
MatrixConsistent ==
    /\ IsInjective(order)
    /\ \A i \in DOMAIN order : status[order[i]] # "absent"

(* Between NextQueued and SetState(running) the chosen run can only be     *)
(* deleted, which is what makes the properties above inductive.            *)
ChosenNotEnded ==
    \A s \in Slots :
        /\ pc[s] \in {"spec", "claim"} \cup ExecutingPcs => run[s] \in Runs
        /\ pc[s] \in {"spec", "claim"} => status[run[s]] \in {"queued", "absent"}

Inv == TypeOK /\ OneLoop /\ RunningIffExecuted /\ MatrixConsistent /\ ChosenNotEnded

(* executeRun marks a run running some steps after NextQueued chose it.    *)
(* It never does so to a run that ended meanwhile: the run is still        *)
(* queued, or it was deleted in between and is executed all the same.      *)
OnlyQueuedStarts ==
    [][\A id \in Runs : status'[id] = "running" /\ status[id] # "running"
                            => status[id] \in {"queued", "absent"}]_vars

(* A stop signal ends the loop, whether it is executing a run, between two *)
(* runs or paused, and whatever signals are in the channel before it.      *)
StopTakesEffect ==
    (running /\ "stop" \in Range(controlCh)) ~> ~running

(* The run that the loop executes, from SetState(running) to the final     *)
(* SetState.                                                               *)
Current ==
    IF \E s \in Slots : Executing(s)
    THEN run[CHOOSE s \in Slots : Executing(s)]
    ELSE NoRun

Queue == INSTANCE RunQueue WITH current <- Current

(* Whatever requests, edits, stops and retries come in whatever order, the *)
(* orchestrator implements RunQueue: one run executes at a time, it keeps  *)
(* its "running" until it ends, and an ended one runs again only after it  *)
(* was queued again (Start, executeRun, the operations of matrix.Store).   *)
KeepsQueue == Queue!QueueSpec

(* Under the fairness of the loop a run that has begun ends.               *)
RunsEnd == Queue!QueueFairSpec
=============================================================================
