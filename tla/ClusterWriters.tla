--------------------------- MODULE ClusterWriters ---------------------------
(***************************************************************************)
(* The three programs of this repository that write the same CNPG Cluster  *)
(* resource:                                                               *)
(*   - the scale controller, spec.instances (CNPGClient.PatchInstances),   *)
(*   - the storage controller, spec.storage.size and, after it,            *)
(*     spec.walStorage.size (Actor.ResizePGData, Actor.ResizeWAL),         *)
(*   - the experiment runner's reset step, spec.maxSyncReplicas and then   *)
(*     spec.instances (steps.ResetCluster),                                *)
(* and the CNPG operator beside them.                                      *)
(*                                                                         *)
(* The controllers send the whole object back with the resourceVersion of  *)
(* their Get, which the API server refuses when the object moved since;    *)
(* the reset step sends the difference to its Get, which is never refused. *)
(* What the controllers decide, and when, is in ScaleController and        *)
(* StorageController; here a decision is the difference between the spec   *)
(* and a goal that changes at any time.                                    *)
(***************************************************************************)
EXTENDS Integers, Sequences

CONSTANTS
    InitialSpecs,   \* what the Cluster's spec may be at first
    Targets,        \* instance counts the scale controller may aim at
    Sizes,          \* volume sizes the storage controller may ask for
    MaxInstances    \* what the operator may restore

Fields  == {"instances", "pgdata", "wal", "maxSync"}
Volumes == {"pgdata", "wal"}

ASSUME SpecAssumption ==
    \A s \in InitialSpecs : s \in [Fields -> Nat] /\ s["instances"] > 0
ASSUME GoalAssumption ==
    /\ Targets \subseteq Nat \ {0}
    /\ Sizes \subseteq Nat \ {0}
    /\ MaxInstances \in Nat

Controllers == {"scale", "storage"}
Writers     == Controllers \cup {"reset"}

(* The fields each of them writes.                                         *)
Owns == [w \in Writers |-> IF w = "reset" THEN {"maxSync", "instances"}
                           ELSE IF w = "scale" THEN {"instances"} ELSE Volumes]

VARIABLES
    spec,       \* the Cluster's spec
    fresh,      \* writers whose copy has the current resourceVersion
    copy,       \* the object each writer's last Get returned
    goal,       \* what the controllers' decisions aim at
    job,        \* the changes a reconcile still has to write
    pc,         \* where each writer is
    pods,       \* Running pods of the cluster
    stuck,      \* a dangling PVC or a stuck job keeps the operator waiting
    clean       \* this reset zeroed maxSync, and nobody wrote instances since it began

vars == <<spec, fresh, copy, goal, job, pc, pods, stuck, clean>>

NoCopy    == [f \in Fields |-> 0]
ResetDone == {"idle", "ok", "failed"}
ResetPcs  == ResetDone \cup {"sync", "syncPatch", "inst", "instPatch", "wait", "fix", "retryWait"}

Init ==
    /\ spec \in InitialSpecs
    /\ fresh = {}
    /\ copy = [w \in Writers |-> NoCopy]
    /\ goal = spec
    /\ job = [w \in Controllers |-> <<>>]
    /\ pc = [w \in Writers |-> "idle"]
    /\ pods = spec["instances"]
    /\ stuck = FALSE
    /\ clean = FALSE

-----------------------------------------------------------------------------
(* Demand: another target, or a larger volume.                             *)
ChangeGoal ==
    /\ \/ \E n \in Targets : goal' = [goal EXCEPT !["instances"] = n]
       \/ \E f \in Volumes, s \in Sizes :
             s > goal[f] /\ goal[f] # 0 /\ goal' = [goal EXCEPT ![f] = s]
    /\ UNCHANGED <<spec, fresh, copy, job, pc, pods, stuck, clean>>

(* The operator writes the status of the object, which moves its           *)
(* resourceVersion.                                                        *)
StatusUpdate ==
    /\ fresh # {}
    /\ fresh' = {}
    /\ UNCHANGED <<spec, copy, goal, job, pc, pods, stuck, clean>>

(* It restores an instance count that is too small for maxSyncReplicas.    *)
Revert ==
    /\ spec["instances"] <= spec["maxSync"]
    /\ \E n \in (spec["maxSync"] + 1)..MaxInstances :
          spec' = [spec EXCEPT !["instances"] = n]
    /\ fresh' = {}
    /\ UNCHANGED <<copy, goal, job, pc, pods, stuck, clean>>

(* It brings the pods to spec.instances one by one, and may get stuck on   *)
(* the way up.                                                             *)
StartPod ==
    /\ pods < spec["instances"] /\ ~stuck
    /\ \/ pods' = pods + 1 /\ UNCHANGED stuck
       \/ stuck' = TRUE /\ UNCHANGED pods
    /\ UNCHANGED <<spec, fresh, copy, goal, job, pc, clean>>

StopPod ==
    /\ pods > spec["instances"] /\ ~stuck
    /\ pods' = pods - 1
    /\ UNCHANGED <<spec, fresh, copy, goal, job, pc, stuck, clean>>

-----------------------------------------------------------------------------
(* A reconcile of a controller, from its decisions to its last update.     *)

(* The fields that differ from the goal: the scale controller writes any   *)
(* other target, the storage controller a larger size, and it leaves a     *)
(* volume alone that the cluster does not have.                            *)
Differs(f) == IF f \in Volumes THEN spec[f] # 0 /\ goal[f] > spec[f] ELSE goal[f] # spec[f]

Change(f) == [field |-> f, value |-> goal[f]]

Turn(f) == IF Differs(f) THEN <<Change(f)>> ELSE <<>>

Wanted(w) == IF w = "scale" THEN Turn("instances") ELSE Turn("pgdata") \o Turn("wal")

Decide(w) ==
    /\ pc[w] = "idle"
    /\ Wanted(w) # <<>>
    /\ job' = [job EXCEPT ![w] = Wanted(w)]
    /\ pc' = [pc EXCEPT ![w] = "get"]
    /\ UNCHANGED <<spec, fresh, copy, goal, pods, stuck, clean>>

Get(w) ==
    /\ pc[w] = "get"
    /\ pc' = [pc EXCEPT ![w] = "update"]
    /\ copy' = [copy EXCEPT ![w] = spec]
    /\ fresh' = fresh \cup {w}
    /\ UNCHANGED <<spec, goal, job, pods, stuck, clean>>

(* The next change of the reconcile, or its end; the copy is dropped.      *)
Advance(w) ==
    /\ copy' = [copy EXCEPT ![w] = NoCopy]
    /\ job' = [job EXCEPT ![w] = Tail(job[w])]
    /\ pc' = [pc EXCEPT ![w] = IF Tail(job[w]) = <<>> THEN "idle" ELSE "get"]

(* What the API server stores for w gets a new resourceVersion, unless it  *)
(* is what was there.                                                      *)
Store(w, new) ==
    /\ spec' = new
    /\ fresh' = IF new = spec THEN fresh \ {w} ELSE {}

(* Faulty variant: the resourceVersion is not sent along.                  *)
UpdateUnchecked(w) ==
    /\ pc[w] = "update"
    /\ Store(w, [copy[w] EXCEPT ![Head(job[w]).field] = Head(job[w]).value])
    /\ Advance(w)
    /\ clean' = (clean /\ w # "scale")
    /\ UNCHANGED <<goal, pods, stuck>>

(* The update is stored.  Whether its answer arrives makes no difference   *)
(* here: it only starts a cooldown.                                        *)
Update(w) ==
    /\ pc[w] = "update"
    /\ w \in fresh
    /\ Store(w, [copy[w] EXCEPT ![Head(job[w]).field] = Head(job[w]).value])
    /\ Advance(w)
    /\ clean' = (clean /\ w # "scale")
    /\ UNCHANGED <<goal, pods, stuck>>

(* The object moved since the Get: the update is refused.  The error is    *)
(* logged, and the reconcile goes on with its next change.                 *)
Conflict(w) ==
    /\ pc[w] = "update"
    /\ w \notin fresh
    /\ Advance(w)
    /\ UNCHANGED <<spec, fresh, goal, pods, stuck, clean>>

(* The Get or the Update fails for another reason.                         *)
CallFails(w) ==
    /\ pc[w] \in {"get", "update"}
    /\ Advance(w)
    /\ fresh' = fresh \ {w}
    /\ UNCHANGED <<spec, goal, pods, stuck, clean>>

(* The process dies and is started again.                                  *)
Restart(w) ==
    /\ pc[w] \in {"get", "update"}
    /\ job' = [job EXCEPT ![w] = <<>>]
    /\ pc' = [pc EXCEPT ![w] = "idle"]
    /\ copy' = [copy EXCEPT ![w] = NoCopy]
    /\ fresh' = fresh \ {w}
    /\ UNCHANGED <<spec, goal, pods, stuck, clean>>

-----------------------------------------------------------------------------
(* ResetCluster.                                                           *)
ResetGoto(from, to) == pc["reset"] \in from /\ pc' = [pc EXCEPT !["reset"] = to]

ResetBegin ==
    /\ ResetGoto(ResetDone, "sync")
    /\ clean' = TRUE
    /\ UNCHANGED <<spec, fresh, copy, goal, job, pods, stuck>>

(* Faulty variant: a single synchronous replica is left alone.             *)
EnsureMaxSyncReplicasAtMostOne ==
    /\ ResetGoto({"sync"}, IF spec["maxSync"] <= 1 THEN "inst" ELSE "syncPatch")
    /\ UNCHANGED <<spec, fresh, copy, goal, job, pods, stuck, clean>>

(* ensureMaxSyncReplicasZero: Get, and a patch unless it is zero.          *)
EnsureMaxSyncReplicasZero ==
    /\ ResetGoto({"sync"}, IF spec["maxSync"] = 0 THEN "inst" ELSE "syncPatch")
    /\ UNCHANGED <<spec, fresh, copy, goal, job, pods, stuck, clean>>

SyncPatch ==
    /\ ResetGoto({"syncPatch"}, "inst")
    /\ Store("reset", [spec EXCEPT !["maxSync"] = 0])
    /\ UNCHANGED <<copy, goal, job, pods, stuck, clean>>

(* A failure of either call is only logged.                                *)
SyncFails ==
    /\ ResetGoto({"sync", "syncPatch"}, "inst")
    /\ clean' = FALSE
    /\ UNCHANGED <<spec, fresh, copy, goal, job, pods, stuck>>

(* patchInstances.  The patch is the difference to the Get: nothing if the *)
(* Get returned one instance, whatever was written since.                  *)
InstancesGet ==
    /\ ResetGoto({"inst"}, "instPatch")
    /\ copy' = [copy EXCEPT !["reset"] = [NoCopy EXCEPT !["instances"] = spec["instances"]]]
    /\ UNCHANGED <<spec, fresh, goal, job, pods, stuck, clean>>

OneInstance == IF copy["reset"]["instances"] = 1 THEN spec ELSE [spec EXCEPT !["instances"] = 1]

(* The patch is applied; its answer may be lost, which fails the reset.    *)
InstancesPatch ==
    /\ \/ ResetGoto({"instPatch"}, "wait")
       \/ ResetGoto({"instPatch"}, "failed")
    /\ Store("reset", OneInstance)
    /\ copy' = [copy EXCEPT !["reset"] = NoCopy]
    /\ UNCHANGED <<goal, job, pods, stuck, clean>>

InstancesFail ==
    /\ ResetGoto({"inst", "instPatch"}, "failed")
    /\ copy' = [copy EXCEPT !["reset"] = NoCopy]
    /\ UNCHANGED <<spec, fresh, goal, job, pods, stuck, clean>>

(* waitForRunningPods sees exactly one pod, or gives up: once to repair    *)
(* the cluster, the second time for good.                                  *)
PodsReady ==
    /\ pods = 1
    /\ ResetGoto({"wait", "retryWait"}, "ok")
    /\ UNCHANGED <<spec, fresh, copy, goal, job, pods, stuck, clean>>

WaitTimesOut ==
    /\ \/ ResetGoto({"wait"}, "fix")
       \/ ResetGoto({"retryWait"}, "failed")
    /\ UNCHANGED <<spec, fresh, copy, goal, job, pods, stuck, clean>>

(* fixDanglingPVCs and deleteStuckJobs; their failures are only logged.    *)
ChecklistFixes ==
    /\ ResetGoto({"fix"}, "retryWait")
    /\ stuck' \in {stuck, FALSE}
    /\ UNCHANGED <<spec, fresh, copy, goal, job, pods, clean>>

-----------------------------------------------------------------------------
Reconcile(w) == Decide(w) \/ Get(w) \/ Update(w) \/ Conflict(w) \/ CallFails(w) \/ Restart(w)

ResetCluster ==
    \/ ResetBegin \/ EnsureMaxSyncReplicasZero \/ SyncPatch \/ SyncFails
    \/ InstancesGet \/ InstancesPatch \/ InstancesFail
    \/ PodsReady \/ WaitTimesOut \/ ChecklistFixes

Operator == StatusUpdate \/ Revert \/ StartPod \/ StopPod

Next ==
    \/ ChangeGoal
    \/ Operator
    \/ \E w \in Controllers : Reconcile(w)
    \/ ResetCluster

Spec == Init /\ [][Next]_vars

(* The controllers poll for ever, and a call made again and again is not   *)
(* refused for ever.  Nothing is assumed of the operator, of the reset     *)
(* step or of the demand.                                                  *)
FairSpec ==
    /\ Spec
    /\ \A w \in Controllers :
          /\ WF_vars(Decide(w)) /\ SF_vars(Get(w)) /\ WF_vars(Conflict(w))
          /\ \A f \in Owns[w] : SF_vars(Update(w) /\ Head(job[w]).field = f)

-----------------------------------------------------------------------------
(* The type of every variable.                                             *)
TypeOK ==
    /\ spec \in [Fields -> Nat]
    /\ fresh \in SUBSET Controllers
    /\ copy \in [Writers -> [Fields -> Nat]]
    /\ goal \in [Fields -> Nat]
    /\ job \in [Controllers -> Seq([field : Fields, value : Nat])]
    /\ pc \in [Writers -> ResetPcs \cup {"get", "update"}]
    /\ pods \in Nat
    /\ stuck \in BOOLEAN
    /\ clean \in BOOLEAN

(* A controller that holds the current resourceVersion holds the current   *)
(* spec: nothing is stored without moving the version, not even by the     *)
(* reset step's patches.                                                   *)
FreshIsCurrent == \A w \in fresh : pc[w] = "update" /\ copy[w] = spec

(* A change that a reconcile has yet to write concerns a field of its own, *)
(* no field twice, and still enlarges the volume it is about.              *)
Pending(w) ==
    /\ pc[w] \in {"idle", "get", "update"}
    /\ job[w] = <<>> <=> pc[w] = "idle"
    /\ \A i \in 1..Len(job[w]) :
          /\ job[w][i].field \in Owns[w]
          /\ job[w][i].value > 0
          /\ w = "storage" => job[w][i].value > spec[job[w][i].field]
          /\ \A j \in 1..Len(job[w]) : i # j => job[w][i].field # job[w][j].field

PendingChanges == goal["instances"] > 0 /\ \A w \in Controllers : Pending(w)

(* A reset that reports success leaves one instance and one running pod,   *)
(* and it stays at that, unless zeroing maxSyncReplicas failed (which is   *)
(* only logged) or the scale controller wrote meanwhile (ResetCluster, the *)
(* operator's revert, the empty patch).                                    *)
ResetHolds ==
    pc["reset"] = "ok" /\ clean => spec["instances"] = 1 /\ pods = 1

(* What makes it inductive: the operator has no reason to interfere, and   *)
(* what the reset step's Get returned is still there when it sends the     *)
(* difference.                                                             *)
ResetUndisturbed ==
    /\ pc["reset"] \in ResetPcs
    /\ spec["instances"] > 0
    /\ clean /\ pc["reset"] \notin {"idle", "sync", "syncPatch", "failed"} =>
          /\ spec["maxSync"] = 0
          /\ pc["reset"] \notin {"inst", "instPatch"} => spec["instances"] = 1
          /\ pc["reset"] = "instPatch" => copy["reset"]["instances"] = spec["instances"]

Inv == TypeOK /\ FreshIsCurrent /\ PendingChanges /\ ResetUndisturbed /\ ResetHolds

(* Both controllers get what they want in spite of each other's            *)
(* conflicting updates, the reset step's patches and the operator's        *)
(* writes: the volumes in any case, the instances once their target no     *)
(* longer changes and no reset is running, unless the operator does not    *)
(* accept the target.                                                      *)
BothSettle ==
    /\ \A f \in Volumes : <>[](spec[f] # 0 => spec[f] >= goal[f])
    /\ \A n \in Targets :
          <>[](goal["instances"] = n /\ pc["reset"] \in ResetDone)
             => <>[](n > spec["maxSync"] => spec["instances"] = n)

(* Every step of this module is a step of the abstract specification: a    *)
(* whole-object update changes the one field it is meant to change, and    *)
(* the reset step's patches do, although they are sent unconditionally.    *)
Intent(w) ==
    IF w = "reset"
    THEN IF pc[w] \in {"sync", "syncPatch"} THEN [field |-> "maxSync", value |-> 0]
         ELSE IF pc[w] \in {"inst", "instPatch"} THEN [field |-> "instances", value |-> 1]
         ELSE [field |-> "none", value |-> 0]
    ELSE IF job[w] = <<>> THEN [field |-> "none", value |-> 0] ELSE Head(job[w])

Promised == INSTANCE ClusterFields WITH
    Owned  <- Owns,
    intent <- [w \in Writers |-> Intent(w)]

WritesAsPromised == Promised!Spec
=============================================================================
