------------------------------ MODULE RunMatrix ------------------------------
(***************************************************************************)
(* The run matrix of the experiment runner (auto-run/internal/matrix/      *)
(* store.go): the operations of matrix.Store on the list of runs and on    *)
(* the map of run states.  Every one of them holds the store's mutex from  *)
(* its first to its last line, so each is one step of whoever calls it.    *)
(*                                                                         *)
(* A run is named by its id.  `order' is the list of ids (s.order, and at  *)
(* the same time the ids of s.file.Runs), `status' the status of every id, *)
(* "absent" for an id that the map s.states does not hold.  The rest of a  *)
(* run's specification and state is data that no operation branches on.    *)
(***************************************************************************)
EXTENDS Integers, Sequences, FiniteSets, SequencesExt, Functions

CONSTANT Runs  \* the run ids a matrix can name

ASSUME RunsAssumption == IsFiniteSet(Runs) /\ "front" \notin Runs

Statuses == {"absent", "queued", "running", "success", "failed"}

(* The matrices that validateMatrix lets through: no id twice.             *)
Matrices == UNION {Injection(1..n, Runs) : n \in 0..Cardinality(Runs)}

Listed(order) == Range(order)

(* Faulty variant: a failed run is taken again.                            *)
NextQueuedOrFailed(order, status, id) ==
    \E i \in DOMAIN order :
        /\ id = order[i]
        /\ status[id] \in {"queued", "failed"}
        /\ \A j \in 1..(i - 1) : status[order[j]] \notin {"queued", "failed"}

(* NextQueued: whether `id' is the first queued run of the list.           *)
NextQueued(order, status, id) ==
    \E i \in DOMAIN order :
        /\ id = order[i]
        /\ status[id] = "queued"
        /\ \A j \in 1..(i - 1) : status[order[j]] # "queued"

(* NextQueued returns "": nothing in the list is queued.                   *)
NoneQueued(order, status) == \A i \in DOMAIN order : status[order[i]] # "queued"

(* Faulty variant: the run in progress is reset with the others.           *)
ResetQueuedAll(status) ==
    [id \in Runs |-> IF status[id] # "absent" THEN "queued" ELSE "absent"]

(* ResetQueued: every run that ended, listed or not, is queued again.      *)
ResetQueued(status) ==
    [id \in Runs |-> IF status[id] \in {"failed", "success"} THEN "queued" ELSE status[id]]

(* NewStore and ReplaceMatrix: the ids of the new list that have no state  *)
(* are queued, the others keep theirs, listed or not.                      *)
AddStates(order, status) ==
    [id \in Runs |-> IF id \in Listed(order) /\ status[id] = "absent"
                     THEN "queued" ELSE status[id]]

(* slices.DeleteFunc of one id from a list that holds it at most once.     *)
Without(order, id) ==
    IF \E i \in DOMAIN order : order[i] = id
    THEN RemoveAt(order, CHOOSE i \in DOMAIN order : order[i] = id)
    ELSE order

(* Faulty variant: the run is inserted without being taken out first.      *)
MoveAfterCopies(order, id, after) ==
    IF after = "front" THEN InsertAt(order, 1, id)
    ELSE InsertAt(order, (CHOOSE i \in DOMAIN order : order[i] = after) + 1, id)

(* MoveAfter, for an id of the list and either "front" or an id of the     *)
(* list to move after.  Moved after itself a run goes to the end: it was   *)
(* taken out before it is looked for.                                      *)
MoveAfter(order, id, after) ==
    LET rest == Without(order, id)
        position == IF after = "front" THEN 1
                    ELSE IF \E i \in DOMAIN rest : rest[i] = after
                    THEN (CHOOSE i \in DOMAIN rest : rest[i] = after) + 1
                    ELSE Len(rest) + 1
    IN  InsertAt(rest, position, id)
=============================================================================
