--------------------------- MODULE ClusterFields ---------------------------
(***************************************************************************)
(* What the programs that write one CNPG Cluster resource promise each     *)
(* other, as if a field could be written by itself: every writer has at    *)
(* most one change in mind, a change touches the one field it is about,    *)
(* a volume only grows, and nobody else's field is ever put back.          *)
(*                                                                         *)
(* The code has no such operation.  It reads the whole object, changes a   *)
(* field of its copy and sends the whole object, or a difference, back;    *)
(* module ClusterWriters shows that this amounts to the same.              *)
(***************************************************************************)
EXTENDS Integers

CONSTANTS
    Writers,
    Owned       \* the fields each of them writes

Fields  == {"instances", "pgdata", "wal", "maxSync"}
Volumes == {"pgdata", "wal"}

NoIntent == [field |-> "none", value |-> 0]

VARIABLES
    spec,       \* the spec of the Cluster
    intent      \* the change each writer is about to make

Init ==
    /\ spec \in [Fields -> Nat]
    /\ intent = [w \in Writers |-> NoIntent]

(* A writer makes up its mind, or gives up.                                *)
Reconsider(w) ==
    /\ intent'[w] \in [field : Owned[w], value : Nat] \cup {NoIntent}
    /\ intent' = [intent EXCEPT ![w] = intent'[w]]

Choose(w) == Reconsider(w) /\ UNCHANGED spec

(* A change takes effect.                                                  *)
Write(w) ==
    /\ intent[w] # NoIntent
    /\ intent[w].field \in Volumes => intent[w].value > spec[intent[w].field]
    /\ spec' = [spec EXCEPT ![intent[w].field] = intent[w].value]
    /\ Reconsider(w)

(* The CNPG operator does not let instances be less than maxSyncReplicas+1 *)
(* (comment in steps/reset.go).                                            *)
Revert ==
    /\ spec["instances"] <= spec["maxSync"]
    /\ spec'["instances"] \in Nat
    /\ spec'["instances"] > spec["maxSync"]
    /\ spec' = [spec EXCEPT !["instances"] = spec'["instances"]]
    /\ UNCHANGED intent

Next == Revert \/ \E w \in Writers : Choose(w) \/ Write(w)

Spec == Init /\ [][Next]_<<spec, intent>>
=============================================================================
