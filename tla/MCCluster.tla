----------------------------- MODULE MCCluster -----------------------------
(* Instances of ClusterWriters for TLC.                                    *)
EXTENDS ClusterWriters

Spec0(n, wal, sync) ==
    [f \in Fields |-> IF f = "instances" THEN n ELSE IF f = "wal" THEN wal
                      ELSE IF f = "maxSync" THEN sync ELSE 1]

(* A cluster with a synchronous replica and a WAL volume.                  *)
SomeSpecs == {Spec0(2, 1, 1)}
=============================================================================
