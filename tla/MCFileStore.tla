---------------------------- MODULE MCFileStore ----------------------------
(* Instances of FileStore for TLC.                                         *)
EXTENDS FileStore, TLC

CONSTANT Second  \* one of the two contents

(* Two files in the first category, so that one request can drop the file  *)
(* of another; one in the second, which a failed restore of the first      *)
(* leaves out.                                                             *)
TwoAndOne == [c \in Categories |-> IF c = "configs" THEN {1, 2} ELSE {1}]

(* Requests overlap in the category with two files, and while nothing was  *)
(* uploaded to the other.  The categories share nothing but the order of   *)
(* their restore, which is explored with one request at a time.            *)
OverlapInConfigs ==
    Cardinality({r \in Requests : ~At(r, "idle")}) > 1
        => /\ InFlight("scenarios") = {}
           /\ disk["scenarios"] = NoFiles("scenarios") /\ cm["scenarios"] = Missing
           /\ orderly["scenarios"] /\ allowed["scenarios"] = [n \in {1} |-> {NoFile}]

(* One file, the first, is uploaded with two contents.                     *)
TwoContentsInFirst ==
    \A r \in Requests :
        ~At(r, "idle") /\ ~At(r, "ok") /\ req[r].content = Second
            => req[r].cat = "configs" /\ req[r].name = 1

Symmetry == Permutations(Requests)
=============================================================================
