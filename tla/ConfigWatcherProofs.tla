------------------------ MODULE ConfigWatcherProofs ------------------------
(* Proofs about ConfigWatcher, for any contents and any number of edits.   *)
EXTENDS ConfigWatcher, TLAPS

(* Initially the running config is the file, loaded and validated.         *)
LEMMA InitInv == Init => Inv
BY ContentsAssumption DEF Init, Inv, TypeOK, Versions, Idle, Version, ValidVersion

(* Every step of WatchConfig, and every replacement of the file, keeps the *)
(* order of the versions: applied <= running <= loaded <= on disk.         *)
LEMMA NextInv == Inv /\ [Next]_vars => Inv'
<1> SUFFICES ASSUME Inv, [Next]_vars PROVE Inv'
    OBVIOUS
<1> USE ContentsAssumption DEF Inv, TypeOK, Versions, Version, ValidVersion
<1>1. CASE ReplaceFile
  <2>1. PICK c \in Contents : file' = [mod |-> file.mod + 1, content |-> c]
        BY <1>1 DEF ReplaceFile
  <2>2. file' \in Version /\ file'.mod = file.mod + 1
        BY <2>1
  <2>3. QED
        BY <1>1, <2>2 DEF ReplaceFile
<1>2. CASE RemoveFile \/ RestoreFile
      BY <1>2 DEF RemoveFile, RestoreFile
<1>3. CASE Stat
  <2>1. /\ watcher' \in [pc : {"idle", "load", "apply"}, mod : Nat, cfg : ValidVersion]
        /\ watcher'.pc = "load" /\ watcher'.mod = file.mod /\ watcher'.cfg = watcher.cfg
        BY <1>3 DEF Stat
  <2>2. QED
        BY <1>3, <2>1 DEF Stat
<1>4. CASE Load
  <2>1. /\ watcher' \in [pc : {"idle", "load", "apply"}, mod : Nat, cfg : ValidVersion]
        /\ watcher'.mod = watcher.mod
        /\ \/ watcher'.pc = "apply" /\ watcher'.cfg = file /\ file.content \in Valid
           \/ watcher'.pc = "idle" /\ watcher'.cfg = watcher.cfg
        BY <1>4 DEF Load
  <2>2. QED
        BY <1>4, <2>1 DEF Load
<1>5. CASE Apply
  <2>1. /\ watcher' \in [pc : {"idle", "load", "apply"}, mod : Nat, cfg : ValidVersion]
        /\ watcher'.pc = "idle" /\ watcher'.cfg = watcher.cfg
        BY <1>5 DEF Apply
  <2>2. QED
        BY <1>5, <2>1 DEF Apply
<1>6. CASE UNCHANGED vars
      BY <1>6 DEF vars
<1>7. QED
      BY <1>1, <1>2, <1>3, <1>4, <1>5, <1>6 DEF Next

(* The invariant of the watcher holds in every reachable state.            *)
THEOREM Invariance == Spec => []Inv
<1>1. Init => Inv
      BY InitInv
<1>2. Inv /\ [Next]_vars => Inv'
      BY NextInv
<1>3. QED
      BY <1>1, <1>2, PTL DEF Spec

(* WatchConfig ignores the file only while the running config is exactly   *)
(* the file's content: no edit is lost in the window between Stat,         *)
(* LoadConfig and UpdateConfig.                                            *)
THEOREM NoLostEdit == Spec => []SkippedOnlyIfCurrent
<1>1. Inv => SkippedOnlyIfCurrent
      BY DEF Inv, TypeOK, Versions, Version, ValidVersion, SkippedOnlyIfCurrent
<1>2. QED
      BY <1>1, Invariance, PTL

(* Only contents that LoadConfig accepted are ever applied.                *)
THEOREM TypeCorrect == Spec => []TypeOK
<1>1. Inv => TypeOK
      BY DEF Inv
<1>2. QED
      BY <1>1, Invariance, PTL

(* The running config never goes back: whatever edits come between Stat,   *)
(* LoadConfig and UpdateConfig, each config that is applied is valid and   *)
(* newer than the one it replaces.                                         *)
THEOREM ConfigsGoForward == Spec => NeverGoesBack
<1>1. Inv /\ [Next]_vars =>
        [running' # running =>
            running'.mod > running.mod /\ running'.content \in Valid]_vars
  <2> SUFFICES ASSUME Inv, [Next]_vars, running' # running
               PROVE  running'.mod > running.mod /\ running'.content \in Valid
      OBVIOUS
  <2>1. running' = watcher.cfg
        BY DEF Next, ReplaceFile, RemoveFile, RestoreFile, Stat, Load, Apply, vars
  <2>2. /\ running.mod \in Nat /\ watcher.cfg.mod \in Nat /\ watcher.cfg.content \in Valid
        /\ running.mod <= watcher.cfg.mod /\ running.mod # watcher.cfg.mod
        BY <2>1 DEF Inv, TypeOK, Versions, ValidVersion
  <2>3. QED
        BY <2>1, <2>2
<1>2. QED
      BY <1>1, Invariance, PTL DEF Spec, NeverGoesBack
=============================================================================
