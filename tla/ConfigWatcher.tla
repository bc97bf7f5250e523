--------------------------- MODULE ConfigWatcher ---------------------------
(***************************************************************************)
(* WatchConfig (internal/scale/config.go), the goroutine that polls the    *)
(* config file and hands every new valid content to UpdateConfig, together *)
(* with whoever replaces the file.  Stat, LoadConfig and onChange are      *)
(* separate steps: the file may be replaced between any two of them.       *)
(***************************************************************************)
EXTENDS Naturals

CONSTANTS
    Contents,       \* what the file may hold
    Valid,          \* the contents LoadConfig accepts
    MaxEdits        \* bound: how often the file is replaced

ASSUME ContentsAssumption == Valid \subseteq Contents /\ MaxEdits \in Nat

VARIABLES
    file,           \* [mod, content]: the modification time and the content
    present,        \* the path can be read (an update may unlink it for a while)
    watcher,        \* WatchConfig's locals: [pc, mod, cfg], cfg with the time it was read at
    lastMod,        \* the modification time it applied last, 0 initially
    running         \* ScaleController.cfg, with the modification time of its content

vars == <<file, present, watcher, lastMod, running>>

Version == [mod : Nat, content : Contents]
ValidVersion == [mod : Nat, content : Valid]

Idle == [pc |-> "idle", mod |-> 0, cfg |-> running]

(* main loads the file before it starts the goroutine.                     *)
Init ==
    /\ file \in [mod : {1}, content : Valid]
    /\ present = TRUE
    /\ running = file
    /\ lastMod = 0
    /\ watcher = Idle

(* The file is replaced as a whole; every replacement has its own time.    *)
ReplaceFile ==
    /\ file.mod <= MaxEdits
    /\ \E c \in Contents : file' = [mod |-> file.mod + 1, content |-> c]
    /\ present' = TRUE
    /\ UNCHANGED <<watcher, lastMod, running>>

(* The file is moved away or becomes unreadable, and comes back as it was. *)
RemoveFile ==
    /\ present' = FALSE
    /\ UNCHANGED <<file, watcher, lastMod, running>>

RestoreFile ==
    /\ present' = TRUE
    /\ UNCHANGED <<file, watcher, lastMod, running>>

(* Faulty variant: lastMod is set before the load, so a content that fails *)
(* to load is never looked at again.                                       *)
StatMarks ==
    /\ watcher.pc = "idle"
    /\ present
    /\ file.mod # lastMod
    /\ watcher' = [pc |-> "load", mod |-> file.mod, cfg |-> watcher.cfg]
    /\ lastMod' = file.mod
    /\ UNCHANGED <<file, present, running>>

(* os.Stat; a failing Stat or an unchanged time ends the round.            *)
Stat ==
    /\ watcher.pc = "idle"
    /\ present
    /\ file.mod # lastMod
    /\ watcher' = [pc |-> "load", mod |-> file.mod, cfg |-> watcher.cfg]
    /\ UNCHANGED <<file, present, lastMod, running>>

(* Faulty variant: the content is applied without validation.              *)
LoadUnchecked ==
    /\ watcher.pc = "load"
    /\ watcher' = [pc |-> "apply", mod |-> watcher.mod, cfg |-> file]
    /\ UNCHANGED <<file, present, lastMod, running>>

(* LoadConfig; when it fails lastMod is left alone, so the next round      *)
(* tries again.                                                            *)
Load ==
    /\ watcher.pc = "load"
    /\ watcher' = IF present /\ file.content \in Valid
                    THEN [pc |-> "apply", mod |-> watcher.mod, cfg |-> file]
                    ELSE [watcher EXCEPT !.pc = "idle"]
    /\ UNCHANGED <<file, present, lastMod, running>>

(* Faulty variant: lastMod is read from the file again after the load.     *)
ApplyRestats ==
    /\ watcher.pc = "apply"
    /\ lastMod' = file.mod
    /\ running' = watcher.cfg
    /\ watcher' = [watcher EXCEPT !.pc = "idle"]
    /\ UNCHANGED <<file, present>>

(* lastMod becomes the time Stat returned; onChange is UpdateConfig.       *)
Apply ==
    /\ watcher.pc = "apply"
    /\ lastMod' = watcher.mod
    /\ running' = watcher.cfg
    /\ watcher' = [watcher EXCEPT !.pc = "idle"]
    /\ UNCHANGED <<file, present>>

Next == ReplaceFile \/ RemoveFile \/ RestoreFile \/ Stat \/ Load \/ Apply

(* The ticker of WatchConfig keeps firing and the goroutine is scheduled.  *)
Spec == Init /\ [][Next]_vars /\ WF_vars(Stat) /\ WF_vars(Load) /\ WF_vars(Apply)

-----------------------------------------------------------------------------
(* The type of every variable; only contents that LoadConfig accepted are  *)
(* loaded and run.                                                         *)
TypeOK ==
    /\ file \in Version
    /\ present \in BOOLEAN
    /\ watcher \in [pc : {"idle", "load", "apply"}, mod : Nat, cfg : ValidVersion]
    /\ lastMod \in Nat
    /\ running \in ValidVersion

(* The watcher skips the file only while the running config is the file's: *)
(* an edit that lands between Stat, LoadConfig and UpdateConfig is not     *)
(* lost.                                                                   *)
SkippedOnlyIfCurrent == lastMod = file.mod => running = file

(* If the file is readable and valid from some time on, its content runs   *)
(* from some time on, whatever failed before.                              *)
EditsTakeEffect ==
    <>[](present /\ file.content \in Valid) => <>[](running = file)

(* What UpdateConfig receives, and ScaleController assumes of it: a        *)
(* content that LoadConfig accepted, newer than the one that runs, however *)
(* old it is by the time it is applied.                                    *)
NeverGoesBack ==
    [][running' # running =>
          running'.mod > running.mod /\ running'.content \in Valid]_vars

-----------------------------------------------------------------------------
(* What makes the properties inductive.                                    *)
Versions ==
    /\ file.mod # 0
    /\ lastMod <= running.mod
    /\ running.mod <= watcher.cfg.mod
    /\ watcher.cfg.mod <= file.mod
    /\ watcher.pc \in {"load", "apply"} => watcher.mod <= file.mod
    /\ watcher.pc = "apply" => watcher.mod <= watcher.cfg.mod

Inv ==
    /\ TypeOK
    /\ Versions
    /\ watcher.cfg.mod = file.mod => watcher.cfg = file
    /\ running.mod = file.mod => running = file
    /\ running.mod = watcher.cfg.mod => running = watcher.cfg
=============================================================================
