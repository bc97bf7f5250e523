---------------------------- MODULE MatrixStore ----------------------------
(***************************************************************************)
(* How the experiment runner saves its matrix: the requests that edit it   *)
(* and persistMatrix (auto-run/internal/api/handler.go), SaveToFile,       *)
(* PersistToConfigMap and SyncFromConfigMap (auto-run/internal/matrix/     *)
(* store.go), and the start of the server (auto-run/cmd/server/main.go).   *)
(*                                                                         *)
(* A request edits the matrix in memory and leaves the saving to a         *)
(* goroutine of its own, which uses the request's context: the context is  *)
(* cancelled when the handler returns or the client goes away, most often  *)
(* before the goroutine is done.  Nothing orders the goroutines of several *)
(* requests.  Each takes a copy of the matrix for the ConfigMap, reads and *)
(* updates the ConfigMap, takes another copy and writes the file.  Errors  *)
(* are dropped.                                                            *)
(*                                                                         *)
(* As deployed (auto-run/k8s/deployment.yaml) the file is a mount of that  *)
(* same ConfigMap, which cannot be written and follows the ConfigMap.      *)
(* Elsewhere it is a plain file.                                           *)
(*                                                                         *)
(* A matrix is the set of the entries it holds; an entry stands for the    *)
(* specification of a run, a position in the list or a default.            *)
(***************************************************************************)
EXTENDS FiniteSets

CONSTANTS
    Entries,   \* what a matrix may hold
    Shipped,   \* the matrix the runner is installed with
    Requests,  \* editing requests, with their goroutines, in flight together
    none,      \* marks a ConfigMap that does not exist
    torn       \* marks a file that is not the whole text of any matrix and does not parse

Contents == SUBSET Entries

NoMap   == {none}
Garbled == {torn}

ASSUME ShippedAssumption == Shipped \in Contents
ASSUME MarksAssumption == none \notin Entries /\ torn \notin Entries

VARIABLES
    mounted,  \* the matrix file is a mount of the ConfigMap; never changes
    up,       \* the server runs
    mem,      \* s.file and s.order; what they were last when the server is down
    file,     \* the matrix file
    cm,       \* the ConfigMap auto-run-matrix
    pc,       \* where the goroutine of each request is
    copy,     \* the copy it took of the matrix
    live,     \* its request's context is not cancelled
    fresh,    \* the ConfigMap is as its Get found it
    alone,    \* no other request was in flight since it started (history variable)
    cmSaved,  \* the last to write the ConfigMap was alone, after the last edit (history)
    fileSaved \* the same of the file (history)

store == <<mounted, up, mem, file, cm>>
saver == <<pc, copy, live, fresh>>
past  == <<alone, cmSaved, fileSaved>>
vars  == <<store, saver, past>>

Pcs == {"idle", "copy", "get", "update", "create", "copyFile", "open", "write"}

InFlight(r) == pc[r] # "idle"

(* The ConfigMap of the manifest is there before the pod that mounts it.   *)
Init ==
    /\ mounted \in BOOLEAN
    /\ up = FALSE
    /\ mem = Shipped /\ file = Shipped
    /\ cm \in {NoMap, Shipped} /\ (mounted => cm = Shipped)
    /\ pc = [r \in Requests |-> "idle"]
    /\ copy = [r \in Requests |-> {}]
    /\ live = [r \in Requests |-> FALSE]
    /\ fresh = [r \in Requests |-> FALSE]
    /\ alone = [r \in Requests |-> FALSE]
    /\ cmSaved = (cm = Shipped) /\ fileSaved = TRUE
-----------------------------------------------------------------------------
(* The edits: each is one critical section of the store.                   *)

ReplaceMatrix(new) == new

UpdateSpec(e, new) == (mem \ {e}) \cup {new}

Delete(e) == mem \ {e}

Edits ==
    {ReplaceMatrix(new) : new \in Contents}
        \cup {UpdateSpec(e, new) : e \in mem, new \in Entries}
        \cup {Delete(e) : e \in Entries}

(* Faulty variant: the copy to save is taken before the edit.              *)
RequestSavesOld(r) ==
    /\ up /\ ~InFlight(r)
    /\ mem' \in Edits
    /\ pc' = [pc EXCEPT ![r] = "get"]
    /\ copy' = [copy EXCEPT ![r] = mem]
    /\ live' = [live EXCEPT ![r] = TRUE]
    /\ alone' = [q \in Requests |-> q = r /\ \A p \in Requests : ~InFlight(p)]
    /\ cmSaved' = FALSE /\ fileSaved' = FALSE
    /\ UNCHANGED <<mounted, up, file, cm, fresh>>

(* putMatrix, patchRun, moveRun, deleteRun, putSettings: the edit, then    *)
(* `go' of the goroutine that saves.  What it refuses changes nothing.     *)
Request(r) ==
    /\ up /\ ~InFlight(r)
    /\ mem' \in Edits
    /\ pc' = [pc EXCEPT ![r] = "copy"]
    /\ live' = [live EXCEPT ![r] = TRUE]
    /\ alone' = [q \in Requests |-> q = r /\ \A p \in Requests : ~InFlight(p)]
    /\ cmSaved' = FALSE /\ fileSaved' = FALSE
    /\ UNCHANGED <<mounted, up, file, cm, copy, fresh>>

(* The handler has returned, or the client went away.                      *)
Cancel(r) ==
    /\ live[r]
    /\ live' = [live EXCEPT ![r] = FALSE]
    /\ UNCHANGED <<store, pc, copy, fresh, past>>
-----------------------------------------------------------------------------
(* PersistToConfigMap.                                                     *)

Goto(r, from, to) == pc[r] = from /\ pc' = [pc EXCEPT ![r] = to]

(* ToMatrixFile copies under the read lock.                                *)
CopyForMap(r) ==
    /\ Goto(r, "copy", "get")
    /\ copy' = [copy EXCEPT ![r] = mem]
    /\ UNCHANGED <<store, live, fresh, past>>

GetMap(r) ==
    /\ live[r]
    /\ Goto(r, "get", IF cm = NoMap THEN "create" ELSE "update")
    /\ fresh' = [fresh EXCEPT ![r] = TRUE]
    /\ UNCHANGED <<store, copy, live, past>>

(* The ConfigMap is stored: every other goroutine's reading of it is old.  *)
Store(r) ==
    /\ cm' = copy[r]
    /\ cmSaved' = alone[r]
    /\ fresh' = [q \in Requests |-> FALSE]

(* Update replaces the data of the object that Get returned; Create needs  *)
(* that there is none.  Either is refused when the object has changed.  An *)
(* answer that is lost makes no difference: nobody looks at it.            *)
UpdateMap(r) ==
    /\ live[r] /\ fresh[r]
    /\ Goto(r, "update", "copyFile") \/ Goto(r, "create", "copyFile")
    /\ Store(r)
    /\ UNCHANGED <<mounted, up, mem, file, copy, live, alone, fileSaved>>

(* A call fails: the context is cancelled, the object has changed, the     *)
(* server does not answer.  PersistToConfigMap returns and the file is     *)
(* next.                                                                   *)
MapFails(r) ==
    /\ pc[r] \in {"get", "update", "create"}
    /\ pc' = [pc EXCEPT ![r] = "copyFile"]
    /\ UNCHANGED <<store, copy, live, fresh, past>>

-----------------------------------------------------------------------------
(* SaveToFile: os.WriteFile empties the file and then writes it.           *)

CopyForFile(r) ==
    /\ Goto(r, "copyFile", "open")
    /\ copy' = [copy EXCEPT ![r] = mem]
    /\ UNCHANGED <<store, live, fresh, past>>

(* A mounted file cannot be opened.                                        *)
OpenFile(r) ==
    /\ ~mounted
    /\ Goto(r, "open", "write")
    /\ file' = {}
    /\ fileSaved' = FALSE
    /\ UNCHANGED <<mounted, up, mem, cm, copy, live, fresh, alone, cmSaved>>

(* What another goroutine has written since is overwritten from the start; *)
(* the end of a longer text stays.                                         *)
WriteFile(r) ==
    /\ Goto(r, "write", "idle")
    /\ \/ file' = copy[r] /\ fileSaved' = alone[r]
       \/ file \notin {{}, copy[r]} /\ file' = Garbled /\ fileSaved' = FALSE
    /\ copy' = [copy EXCEPT ![r] = {}]
    /\ live' = [live EXCEPT ![r] = FALSE]
    /\ fresh' = [fresh EXCEPT ![r] = FALSE]
    /\ alone' = [alone EXCEPT ![r] = FALSE]
    /\ UNCHANGED <<mounted, up, mem, cm, cmSaved>>

(* What may be in the file when only a part of r's text was written: in an *)
(* emptied file fewer entries, or a text that does not parse; onto the     *)
(* text of another goroutine a mixture.                                    *)
Interrupted(r) ==
    IF file = {} THEN {Garbled} \cup SUBSET copy[r]
    ELSE IF file = copy[r] THEN {file}
    ELSE {file, Garbled}

(* The file cannot be opened, or the write fails midway.                   *)
FileFails(r) ==
    /\ \/ pc[r] = "open" /\ UNCHANGED <<file, fileSaved>>
       \/ pc[r] = "write" /\ file' \in Interrupted(r) /\ fileSaved' = FALSE
    /\ pc' = [pc EXCEPT ![r] = "idle"]
    /\ copy' = [copy EXCEPT ![r] = {}]
    /\ live' = [live EXCEPT ![r] = FALSE]
    /\ fresh' = [fresh EXCEPT ![r] = FALSE]
    /\ alone' = [alone EXCEPT ![r] = FALSE]
    /\ UNCHANGED <<mounted, up, mem, cm, cmSaved>>
-----------------------------------------------------------------------------
(* The process ends, and its goroutines with it, a write midway.           *)
Crash ==
    /\ up
    /\ \/ UNCHANGED <<file, fileSaved>>
       \/ \E r \in Requests :
             pc[r] = "write" /\ file' \in Interrupted(r) /\ fileSaved' = FALSE
    /\ up' = FALSE
    /\ pc' = [r \in Requests |-> "idle"]
    /\ copy' = [r \in Requests |-> {}]
    /\ live' = [r \in Requests |-> FALSE]
    /\ fresh' = [r \in Requests |-> FALSE]
    /\ alone' = [r \in Requests |-> FALSE]
    /\ UNCHANGED <<mounted, mem, cm, cmSaved>>

(* The mounted file is brought up to date: after a while in a running pod, *)
(* at once in a new one.                                                   *)
SyncMount ==
    /\ mounted
    /\ file' = cm /\ fileSaved' = cmSaved
    /\ UNCHANGED <<mounted, up, mem, cm, saver, alone, cmSaved>>

(* Faulty variant: the ConfigMap is looked at only when the file is empty. *)
StartPrefersFile ==
    /\ ~up /\ file # Garbled
    /\ up' = TRUE
    /\ mem' = IF cm = NoMap \/ file # {} THEN file ELSE cm
    /\ cmSaved' = (mem' = cm) /\ fileSaved' = (mem' = file)
    /\ UNCHANGED <<mounted, file, cm, saver, alone>>

(* main: NewStore reads the file, and ends the process if it cannot;       *)
(* SyncFromConfigMap replaces the matrix if there is a ConfigMap.          *)
Start ==
    /\ ~up /\ file # Garbled
    /\ up' = TRUE
    /\ mem' = IF cm = NoMap THEN file ELSE cm
    /\ cmSaved' = (mem' = cm) /\ fileSaved' = (mem' = file)
    /\ UNCHANGED <<mounted, file, cm, saver, alone>>

(* SyncFromConfigMap fails, and the server goes on with the file.          *)
StartFromFile ==
    /\ ~up /\ file # Garbled
    /\ up' = TRUE
    /\ mem' = file
    /\ cmSaved' = (mem' = cm) /\ fileSaved' = TRUE
    /\ UNCHANGED <<mounted, file, cm, saver, alone>>
-----------------------------------------------------------------------------
Persist(r) ==
    \/ CopyForMap(r) \/ GetMap(r) \/ UpdateMap(r) \/ MapFails(r)
    \/ CopyForFile(r) \/ OpenFile(r) \/ WriteFile(r) \/ FileFails(r)

Next ==
    \/ \E r \in Requests : Request(r) \/ Cancel(r) \/ Persist(r)
    \/ Crash \/ SyncMount \/ Start \/ StartFromFile

Spec == Init /\ [][Next]_vars
-----------------------------------------------------------------------------
(* The type of every variable: the matrix in memory is never the torn one. *)
TypeOK ==
    /\ mounted \in BOOLEAN /\ (mounted => cm \in Contents)
    /\ up \in BOOLEAN
    /\ mem \in Contents
    /\ file \in Contents \cup {Garbled}
    /\ cm \in Contents \cup {NoMap}
    /\ pc \in [Requests -> Pcs]
    /\ copy \in [Requests -> Contents]
    /\ live \in [Requests -> BOOLEAN]
    /\ fresh \in [Requests -> BOOLEAN]
    /\ alone \in [Requests -> BOOLEAN]
    /\ cmSaved \in BOOLEAN /\ fileSaved \in BOOLEAN

(* A goroutine that is alone holds a copy of the matrix as it is, and the  *)
(* file it has emptied stays empty until it writes.  Without a server      *)
(* there are no goroutines, and none writes a mounted file.                *)
AloneUndisturbed ==
    /\ ~up => \A r \in Requests : ~InFlight(r)
    /\ mounted => \A r \in Requests : pc[r] # "write"
    /\ \A r \in Requests : alone[r] =>
          /\ InFlight(r)
          /\ \A q \in Requests : InFlight(q) => q = r
          /\ pc[r] \in {"get", "update", "create", "open", "write"} => copy[r] = mem
          /\ pc[r] = "write" => file = {}

(* What a goroutine wrote that was alone from its edit to its write is the *)
(* matrix in memory, until the next edit: neither a late goroutine of an   *)
(* earlier request nor a failed or half-made save can stand in its place   *)
(* (persistMatrix, PersistToConfigMap, SaveToFile).                        *)
SavedIsCurrent ==
    /\ cmSaved => cm = mem
    /\ fileSaved => file = mem

Inv == TypeOK /\ AloneUndisturbed /\ SavedIsCurrent

(* A restart brings back the matrix that was saved in the ConfigMap, with  *)
(* whatever file it finds, and the one saved in the file when there is no  *)
(* ConfigMap or it cannot be read (main, NewStore, SyncFromConfigMap).     *)
RestartRestores ==
    [][/\ Start /\ (cmSaved \/ (cm = NoMap /\ fileSaved)) => mem' = mem
       /\ StartFromFile /\ fileSaved => mem' = mem]_vars
=============================================================================
