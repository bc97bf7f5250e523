----------------------------- MODULE FileStore -----------------------------
(***************************************************************************)
(* The uploaded files of the experiment runner (auto-run/internal/         *)
(* filestore/store.go), the handlers that upload and delete them           *)
(* (auto-run/internal/api/handler.go) and their restore at start           *)
(* (auto-run/cmd/server/main.go).                                          *)
(*                                                                         *)
(* A file lives in a directory per category, on a volume that survives the *)
(* container and not the pod, and in a ConfigMap per category.  A request  *)
(* changes one file in the directory and then replaces the whole content   *)
(* of the ConfigMap by what it reads in the directory; nothing excludes    *)
(* other requests meanwhile.  A start writes what the ConfigMaps hold over *)
(* the directories, the categories one after the other, and serves even    *)
(* if that failed.                                                         *)
(*                                                                         *)
(* An action is one system call on the directory or one call of the        *)
(* Kubernetes API.  Requests with an unknown category or an invalid name   *)
(* return before they change anything and are left out.                    *)
(***************************************************************************)
EXTENDS Integers, FiniteSets, FiniteSetsExt

CONSTANTS
    Requests,  \* upload and delete requests that may be in flight together
    Names,     \* for each category its file names, numbered in ReadDir's order
    Contents,  \* what a file can hold
    Empty,     \* what os.WriteFile leaves until it has written everything: nothing,
               \* or a part of the content
    NoFile,    \* no file of that name
    Missing    \* no ConfigMap

Categories == {"configs", "scenarios"}

ASSUME NamesAssumption ==
    /\ DOMAIN Names = Categories
    /\ \A c \in Categories : IsFiniteSet(Names[c]) /\ Names[c] \subseteq Nat
ASSUME ContentsAssumption == {Empty, NoFile, Missing} \cap Contents = {} /\ Empty # NoFile
ASSUME MissingAssumption ==
    \A c \in Categories : Missing \notin [Names[c] -> Contents \cup {Empty, NoFile}]

(* RestoreFromConfigMaps takes the categories in this order.               *)
RestoreOrder == <<"configs", "scenarios">>
Serving == 3   \* the phase after both

VARIABLES
    disk,     \* the directory of each category: what it holds under each name
    cm,       \* the ConfigMap of each category: Missing, or its Data
    phase,    \* the category RestoreFromConfigMaps is at, or Serving
    req,      \* the requests in flight
    allowed,  \* history: what each file may durably hold, given the answers so far
    orderly   \* history: no request overlapped another of the category, no restore
              \* and no read of a file failed

vars == <<disk, cm, phase, req, allowed, orderly>>

Values == Contents \cup {Empty, NoFile}
Files(c) == [Names[c] -> Values]
NoFiles(c) == [n \in Names[c] |-> NoFile]
Data(c) == IF cm[c] = Missing THEN NoFiles(c) ELSE cm[c]

(* A request: where its handler is, its arguments (content NoFile: a       *)
(* delete), the entries of the directory it has still to read, the data    *)
(* it has put together, whether the ConfigMap is still the one its Get     *)
(* returned, and (history) whether it ran alone and read every file.       *)
Pending(c) ==
    [pc : {"change", "fill", "removed", "list", "read", "create", "update"}, cat : {c},
     name : Names[c], content : Contents \cup {NoFile}, todo : SUBSET Names[c],
     data : Files(c), fresh : BOOLEAN, clean : BOOLEAN]

(* One that has its success still to answer, and one that is over.         *)
Done(c) == [pc : {"ok"}, cat : {c}, clean : BOOLEAN]
Idle == [pc |-> "idle"]

At(r, pc)   == req[r].pc = pc
Goto(r, pc) == req' = [req EXCEPT ![r].pc = pc]
InFlight(c) == {r \in Requests : ~At(r, "idle") /\ req[r].cat = c}

Write(c, n, v) == disk' = [disk EXCEPT ![c][n] = v]

(* The histories: once a category is not orderly nothing is promised of it.*)
Record(ord, promises) ==
    /\ orderly' = ord
    /\ allowed' = [c \in Categories |->
                      IF ord[c] THEN promises[c] ELSE [n \in Names[c] |-> Values]]
-----------------------------------------------------------------------------
(* Before the first start there are no ConfigMaps and no files.            *)
Init ==
    /\ disk = [c \in Categories |-> NoFiles(c)]
    /\ cm = [c \in Categories |-> Missing]
    /\ phase = 1
    /\ req = [r \in Requests |-> Idle]
    /\ allowed = [c \in Categories |-> [n \in Names[c] |-> {NoFile}]]
    /\ orderly = [c \in Categories |-> TRUE]

(* uploadFile or deleteFile has its arguments and calls Save or Delete.    *)
Begin(r, c, n, v) ==
    /\ phase = Serving
    /\ At(r, "idle")
    /\ req' = [q \in Requests |->
                  IF q = r
                  THEN [pc |-> "change", cat |-> c, name |-> n, content |-> v, todo |-> {},
                        data |-> NoFiles(c), fresh |-> FALSE, clean |-> InFlight(c) = {}]
                  ELSE IF q \in InFlight(c) THEN [req[q] EXCEPT !.clean = FALSE] ELSE req[q]]
    /\ Record([orderly EXCEPT ![c] = @ /\ InFlight(c) = {}],
              [allowed EXCEPT ![c][n] = @ \cup (IF v = NoFile THEN {v} ELSE {v, Empty})])
    /\ UNCHANGED <<disk, cm, phase>>

(* os.WriteFile: open and truncate, then write.  An error or a crash in    *)
(* between leaves the file emptied or cut short; both are `Empty'.         *)
Truncate(r) ==
    /\ At(r, "change") /\ req[r].content # NoFile
    /\ Write(req[r].cat, req[r].name, Empty)
    /\ Goto(r, "fill")
    /\ UNCHANGED <<cm, phase, allowed, orderly>>

Fill(r) ==
    /\ At(r, "fill")
    /\ Write(req[r].cat, req[r].name, req[r].content)
    /\ Goto(r, "list")
    /\ UNCHANGED <<cm, phase, allowed, orderly>>

(* The write to a file that was removed since it was opened: the content   *)
(* goes with it, and no error tells.                                       *)
FillRemoved(r) ==
    /\ At(r, "removed")
    /\ Goto(r, "list")
    /\ UNCHANGED <<disk, cm, phase, allowed, orderly>>

(* os.Remove; that there is no such file is no error.                      *)
Remove(r) ==
    LET SameFile(q) == req[q].cat = req[r].cat /\ req[q].name = req[r].name
    IN  /\ At(r, "change") /\ req[r].content = NoFile
        /\ Write(req[r].cat, req[r].name, NoFile)
        /\ req' = [q \in Requests |->
                      IF q = r THEN [req[q] EXCEPT !.pc = "list"]
                      ELSE IF At(q, "fill") /\ SameFile(q) THEN [req[q] EXCEPT !.pc = "removed"]
                      ELSE req[q]]
        /\ UNCHANGED <<cm, phase, allowed, orderly>>

(* Faulty variant: the sync takes only the file that was changed.          *)
ListOwn(r) ==
    /\ At(r, "list")
    /\ req' = [req EXCEPT ![r].pc = "read",
                          ![r].todo = {n \in {req[r].name} : disk[req[r].cat][n] # NoFile}]
    /\ UNCHANGED <<disk, cm, phase, allowed, orderly>>

(* syncToConfigMap: os.ReadDir.                                            *)
ListDir(r) ==
    /\ At(r, "list")
    /\ req' = [req EXCEPT ![r].pc = "read",
                          ![r].todo = {n \in Names[req[r].cat] : disk[req[r].cat][n] # NoFile}]
    /\ UNCHANGED <<disk, cm, phase, allowed, orderly>>

(* os.ReadFile of one entry.  One that cannot be read is passed over.      *)
ReadFile(r) ==
    LET c == req[r].cat
        n == Min(req[r].todo)
        Advance(v, clean) == req' = [req EXCEPT ![r].todo = @ \ {n}, ![r].data[n] = v,
                                                ![r].clean = @ /\ clean]
    IN  /\ At(r, "read") /\ req[r].todo # {}
        /\ \/ Advance(disk[c][n], TRUE) /\ UNCHANGED <<allowed, orderly>>
           \/ Advance(NoFile, FALSE) /\ Record([orderly EXCEPT ![c] = FALSE], allowed)
        /\ UNCHANGED <<disk, cm, phase>>

(* applyConfigMap: Get, and Create or Update by what it says.              *)
GetMap(r) ==
    /\ At(r, "read") /\ req[r].todo = {}
    /\ req' = [req EXCEPT ![r].pc = IF cm[req[r].cat] = Missing THEN "create" ELSE "update",
                          ![r].fresh = TRUE]
    /\ UNCHANGED <<disk, cm, phase, allowed, orderly>>

(* Create is refused if the ConfigMap exists, Update if it is not the one  *)
(* that Get returned.                                                      *)
Accepted(r) ==
    \/ At(r, "create") /\ cm[req[r].cat] = Missing
    \/ At(r, "update") /\ req[r].fresh

(* The API server stores `data', and the request becomes `next'.           *)
Stored(r, data, next) ==
    /\ cm' = [cm EXCEPT ![req[r].cat] = data]
    /\ req' = [q \in Requests |->
                  IF q = r THEN next
                  ELSE IF q \in InFlight(req[r].cat) /\ ~At(q, "ok")
                  THEN [req[q] EXCEPT !.fresh = FALSE]
                  ELSE req[q]]

Success(r) == [pc |-> "ok", cat |-> req[r].cat, clean |-> req[r].clean]

Promise(r) ==
    Record(orderly, [allowed EXCEPT ![req[r].cat][req[r].name] = {req[r].content}])

(* Faulty variant: the data is added to what the ConfigMap holds.          *)
ApplyMerged(r) ==
    /\ Accepted(r)
    /\ LET held == Data(req[r].cat)
       IN  Stored(r, [n \in DOMAIN held |->
                         IF req[r].data[n] = NoFile THEN held[n] ELSE req[r].data[n]], Success(r))
    /\ Promise(r)
    /\ UNCHANGED <<disk, phase>>

(* Create or Update succeeds, and with it the request.                     *)
Apply(r) ==
    /\ Accepted(r)
    /\ Stored(r, req[r].data, Success(r))
    /\ Promise(r)
    /\ UNCHANGED <<disk, phase>>

(* It succeeds and the answer is lost: the request fails.                  *)
ApplyUnanswered(r) ==
    /\ Accepted(r)
    /\ Stored(r, req[r].data, Idle)
    /\ UNCHANGED <<disk, phase, allowed, orderly>>

(* A call fails, or is refused, and the handler answers with the error.    *)
(* What was changed so far stays; a client that went away ends a request   *)
(* in this way too, at the next call that looks at its context.            *)
Fail(r) ==
    /\ \/ req[r].pc \in {"change", "fill", "removed", "list", "create", "update"}
       \/ At(r, "read") /\ req[r].todo = {}
    /\ req' = [req EXCEPT ![r] = Idle]
    /\ UNCHANGED <<disk, cm, phase, allowed, orderly>>

Respond(r) ==
    /\ At(r, "ok")
    /\ req' = [req EXCEPT ![r] = Idle]
    /\ UNCHANGED <<disk, cm, phase, allowed, orderly>>
-----------------------------------------------------------------------------
(* The process ends, alone (the volume stays) or with its pod.             *)
Crash ==
    /\ phase' = 1
    /\ req' = [r \in Requests |-> Idle]
    /\ disk' \in {disk, [c \in Categories |-> NoFiles(c)]}
    /\ UNCHANGED <<cm, allowed, orderly>>

(* The directory of a category once `names' of its ConfigMap are written.  *)
Restored(c, names) ==
    [n \in Names[c] |-> IF n \in names /\ Data(c)[n] # NoFile THEN Data(c)[n] ELSE disk[c][n]]

(* The restore has not come past this category.                            *)
Unrestored(c) == \E i \in phase..2 : RestoreOrder[i] = c

(* restoreCategory: every file of the ConfigMap is written.                *)
RestoreCategory ==
    /\ phase # Serving
    /\ LET c == RestoreOrder[phase] IN disk' = [disk EXCEPT ![c] = Restored(c, Names[c])]
    /\ phase' = phase + 1
    /\ UNCHANGED <<cm, req, allowed, orderly>>

(* Get or one of the writes fails: the files written so far, in any order, *)
(* stay, and so does the one whose write failed, emptied or cut short; the *)
(* categories that follow are not tried, and main goes on.                 *)
RestoreFails ==
    /\ phase # Serving
    /\ LET c == RestoreOrder[phase]
       IN  \E names \in SUBSET Names[c] :
              \/ disk' = [disk EXCEPT ![c] = Restored(c, names)]
              \/ \E n \in Names[c] \ names :
                    /\ Data(c)[n] # NoFile
                    /\ disk' = [disk EXCEPT ![c] = [Restored(c, names) EXCEPT ![n] = Empty]]
    /\ phase' = Serving
    /\ Record([c \in Categories |->
                  /\ orderly[c]
                  /\ Unrestored(c) => disk'[c] = Restored(c, Names[c])],
              allowed)
    /\ UNCHANGED <<cm, req>>
-----------------------------------------------------------------------------
Handle(r) ==
    \/ \E c \in Categories : \E n \in Names[c], v \in Contents \cup {NoFile} : Begin(r, c, n, v)
    \/ Truncate(r) \/ Fill(r) \/ FillRemoved(r) \/ Remove(r) \/ ListDir(r) \/ ReadFile(r)
    \/ GetMap(r) \/ Apply(r) \/ ApplyUnanswered(r) \/ Fail(r) \/ Respond(r)

Next ==
    \/ \E r \in Requests : Handle(r)
    \/ Crash \/ RestoreCategory \/ RestoreFails

Spec == Init /\ [][Next]_vars
-----------------------------------------------------------------------------
(* The type of every variable: what is kept of a category is about its     *)
(* own file names.                                                         *)
TypeOK ==
    /\ DOMAIN disk = Categories /\ DOMAIN cm = Categories /\ DOMAIN allowed = Categories
    /\ DOMAIN req = Requests
    /\ \A c \in Categories : disk[c] \in Files(c) /\ cm[c] \in Files(c) \cup {Missing}
    /\ phase \in 1..Serving
    /\ \A r \in Requests :
          req[r] = Idle \/ \E c \in Categories : req[r] \in Pending(c) \cup Done(c)
    /\ \A c \in Categories : allowed[c] \in [Names[c] -> SUBSET Values]
    /\ orderly \in [Categories -> BOOLEAN]

(* A file whose upload was answered with success is in the ConfigMap with  *)
(* that content, and a deleted one is not, through crashes at any point,   *)
(* lost answers and lost directories, until a later request for the same   *)
(* file.  The only ways to lose it are the three that end `orderly': two   *)
(* overlapping requests of a category, a restore that fails (the next sync *)
(* then replaces the ConfigMap by what little the directory holds), and an *)
(* entry that syncToConfigMap could not read.                              *)
AnsweredIsDurable ==
    \A c \in Categories : orderly[c] => \A n \in Names[c] : Data(c)[n] \in allowed[c][n]

(* Whatever happened before, a request that nothing overlapped and that    *)
(* read every file leaves ConfigMap and directory equal when it succeeds:  *)
(* it repairs what earlier requests failed to store.                       *)
SuccessAligns ==
    \A r \in Requests :
        At(r, "ok") /\ req[r].clean => cm[req[r].cat] = disk[req[r].cat]

(* What makes the two inductive.  A request that ran alone and read every  *)
(* file so far has the directory to itself: its own change is there, and   *)
(* what it has put together is what the directory holds.                   *)
Aligned(r) ==
    LET c == req[r].cat
    IN  /\ ~At(r, "removed")
        /\ req[r].pc \in {"change", "fill", "list"} => req[r].data = NoFiles(c)
        /\ req[r].pc \in {"list", "read", "create", "update"}
              => disk[c][req[r].name] = req[r].content
        /\ req[r].pc \in {"read", "create", "update"}
              => \A n \in Names[c] : n \in req[r].todo \/ req[r].data[n] = disk[c][n]
        /\ req[r].pc \in {"create", "update"} => req[r].todo = {}
        /\ At(r, "ok") => cm[c] = disk[c]

CleanUndisturbed ==
    \A r \in Requests :
        ~At(r, "idle") /\ req[r].clean => InFlight(req[r].cat) = {r} /\ Aligned(r)

(* In an orderly category every request is such a one, and what it may     *)
(* leave behind at any moment is allowed; so is what the directory holds,  *)
(* unless it went with the pod and is not restored yet.  Nothing is served *)
(* before the restore.                                                     *)
Leaves(r) == IF req[r].content = NoFile THEN {NoFile} ELSE {req[r].content, Empty}

DirectoryAllowed ==
    /\ phase # Serving => \A r \in Requests : At(r, "idle")
    /\ \A r \in Requests : ~At(r, "idle") /\ orderly[req[r].cat] =>
          /\ req[r].clean
          /\ ~At(r, "ok") => Leaves(r) \subseteq allowed[req[r].cat][req[r].name]
    /\ \A c \in Categories : orderly[c] => \A n \in Names[c] :
          \/ disk[c][n] \in allowed[c][n]
          \/ Unrestored(c) /\ disk[c][n] = NoFile

Inv == TypeOK /\ AnsweredIsDurable /\ CleanUndisturbed /\ DirectoryAllowed
=============================================================================
