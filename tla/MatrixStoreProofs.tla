------------------------- MODULE MatrixStoreProofs -------------------------
(* Proofs about MatrixStore, for any set of requests in flight and any     *)
(* matrices.                                                               *)
EXTENDS MatrixStore, TLAPS

(* The server before its first start.                                      *)
LEMMA InitInv == Init => Inv
<1> SUFFICES ASSUME Init PROVE Inv
    OBVIOUS
<1>1. TypeOK
      BY ShippedAssumption DEF Init, TypeOK, Contents, Pcs
<1>2. AloneUndisturbed
      BY DEF Init, AloneUndisturbed, InFlight
<1>3. SavedIsCurrent
      BY DEF Init, SavedIsCurrent
<1>4. QED
      BY <1>1, <1>2, <1>3 DEF Inv

(* What an edit makes of a matrix is a matrix.                             *)
LEMMA EditsAreMatrices ==
    ASSUME TypeOK PROVE Edits \subseteq Contents
<1>1. \A new \in Contents : ReplaceMatrix(new) \in Contents
      BY DEF ReplaceMatrix
<1>2. \A e \in mem, new \in Entries : UpdateSpec(e, new) \in Contents
      BY DEF UpdateSpec, TypeOK, Contents
<1>3. \A e \in Entries : Delete(e) \in Contents
      BY DEF Delete, TypeOK, Contents
<1>4. QED
      BY <1>1, <1>2, <1>3 DEF Edits

(* An edit: whoever was alone is so no longer, and nothing counts as saved.*)
LEMMA RequestInv ==
    ASSUME Inv, NEW r \in Requests, Request(r) PROVE Inv'
<1>1. mem' \in Contents
      BY EditsAreMatrices DEF Request, Inv
<1>2. pc' \in [Requests -> Pcs] /\ pc'[r] = "copy" /\ \A q \in Requests : q # r => pc'[q] = pc[q]
      BY DEF Request, Inv, TypeOK, Pcs
<1>3. alone' \in [Requests -> BOOLEAN]
      BY DEF Request
<1>4. TypeOK'
      BY <1>1, <1>2, <1>3 DEF Request, Inv, TypeOK
<1>5. \A q \in Requests : alone'[q] => q = r /\ \A p \in Requests : ~InFlight(p)
      BY DEF Request
<1>6. AloneUndisturbed'
      BY <1>2, <1>5 DEF Request, Inv, AloneUndisturbed, InFlight
<1>7. SavedIsCurrent'
      BY DEF Request, SavedIsCurrent
<1>8. QED
      BY <1>4, <1>6, <1>7 DEF Inv

(* Of an interrupted write a matrix or a torn file remains.                *)
LEMMA InterruptedFile ==
    ASSUME TypeOK, NEW r \in Requests, NEW f \in Interrupted(r)
    PROVE  f \in Contents \cup {Garbled}
<1>1. f \in SUBSET copy[r] \/ f \in {file, Garbled}
  <2>1. CASE file = {}
        BY <2>1 DEF Interrupted
  <2>2. CASE file # {}
        BY <2>2 DEF Interrupted
  <2>3. QED
        BY <2>1, <2>2
<1>2. QED
      BY <1>1 DEF TypeOK, Contents

(* A goroutine takes one of its steps from one place to another: what is   *)
(* left to show of it when it stays alone.                                 *)
LEMMA PersistInv ==
    ASSUME Inv, NEW r \in Requests, Persist(r) \/ Cancel(r) PROVE Inv'
<1> USE DEF store, saver, past
<1>1. CASE Cancel(r)
  <2>1. TypeOK'
        BY <1>1 DEF Cancel, Inv, TypeOK
  <2>2. QED
        BY <1>1, <2>1 DEF Cancel, Inv, AloneUndisturbed, SavedIsCurrent, InFlight
<1>2. CASE CopyForMap(r)
  <2>1. TypeOK'
        BY <1>2 DEF CopyForMap, Goto, Inv, TypeOK, Pcs
  <2>2. pc[r] = "copy" /\ pc'[r] = "get" /\ copy'[r] = mem
        /\ \A q \in Requests : q # r => pc'[q] = pc[q] /\ copy'[q] = copy[q]
        BY <1>2 DEF CopyForMap, Goto, Inv, TypeOK
  <2>3. QED
        BY <1>2, <2>1, <2>2 DEF CopyForMap, Inv, AloneUndisturbed, SavedIsCurrent, InFlight
<1>3. CASE GetMap(r)
  <2>1. TypeOK'
        BY <1>3 DEF GetMap, Goto, Inv, TypeOK, Pcs
  <2>2. pc[r] = "get" /\ pc'[r] \in {"create", "update"}
        /\ \A q \in Requests : q # r => pc'[q] = pc[q]
        BY <1>3 DEF GetMap, Goto, Inv, TypeOK
  <2>3. QED
        BY <1>3, <2>1, <2>2 DEF GetMap, Inv, AloneUndisturbed, SavedIsCurrent, InFlight
<1>4. CASE UpdateMap(r)
  <2>1. pc[r] \in {"update", "create"} /\ pc'[r] = "copyFile"
        /\ \A q \in Requests : q # r => pc'[q] = pc[q]
        BY <1>4 DEF UpdateMap, Goto, Inv, TypeOK
  <2>2. TypeOK'
        BY <1>4, <2>1 DEF UpdateMap, Goto, Store, Inv, TypeOK, Pcs
  <2>3. AloneUndisturbed'
        BY <1>4, <2>1 DEF UpdateMap, Inv, AloneUndisturbed, InFlight
  <2>4. alone[r] => copy[r] = mem
        BY <2>1 DEF Inv, AloneUndisturbed
  <2>5. SavedIsCurrent'
        BY <1>4, <2>4 DEF UpdateMap, Store, Inv, SavedIsCurrent
  <2>6. QED
        BY <2>2, <2>3, <2>5 DEF Inv
<1>5. CASE MapFails(r)
  <2>1. TypeOK'
        BY <1>5 DEF MapFails, Inv, TypeOK, Pcs
  <2>2. pc[r] # "idle" /\ pc'[r] = "copyFile" /\ \A q \in Requests : q # r => pc'[q] = pc[q]
        BY <1>5 DEF MapFails, Inv, TypeOK
  <2>3. QED
        BY <1>5, <2>1, <2>2 DEF MapFails, Inv, AloneUndisturbed, SavedIsCurrent, InFlight
<1>6. CASE CopyForFile(r)
  <2>1. TypeOK'
        BY <1>6 DEF CopyForFile, Goto, Inv, TypeOK, Pcs
  <2>2. pc[r] = "copyFile" /\ pc'[r] = "open" /\ copy'[r] = mem
        /\ \A q \in Requests : q # r => pc'[q] = pc[q] /\ copy'[q] = copy[q]
        BY <1>6 DEF CopyForFile, Goto, Inv, TypeOK
  <2>3. QED
        BY <1>6, <2>1, <2>2 DEF CopyForFile, Inv, AloneUndisturbed, SavedIsCurrent, InFlight
<1>7. CASE OpenFile(r)
  <2>1. TypeOK'
        BY <1>7 DEF OpenFile, Goto, Inv, TypeOK, Pcs, Contents
  <2>2. pc[r] = "open" /\ pc'[r] = "write" /\ \A q \in Requests : q # r => pc'[q] = pc[q]
        BY <1>7 DEF OpenFile, Goto, Inv, TypeOK
  <2>3. QED
        BY <1>7, <2>1, <2>2 DEF OpenFile, Inv, AloneUndisturbed, SavedIsCurrent, InFlight
<1>8. CASE WriteFile(r) \/ FileFails(r)
  <2>1. /\ pc' = [pc EXCEPT ![r] = "idle"] /\ copy' = [copy EXCEPT ![r] = {}]
        /\ live' = [live EXCEPT ![r] = FALSE] /\ fresh' = [fresh EXCEPT ![r] = FALSE]
        /\ alone' = [alone EXCEPT ![r] = FALSE]
        /\ UNCHANGED <<mounted, up, mem, cm, cmSaved>>
        BY <1>8 DEF WriteFile, FileFails, Goto
  <2>2. pc[r] \in {"open", "write"} /\ (alone[r] => copy[r] = mem)
        BY <1>8 DEF WriteFile, FileFails, Goto, Inv, AloneUndisturbed
  <2>3. file' \in Contents \cup {Garbled} /\ fileSaved' \in BOOLEAN
    <3>1. CASE WriteFile(r)
      <4>1. copy[r] \in Contents /\ alone[r] \in BOOLEAN
            BY DEF Inv, TypeOK
      <4>2. QED
            BY <3>1, <4>1 DEF WriteFile
    <3>2. CASE FileFails(r)
          BY <3>2, InterruptedFile DEF FileFails, Inv, TypeOK
    <3>3. QED
          BY <1>8, <3>1, <3>2
  <2>4. TypeOK'
        BY <2>1, <2>3 DEF Inv, TypeOK, Pcs, Contents
  <2>5. pc'[r] = "idle" /\ ~alone'[r]
        /\ \A q \in Requests : q # r => pc'[q] = pc[q] /\ alone'[q] = alone[q] /\ copy'[q] = copy[q]
        BY <2>1 DEF Inv, TypeOK
  <2>6. \A q \in Requests : ~alone'[q]
        BY <2>2, <2>5 DEF Inv, AloneUndisturbed, InFlight
  <2>7. AloneUndisturbed'
        BY <2>1, <2>5, <2>6 DEF Inv, AloneUndisturbed, InFlight
  <2>8. SavedIsCurrent'
        BY <1>8, <2>1, <2>2 DEF WriteFile, FileFails, Inv, SavedIsCurrent
  <2>9. QED
        BY <2>4, <2>7, <2>8 DEF Inv
<1>9. QED
      BY <1>1, <1>2, <1>3, <1>4, <1>5, <1>6, <1>7, <1>8 DEF Persist

(* The end and the start of the process.                                   *)
LEMMA ProcessInv ==
    ASSUME Inv, Crash \/ SyncMount \/ Start \/ StartFromFile PROVE Inv'
<1> USE DEF store, saver, past
<1>1. CASE Crash
  <2>1. file' \in Contents \cup {Garbled} /\ fileSaved' \in BOOLEAN
        BY <1>1, InterruptedFile DEF Crash, Inv, TypeOK
  <2>2. TypeOK'
        BY <1>1, <2>1 DEF Crash, Inv, TypeOK, Pcs, Contents
  <2>3. QED
        BY <1>1, <2>2 DEF Crash, Inv, AloneUndisturbed, SavedIsCurrent, InFlight
<1>2. CASE SyncMount
  <2>1. TypeOK'
        BY <1>2 DEF SyncMount, Inv, TypeOK
  <2>2. AloneUndisturbed'
        BY <1>2 DEF SyncMount, Inv, TypeOK, AloneUndisturbed, InFlight
  <2>3. QED
        BY <1>2, <2>1, <2>2 DEF SyncMount, Inv, SavedIsCurrent
<1>3. CASE Start \/ StartFromFile
  <2>1. ~up /\ up' = TRUE /\ mem' \in {file, cm} /\ UNCHANGED <<mounted, file, cm, saver, alone>>
        BY <1>3 DEF Start, StartFromFile
  <2>2. mem' \in Contents
        BY <1>3 DEF Start, StartFromFile, Inv, TypeOK
  <2>3. TypeOK'
        BY <1>3, <2>1, <2>2 DEF Start, StartFromFile, Inv, TypeOK
  <2>4. \A r \in Requests : ~alone[r]
        BY <2>1 DEF Inv, AloneUndisturbed
  <2>5. AloneUndisturbed'
        BY <2>1, <2>4 DEF Inv, AloneUndisturbed
  <2>6. SavedIsCurrent'
        BY <1>3 DEF Start, StartFromFile, SavedIsCurrent
  <2>7. QED
        BY <2>3, <2>5, <2>6 DEF Inv
<1>4. QED
      BY <1>1, <1>2, <1>3

(* Every step keeps the invariant.                                         *)
LEMMA NextInv == Inv /\ [Next]_vars => Inv'
<1> SUFFICES ASSUME Inv, [Next]_vars PROVE Inv'
    OBVIOUS
<1>1. CASE UNCHANGED vars
      BY <1>1 DEF vars, store, saver, past, Inv, TypeOK, AloneUndisturbed, SavedIsCurrent, InFlight
<1>2. QED
      BY <1>1, RequestInv, PersistInv, ProcessInv DEF Next

(* The invariant of the matrix store holds in every reachable state.       *)
THEOREM Invariance == Spec => []Inv
<1>1. QED
      BY InitInv, NextInv, PTL DEF Spec

(* What was saved by a goroutine that was alone is the matrix in memory,   *)
(* until the next edit, for any number of requests in flight.              *)
THEOREM SavedStaysCurrent == Spec => []SavedIsCurrent
<1>1. Inv => SavedIsCurrent
      BY DEF Inv
<1>2. QED
      BY <1>1, Invariance, PTL

(* A restart brings back what was saved.                                   *)
THEOREM RestartsRestore == Spec => RestartRestores
<1> DEFINE Restores ==
        /\ Start /\ (cmSaved \/ (cm = NoMap /\ fileSaved)) => mem' = mem
        /\ StartFromFile /\ fileSaved => mem' = mem
<1>1. Inv => [Restores]_vars
  <2> SUFFICES ASSUME Inv PROVE Restores
      OBVIOUS
  <2>1. cm # NoMap \/ ~cmSaved
        BY MarksAssumption DEF Inv, TypeOK, SavedIsCurrent, Contents, NoMap
  <2>2. QED
        BY <2>1 DEF Inv, SavedIsCurrent, Start, StartFromFile
<1>2. QED
      BY <1>1, Invariance, PTL DEF RestartRestores
=============================================================================
