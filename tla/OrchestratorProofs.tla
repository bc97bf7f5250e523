------------------------- MODULE OrchestratorProofs -------------------------
(* Proofs about RunMatrix, Orchestrator and RunnerEvents, for any set of   *)
(* runs, requests, loop goroutines and streams and any capacities of the   *)
(* control channel and of the subscribers' channels.                       *)
EXTENDS RunnerEvents, SequenceTheorems, FiniteSetTheorems, TLAPS

(***************************************************************************)
(* The list operations of the matrix.                                      *)
(***************************************************************************)

(* A run taken out by its position: the others keep their order.           *)
LEMMA RemoveAtElements ==
    ASSUME NEW l \in Seq(Runs), NEW i \in DOMAIN l
    PROVE  /\ RemoveAt(l, i) \in Seq(Runs)
           /\ Len(RemoveAt(l, i)) = Len(l) - 1
           /\ \A j \in 1..(Len(l) - 1) :
                 RemoveAt(l, i)[j] = IF j < i THEN l[j] ELSE l[j + 1]
<1> DEFINE a == SubSeq(l, 1, i - 1)
           b == SubSeq(l, i + 1, Len(l))
<1>1. i \in 1..Len(l) /\ Len(l) \in Nat
      OBVIOUS
<1>2. /\ a \in Seq(Runs) /\ Len(a) = i - 1
      /\ \A j \in 1..(i - 1) : a[j] = l[j]
      BY <1>1, SubSeqProperties
<1>3. /\ b \in Seq(Runs) /\ Len(b) = Len(l) - i
      /\ \A j \in 1..(Len(l) - i) : b[j] = l[i + j]
      BY <1>1, SubSeqProperties
<1>4. RemoveAt(l, i) = a \o b
      BY DEF RemoveAt
<1> HIDE DEF a, b
<1>5. /\ a \o b \in Seq(Runs)
      /\ Len(a \o b) = Len(l) - 1
      /\ \A j \in 1..(Len(l) - 1) :
            (a \o b)[j] = IF j <= i - 1 THEN a[j] ELSE b[j - (i - 1)]
      BY <1>1, <1>2, <1>3, ConcatProperties, SMTT(30)
<1>6. ASSUME NEW j \in 1..(Len(l) - 1)
      PROVE  (a \o b)[j] = IF j < i THEN l[j] ELSE l[j + 1]
  <2>1. CASE j < i
        BY <1>1, <1>2, <1>5, <2>1
  <2>2. CASE i <= j
    <3>1. j - (i - 1) \in 1..(Len(l) - i) /\ i + (j - (i - 1)) = j + 1
          BY <1>1, <2>2
    <3>2. (a \o b)[j] = b[j - (i - 1)] /\ b[j - (i - 1)] = l[j + 1]
          BY <1>1, <1>3, <1>5, <2>2, <3>1
    <3>3. QED
          BY <1>1, <2>2, <3>2
  <2>3. j < i \/ i <= j
        BY <1>1
  <2>4. QED
        BY <2>1, <2>2, <2>3
<1>7. QED
      BY <1>4, <1>5, <1>6

(* Without: a list without repetition stays one and no longer names the    *)
(* run; the rest of it is what it was.                                     *)
LEMMA WithoutElements ==
    ASSUME NEW l \in Seq(Runs), IsInjective(l), NEW id \in Runs
    PROVE  /\ Without(l, id) \in Seq(Runs)
           /\ IsInjective(Without(l, id))
           /\ \A j \in DOMAIN Without(l, id) :
                 /\ Without(l, id)[j] # id
                 /\ \E k \in DOMAIN l : Without(l, id)[j] = l[k]
<1>1. CASE \E i \in DOMAIN l : l[i] = id
  <2> DEFINE i == CHOOSE i \in DOMAIN l : l[i] = id
             r == RemoveAt(l, i)
  <2>1. i \in DOMAIN l /\ l[i] = id
        BY <1>1
  <2> HIDE DEF i
  <2>2. /\ r \in Seq(Runs) /\ Len(r) = Len(l) - 1
        /\ \A j \in 1..(Len(l) - 1) : r[j] = IF j < i THEN l[j] ELSE l[j + 1]
        BY <2>1, RemoveAtElements
  <2>3. Without(l, id) = r
        BY <1>1 DEF Without, i
  <2> HIDE DEF r
  <2>4. DOMAIN r = 1..(Len(l) - 1) /\ DOMAIN l = 1..Len(l) /\ Len(l) \in Nat
        BY <2>2
  <2>5. \A j \in DOMAIN r : \E k \in DOMAIN l : r[j] = l[k] /\ k # i
        BY <2>1, <2>2, <2>4
  <2>6. \A j \in DOMAIN r : r[j] # id /\ \E k \in DOMAIN l : r[j] = l[k]
        BY <2>1, <2>5 DEF IsInjective
  <2>7. IsInjective(r)
    <3> SUFFICES ASSUME NEW j \in DOMAIN r, NEW k \in DOMAIN r, r[j] = r[k] PROVE j = k
        BY DEF IsInjective
    <3> DEFINE from(n) == IF n < i THEN n ELSE n + 1
    <3>1. j \in 1..(Len(l) - 1) /\ k \in 1..(Len(l) - 1) /\ i \in Int
          BY <2>1, <2>4
    <3>2. from(j) \in DOMAIN l /\ from(k) \in DOMAIN l
          BY <2>4, <3>1
    <3>3. r[j] = l[from(j)] /\ r[k] = l[from(k)]
          BY <2>2, <3>1
    <3>4. from(j) = from(k)
      <4> HIDE DEF from
      <4>1. QED
            BY <3>2, <3>3 DEF IsInjective
    <3>5. QED
          BY <3>1, <3>4
  <2>8. QED
        BY <2>2, <2>3, <2>6, <2>7
<1>2. CASE ~\E i \in DOMAIN l : l[i] = id
      BY <1>2 DEF Without
<1>3. QED
      BY <1>1, <1>2

(* A run that is not in the list, inserted anywhere.                       *)
LEMMA InsertElements ==
    ASSUME NEW l \in Seq(Runs), IsInjective(l), NEW id \in Runs,
           \A j \in DOMAIN l : l[j] # id, NEW p \in 1..(Len(l) + 1)
    PROVE  /\ InsertAt(l, p, id) \in Seq(Runs)
           /\ IsInjective(InsertAt(l, p, id))
           /\ \A j \in DOMAIN InsertAt(l, p, id) :
                 \/ InsertAt(l, p, id)[j] = id
                 \/ \E k \in DOMAIN l : InsertAt(l, p, id)[j] = l[k]
<1> DEFINE a == SubSeq(l, 1, p - 1)
           b == SubSeq(l, p, Len(l))
           c == a \o <<id>>
           r == c \o b
<1>1. Len(l) \in Nat /\ p \in Int /\ DOMAIN l = 1..Len(l)
      OBVIOUS
<1>2. /\ a \in Seq(Runs) /\ Len(a) = p - 1
      /\ \A j \in 1..(p - 1) : a[j] = l[j]
      BY <1>1, SubSeqProperties
<1>3. /\ b \in Seq(Runs) /\ Len(b) = Len(l) - p + 1
      /\ \A j \in 1..(Len(l) - p + 1) : b[j] = l[p + j - 1]
      BY <1>1, SubSeqProperties
<1>4. /\ <<id>> \in Seq(Runs) /\ Len(<<id>>) = 1 /\ <<id>>[1] = id
      OBVIOUS
<1>5. /\ c \in Seq(Runs) /\ Len(c) = p
      /\ \A j \in 1..(p - 1) : c[j] = l[j]
      /\ c[p] = id
      BY <1>1, <1>2, <1>4, ConcatProperties
<1> HIDE DEF a, b, c
<1>6. /\ r \in Seq(Runs) /\ Len(r) = Len(c) + Len(b)
      /\ \A j \in 1..(Len(c) + Len(b)) :
            r[j] = IF j <= Len(c) THEN c[j] ELSE b[j - Len(c)]
      BY <1>3, <1>5, ConcatProperties
<1> HIDE DEF r
<1>7. ASSUME NEW j \in 1..(Len(l) + 1)
      PROVE  r[j] = IF j < p THEN l[j] ELSE IF j = p THEN id ELSE l[j - 1]
  <2>1. CASE j <= p
        BY <1>1, <1>3, <1>5, <1>6, <2>1
  <2>2. CASE p < j
    <3>1. j - p \in 1..(Len(l) - p + 1) /\ p + (j - p) - 1 = j - 1
          BY <1>1, <2>2
    <3>2. r[j] = b[j - p] /\ b[j - p] = l[j - 1]
          BY <1>1, <1>3, <1>5, <1>6, <2>2, <3>1
    <3>3. QED
          BY <1>1, <2>2, <3>2
  <2>3. QED
        BY <1>1, <2>1, <2>2
<1>8. DOMAIN r = 1..(Len(l) + 1)
      BY <1>1, <1>3, <1>5, <1>6
<1>9. ASSUME NEW x \in DOMAIN r, NEW y \in DOMAIN r, r[x] = r[y], x < y
      PROVE  FALSE
  <2> DEFINE at(j) == IF j < p THEN j ELSE j - 1
  <2>1. /\ x # p => at(x) \in DOMAIN l /\ r[x] = l[at(x)]
        /\ y # p => at(y) \in DOMAIN l /\ r[y] = l[at(y)]
        BY <1>1, <1>7, <1>8
  <2>2. x # p /\ y # p => at(x) # at(y)
        BY <1>1, <1>8, <1>9
  <2>3. (x = p => r[x] = id) /\ (y = p => r[y] = id)
        BY <1>7, <1>8
  <2> HIDE DEF at
  <2>4. QED
        BY <1>9, <2>1, <2>2, <2>3 DEF IsInjective
<1>10. IsInjective(r)
  <2>1. \A x, y \in DOMAIN r : r[x] = r[y] => ~(x < y) /\ ~(y < x)
        BY <1>9
  <2>2. QED
        BY <1>1, <1>8, <2>1 DEF IsInjective
<1>11. ASSUME NEW j \in DOMAIN r
       PROVE  r[j] = id \/ \E k \in DOMAIN l : r[j] = l[k]
  <2>1. CASE j < p
    <3>1. j \in DOMAIN l /\ r[j] = l[j]
          BY <1>1, <1>7, <1>8, <2>1
    <3>2. QED
          BY <3>1
  <2>2. CASE j = p
        BY <1>7, <1>8, <2>2
  <2>3. CASE p < j
    <3>1. j - 1 \in DOMAIN l /\ r[j] = l[j - 1]
          BY <1>1, <1>7, <1>8, <2>3
    <3>2. QED
          BY <3>1
  <2>4. QED
        BY <1>1, <1>8, <2>1, <2>2, <2>3
<1>12. InsertAt(l, p, id) = r
      BY DEF InsertAt, r, a, b, c
<1>13. QED
      BY <1>6, <1>10, <1>11, <1>12

(* MoveAfter, wherever the run goes: a list without repetition of runs     *)
(* that were listed before.                                                *)
LEMMA MoveAfterElements ==
    ASSUME NEW l \in Seq(Runs), IsInjective(l), NEW id \in Runs, NEW after,
           \E i \in DOMAIN l : l[i] = id
    PROVE  /\ MoveAfter(l, id, after) \in Seq(Runs)
           /\ IsInjective(MoveAfter(l, id, after))
           /\ \A j \in DOMAIN MoveAfter(l, id, after) :
                 \E k \in DOMAIN l : MoveAfter(l, id, after)[j] = l[k]
<1> DEFINE rest == Without(l, id)
           found == \E i \in DOMAIN rest : rest[i] = after
           position == IF after = "front" THEN 1
                       ELSE IF found THEN (CHOOSE i \in DOMAIN rest : rest[i] = after) + 1
                       ELSE Len(rest) + 1
<1>1. /\ rest \in Seq(Runs) /\ IsInjective(rest)
      /\ \A j \in DOMAIN rest : rest[j] # id /\ \E k \in DOMAIN l : rest[j] = l[k]
      BY WithoutElements
<1>2. MoveAfter(l, id, after) = InsertAt(rest, position, id)
      BY DEF MoveAfter
<1> HIDE DEF rest
<1>3. position \in 1..(Len(rest) + 1)
  <2>1. found => (CHOOSE i \in DOMAIN rest : rest[i] = after) \in DOMAIN rest
        OBVIOUS
  <2>2. DOMAIN rest = 1..Len(rest) /\ Len(rest) \in Nat
        BY <1>1
  <2>3. QED
        BY <2>1, <2>2
<1> HIDE DEF position
<1> DEFINE r == InsertAt(rest, position, id)
<1>4. /\ r \in Seq(Runs) /\ IsInjective(r)
      /\ \A j \in DOMAIN r : r[j] = id \/ \E k \in DOMAIN rest : r[j] = rest[k]
      BY <1>1, <1>3, InsertElements
<1> HIDE DEF r
<1>5. \A j \in DOMAIN r : \E k \in DOMAIN l : r[j] = l[k]
      BY <1>1, <1>4
<1>6. QED
      BY <1>2, <1>4, <1>5 DEF r

(* What validateMatrix lets through.                                       *)
LEMMA MatricesAreLists ==
    ASSUME NEW m \in Matrices
    PROVE  m \in Seq(Runs) /\ IsInjective(m)
<1>1. Cardinality(Runs) \in Nat
      BY RunsAssumption, FS_CardinalityType
<1>2. PICK n \in 0..Cardinality(Runs) : m \in Injection(1..n, Runs)
      BY DEF Matrices
<1>3. n \in Nat /\ m \in [1..n -> Runs] /\ IsInjective(m)
      BY <1>1, <1>2 DEF Injection
<1>4. QED
      BY <1>3

(* The runs that ReplaceMatrix lists all have a state.                     *)
LEMMA AddStatesListed ==
    ASSUME NEW l \in Seq(Runs), NEW st \in [Runs -> Statuses]
    PROVE  /\ AddStates(l, st) \in [Runs -> Statuses]
           /\ \A i \in DOMAIN l : AddStates(l, st)[l[i]] # "absent"
           /\ \A id \in Runs : \/ AddStates(l, st)[id] = st[id]
                               \/ st[id] = "absent" /\ AddStates(l, st)[id] = "queued"
<1>1. \A i \in DOMAIN l : l[i] \in Runs /\ l[i] \in Listed(l)
      BY DEF Listed, Range
<1>2. QED
      BY <1>1 DEF AddStates, Statuses

(***************************************************************************)
(* The invariant of the orchestrator.                                      *)
(***************************************************************************)

(* A fresh store and a fresh orchestrator.                                 *)
LEMMA InitInv == Init => Inv
<1> SUFFICES ASSUME Init PROVE Inv
    OBVIOUS
<1> DEFINE none == [id \in Runs |-> "absent"]
<1>1. none \in [Runs -> Statuses] /\ \A id \in Runs : none[id] = "absent"
      BY DEF Statuses
<1>2. order \in Seq(Runs) /\ IsInjective(order)
      BY MatricesAreLists DEF Init
<1>3. status = AddStates(order, none)
      BY DEF Init
<1> HIDE DEF none
<1>4. /\ status \in [Runs -> Statuses]
      /\ \A i \in DOMAIN order : status[order[i]] # "absent"
      /\ \A id \in Runs : status[id] # "running"
      BY <1>1, <1>2, <1>3, AddStatesListed
<1>5. TypeOK
  <2>1. controlCh \in Seq(Signals) /\ Len(controlCh) <= ControlCap
        BY ControlCapAssumption DEF Init
  <2>2. /\ pc \in [Slots -> LoopPcs] /\ run \in [Slots -> Runs \cup {NoRun}]
        /\ request \in [Clients -> Requests]
        BY DEF Init, LoopPcs, Requests
  <2>3. live \in [Slots -> BOOLEAN] /\ failed \in [Slots -> BOOLEAN]
        BY DEF Init
  <2>4. /\ running \in BOOLEAN /\ pauseAfter \in BOOLEAN
        /\ cancelRun \in Slots \cup {NoSlot} /\ deployed \in SUBSET Runs
        BY DEF Init
  <2>5. QED
        BY <1>2, <1>4, <2>1, <2>2, <2>3, <2>4 DEF TypeOK
<1>6. \A s \in Slots : pc[s] = "none" /\ ~Executing(s)
      BY DEF Init, Executing, ExecutingPcs
<1>7. OneLoop /\ RunningIffExecuted /\ ChosenNotEnded
      BY <1>4, <1>6 DEF Init, OneLoop, Active, RunningIffExecuted, ChosenNotEnded, ExecutingPcs
<1>8. QED
      BY <1>2, <1>4, <1>5, <1>7 DEF Inv, MatrixConsistent

(* The one loop there is: what the invariant says of it.                   *)
LEMMA SoleLoop ==
    ASSUME Inv, NEW s \in Slots, pc[s] # "none"
    PROVE  /\ running
           /\ \A t \in Slots : t # s => pc[t] = "none"
           /\ \A id \in Runs : status[id] = "running" <=> pc[s] \in ExecutingPcs /\ run[s] = id
<1>1. running /\ \A t \in Slots : t # s => pc[t] = "none"
      BY DEF Inv, OneLoop, Active
<1>2. \A t \in Slots : Executing(t) => t = s
      BY <1>1 DEF Executing, ExecutingPcs
<1>3. QED
      BY <1>1, <1>2 DEF Inv, RunningIffExecuted, Executing

(* The invariant from what a step leaves of the one loop that runs.        *)
LEMMA FromSoleLoop ==
    ASSUME TypeOK', MatrixConsistent', NEW s \in Slots, pc'[s] # "none", running',
           \A t \in Slots : t # s => pc'[t] = "none",
           \A id \in Runs : status'[id] = "running" <=> pc'[s] \in ExecutingPcs /\ run'[s] = id,
           pc'[s] \in {"spec", "claim"} \cup ExecutingPcs => run'[s] \in Runs,
           pc'[s] \in {"spec", "claim"} => status'[run'[s]] \in {"queued", "absent"}
    PROVE  Inv'
<1>1. OneLoop'
      BY DEF OneLoop, Active
<1>2. \A t \in Slots : pc'[t] \in {"spec", "claim"} \cup ExecutingPcs => t = s
      BY DEF ExecutingPcs
<1>3. RunningIffExecuted'
      BY <1>2 DEF RunningIffExecuted, Executing
<1>4. ChosenNotEnded'
      BY <1>2 DEF ChosenNotEnded
<1>5. QED
      BY <1>1, <1>3, <1>4 DEF Inv

(* A step that changes no status from or to "running", and no loop.        *)
LEMMA FromStatuses ==
    ASSUME Inv, TypeOK', MatrixConsistent', UNCHANGED <<running, pc, run>>,
           \A id \in Runs : status'[id] = "running" <=> status[id] = "running",
           \A id \in Runs : status[id] \in {"queued", "absent"} => status'[id] \in {"queued", "absent"}
    PROVE  Inv'
<1>1. OneLoop'
      BY DEF Inv, OneLoop, Active
<1>2. RunningIffExecuted'
      BY DEF Inv, RunningIffExecuted, Executing
<1>3. ChosenNotEnded'
      BY DEF Inv, ChosenNotEnded, ExecutingPcs
<1>4. QED
      BY <1>1, <1>2, <1>3 DEF Inv

(* Control requests.                                                       *)
LEMMA ControlInv ==
    ASSUME Inv, NEW c \in Clients, Control(c)
    PROVE  Inv'
<1> USE DEF matrix, control, loops
<1>1. CASE ControlStart(c)
  <2>1. TypeOK' /\ MatrixConsistent'
        BY <1>1 DEF ControlStart, Inv, TypeOK, Requests, MatrixConsistent
  <2>2. QED
        BY <1>1, <2>1, FromStatuses DEF ControlStart
<1>2. CASE Start(c)
  <2>1. TypeOK' /\ MatrixConsistent' /\ UNCHANGED <<status, run>>
        BY <1>2 DEF Start, Inv, TypeOK, Requests, LoopPcs, MatrixConsistent
  <2>2. CASE running
        BY <1>2, <2>1, <2>2, FromStatuses DEF Start
  <2>3. CASE ~running
    <3>1. PICK s \in Slots : pc[s] = "none" /\ pc' = [pc EXCEPT ![s] = "top"]
          BY <1>2, <2>3 DEF Start
    <3>2. \A t \in Slots : pc[t] = "none"
          BY <2>3 DEF Inv, OneLoop, Active
    <3>3. running' /\ pc'[s] = "top" /\ \A t \in Slots : t # s => pc'[t] = "none"
          BY <1>2, <2>3, <3>1, <3>2 DEF Start, Inv, TypeOK
    <3>4. \A id \in Runs : status[id] # "running"
          BY <3>2 DEF Inv, RunningIffExecuted, Executing, ExecutingPcs
    <3>5. QED
          BY <2>1, <3>3, <3>4, FromSoleLoop DEF ExecutingPcs
  <2>4. QED
        BY <2>2, <2>3
<1>3. CASE Send(c)
  <2>1. /\ controlCh' \in Seq(Signals)
        /\ Len(controlCh') = Len(controlCh) + 1
        BY <1>3 DEF Send, Inv, TypeOK, Signals
  <2>2. Len(controlCh') <= ControlCap
        BY <1>3, <2>1, ControlCapAssumption DEF Send, Inv, TypeOK
  <2>3. TypeOK' /\ MatrixConsistent'
        BY <1>3, <2>1, <2>2 DEF Send, Inv, TypeOK, Requests, MatrixConsistent
  <2>4. QED
        BY <1>3, <2>3, FromStatuses DEF Send
<1>4. CASE ControlPause(c)
  <2>1. TypeOK' /\ MatrixConsistent'
        BY <1>4 DEF ControlPause, Inv, TypeOK, MatrixConsistent
  <2>2. QED
        BY <1>4, <2>1, FromStatuses DEF ControlPause
<1>5. CASE ControlStop(c)
  <2>1. live' \in [Slots -> BOOLEAN]
        BY <1>5 DEF ControlStop, Inv, TypeOK
  <2>2. TypeOK' /\ MatrixConsistent'
        BY <1>5, <2>1 DEF ControlStop, Inv, TypeOK, Requests, MatrixConsistent
  <2>3. QED
        BY <1>5, <2>2, FromStatuses DEF ControlStop
<1>6. CASE ControlRetry(c)
  <2>1. /\ status' \in [Runs -> Statuses]
        /\ \A id \in Runs : IF status[id] \in {"failed", "success"}
                           THEN status'[id] = "queued" ELSE status'[id] = status[id]
        BY <1>6 DEF ControlRetry, ResetQueued, Inv, TypeOK, Statuses
  <2>2. TypeOK'
        BY <1>6, <2>1 DEF ControlRetry, Inv, TypeOK, Requests
  <2>3. \A i \in DOMAIN order : order[i] \in Runs
        BY DEF Inv, TypeOK
  <2>4. MatrixConsistent'
        BY <1>6, <2>1, <2>3 DEF ControlRetry, Inv, MatrixConsistent
  <2>5. /\ \A id \in Runs : status'[id] = "running" <=> status[id] = "running"
        /\ \A id \in Runs : status[id] \in {"queued", "absent"} => status'[id] \in {"queued", "absent"}
        BY <2>1
  <2>6. QED
        BY <1>6, <2>2, <2>4, <2>5, FromStatuses DEF ControlRetry
<1>7. CASE RetryCheck(c)
  <2>1. TypeOK' /\ MatrixConsistent'
        BY <1>7 DEF RetryCheck, Inv, TypeOK, Requests, MatrixConsistent
  <2>2. QED
        BY <1>7, <2>1, FromStatuses DEF RetryCheck
<1>8. QED
      BY <1>1, <1>2, <1>3, <1>4, <1>5, <1>6, <1>7 DEF Control

(* Edits of the matrix.                                                    *)
LEMMA EditInv ==
    ASSUME Inv, Edit
    PROVE  Inv'
<1> USE DEF matrix, control, loops
<1>0. /\ status \in [Runs -> Statuses] /\ order \in Seq(Runs) /\ IsInjective(order)
      /\ \A i \in DOMAIN order : order[i] \in Runs /\ status[order[i]] # "absent"
      BY DEF Inv, TypeOK, MatrixConsistent
<1>1. CASE PutMatrix
  <2>1. order' \in Seq(Runs) /\ IsInjective(order')
        BY <1>1, MatricesAreLists DEF PutMatrix
  <2>2. /\ status' \in [Runs -> Statuses]
        /\ \A i \in DOMAIN order' : status'[order'[i]] # "absent"
        /\ \A id \in Runs : \/ status'[id] = status[id]
                            \/ status[id] = "absent" /\ status'[id] = "queued"
        BY <1>0, <1>1, <2>1, AddStatesListed DEF PutMatrix
  <2>3. TypeOK' /\ MatrixConsistent'
        BY <1>1, <2>1, <2>2 DEF PutMatrix, Inv, TypeOK, MatrixConsistent
  <2>4. QED
        BY <1>1, <2>2, <2>3, FromStatuses DEF PutMatrix
<1>2. CASE \E id \in Runs, after \in Runs \cup {"front"} : MoveRun(id, after)
  <2>1. PICK id \in Runs, after \in Runs \cup {"front"} : MoveRun(id, after)
        BY <1>2
  <2>2. \E i \in DOMAIN order : order[i] = id
        BY <2>1 DEF MoveRun, Listed, Range
  <2>3. /\ order' \in Seq(Runs) /\ IsInjective(order')
        /\ \A j \in DOMAIN order' : \E k \in DOMAIN order : order'[j] = order[k]
        BY <1>0, <2>1, <2>2, MoveAfterElements DEF MoveRun
  <2>4. TypeOK' /\ MatrixConsistent'
        BY <1>0, <2>1, <2>3 DEF MoveRun, Inv, TypeOK, MatrixConsistent
  <2>5. QED
        BY <2>1, <2>4, FromStatuses DEF MoveRun
<1>3. CASE \E id \in Runs : DeleteRun(id)
  <2>1. PICK id \in Runs : DeleteRun(id)
        BY <1>3
  <2>2. /\ order' \in Seq(Runs) /\ IsInjective(order')
        /\ \A j \in DOMAIN order' :
              order'[j] # id /\ \E k \in DOMAIN order : order'[j] = order[k]
        BY <1>0, <2>1, WithoutElements DEF DeleteRun
  <2>3. /\ status' \in [Runs -> Statuses] /\ status[id] # "running"
        /\ status'[id] = "absent" /\ \A x \in Runs : x # id => status'[x] = status[x]
        BY <1>0, <2>1 DEF DeleteRun, Statuses
  <2>4. TypeOK'
        BY <2>1, <2>2, <2>3 DEF DeleteRun, Inv, TypeOK
  <2>5. MatrixConsistent'
        BY <1>0, <2>2, <2>3 DEF MatrixConsistent
  <2>6. QED
        BY <2>1, <2>3, <2>4, <2>5, FromStatuses DEF DeleteRun
<1>4. QED
      BY <1>1, <1>2, <1>3 DEF Edit

(* A step of the loop that leaves the matrix alone and stays on the same   *)
(* side of SetState.                                                       *)
LEMMA FromMove ==
    ASSUME Inv, TypeOK', NEW s \in Slots, pc[s] # "none", NEW to \in LoopPcs, to # "none",
           pc' = [pc EXCEPT ![s] = to], UNCHANGED <<matrix, running>>,
           run' = run \/ to \notin {"spec", "claim"} \cup ExecutingPcs,
           to \in ExecutingPcs <=> pc[s] \in ExecutingPcs,
           to \in {"spec", "claim"} => pc[s] \in {"spec", "claim"}
    PROVE  Inv'
<1>1. MatrixConsistent'
      BY DEF Inv, MatrixConsistent, matrix
<1>2. running' /\ pc'[s] = to /\ \A t \in Slots : t # s => pc'[t] = "none"
      BY SoleLoop DEF Inv, TypeOK
<1>3. \A id \in Runs : status'[id] = "running" <=> to \in ExecutingPcs /\ run'[s] = id
      BY SoleLoop DEF matrix
<1>4. /\ to \in {"spec", "claim"} \cup ExecutingPcs => run'[s] \in Runs
      /\ to \in {"spec", "claim"} => status'[run'[s]] \in {"queued", "absent"}
      BY DEF Inv, ChosenNotEnded, matrix
<1>5. QED
      BY <1>1, <1>2, <1>3, <1>4, FromSoleLoop

(* The loop between two runs.                                              *)
LEMMA BetweenRunsInv ==
    ASSUME Inv, NEW s \in Slots,
           Drain(s) \/ TakeNext(s) \/ PauseCheck(s) \/ Paused(s) \/ Exit(s)
    PROVE  Inv'
<1> USE DEF matrix, control, loops
<1>0. controlCh # <<>> =>
         Tail(controlCh) \in Seq(Signals) /\ Len(Tail(controlCh)) <= ControlCap
      BY ControlCapAssumption DEF Inv, TypeOK
<1>1. CASE Drain(s)
  <2>1. PICK to \in {"next", "exit"} : Goto(s, "top", to)
        BY <1>1 DEF Drain
  <2>2. controlCh' \in Seq(Signals) /\ Len(controlCh') <= ControlCap
        BY <1>0, <1>1 DEF Drain, Inv, TypeOK
  <2>3. TypeOK'
        BY <1>1, <2>1, <2>2 DEF Drain, Goto, Inv, TypeOK, LoopPcs
  <2>4. QED
        BY <1>1, <2>1, <2>3, FromMove DEF Drain, Goto, LoopPcs, ExecutingPcs
<1>2. CASE TakeNext(s)
  <2>1. CASE NoneQueued(order, status) /\ Goto(s, "next", "exit") /\ UNCHANGED run
    <3>1. TypeOK'
          BY <1>2, <2>1 DEF TakeNext, Goto, Inv, TypeOK, LoopPcs
    <3>2. QED
          BY <1>2, <2>1, <3>1, FromMove DEF TakeNext, Goto, LoopPcs, ExecutingPcs
  <2>2. CASE \E id \in Runs : /\ NextQueued(order, status, id)
                              /\ Goto(s, "next", "spec")
                              /\ run' = [run EXCEPT ![s] = id]
    <3>1. PICK id \in Runs : /\ status[id] = "queued"
                             /\ pc[s] = "next" /\ pc' = [pc EXCEPT ![s] = "spec"]
                             /\ run' = [run EXCEPT ![s] = id]
          BY <2>2 DEF NextQueued, Goto
    <3>2. TypeOK' /\ MatrixConsistent'
          BY <1>2, <3>1 DEF TakeNext, Inv, TypeOK, LoopPcs, MatrixConsistent
    <3>3. pc'[s] = "spec" /\ run'[s] = id /\ running'
          BY <1>2, <3>1, SoleLoop DEF TakeNext, Inv, TypeOK
    <3>4. /\ \A t \in Slots : t # s => pc'[t] = "none"
          /\ \A x \in Runs : status'[x] # "running"
          BY <1>2, <3>1, SoleLoop DEF TakeNext, Inv, TypeOK, ExecutingPcs
    <3>5. status'[id] = "queued"
          BY <1>2, <3>1 DEF TakeNext
    <3>6. QED
          BY <3>2, <3>3, <3>4, <3>5, FromSoleLoop DEF ExecutingPcs
  <2>3. QED
        BY <1>2, <2>1, <2>2 DEF TakeNext
<1>3. CASE PauseCheck(s)
  <2>1. PICK to \in {"paused", "top"} : Goto(s, "pause", to)
        BY <1>3 DEF PauseCheck
  <2>2. TypeOK'
        BY <1>3, <2>1 DEF PauseCheck, Goto, Inv, TypeOK, LoopPcs
  <2>3. QED
        BY <1>3, <2>1, <2>2, FromMove DEF PauseCheck, Goto, LoopPcs, ExecutingPcs
<1>4. CASE Paused(s)
  <2>1. PICK to \in {"exit", "top"} : Goto(s, "paused", to)
        BY <1>4 DEF Paused
  <2>2. controlCh' \in Seq(Signals) /\ Len(controlCh') <= ControlCap
        BY <1>0, <1>4 DEF Paused
  <2>3. TypeOK'
        BY <1>4, <2>1, <2>2 DEF Paused, Goto, Inv, TypeOK, LoopPcs
  <2>4. QED
        BY <1>4, <2>1, <2>3, FromMove DEF Paused, Goto, LoopPcs, ExecutingPcs
<1>5. CASE Exit(s)
  <2>1. TypeOK' /\ MatrixConsistent'
        BY <1>5 DEF Exit, Goto, Inv, TypeOK, LoopPcs, MatrixConsistent
  <2>2. \A t \in Slots : pc'[t] = "none"
        BY <1>5, SoleLoop DEF Exit, Goto, Inv, TypeOK
  <2>3. \A id \in Runs : status'[id] # "running"
        BY <1>5, SoleLoop DEF Exit, Goto, ExecutingPcs
  <2>4. OneLoop' /\ RunningIffExecuted' /\ ChosenNotEnded'
        BY <1>5, <2>2, <2>3
        DEF Exit, OneLoop, Active, RunningIffExecuted, Executing, ExecutingPcs, ChosenNotEnded
  <2>5. QED
        BY <2>1, <2>4 DEF Inv
<1>6. QED
      BY <1>1, <1>2, <1>3, <1>4, <1>5

(* executeRun.                                                             *)
LEMMA ExecuteRunInv ==
    ASSUME Inv, NEW s \in Slots,
           \/ GetSpec(s) \/ Claim(s) \/ Arm(s) \/ ResetCluster(s) \/ DeployController(s)
           \/ RunLoadgen(s) \/ TeardownController(s) \/ Finish(s)
    PROVE  Inv'
<1> USE DEF matrix, control, loops
<1>0. pc[s] \in {"spec", "claim"} \cup ExecutingPcs => run[s] \in Runs
      BY DEF Inv, ChosenNotEnded
<1>1. CASE GetSpec(s)
  <2>1. PICK to \in {"claim", "pause"} : Goto(s, "spec", to)
        BY <1>1 DEF GetSpec
  <2>2. TypeOK'
        BY <1>1, <2>1 DEF GetSpec, Goto, Inv, TypeOK, LoopPcs
  <2>3. QED
        BY <1>1, <2>1, <2>2, FromMove DEF GetSpec, Goto, LoopPcs, ExecutingPcs
<1>2. CASE Claim(s)
  <2>1. pc[s] = "claim" /\ run[s] \in Runs
        BY <1>0, <1>2 DEF Claim, Goto
  <2>2. /\ status' \in [Runs -> Statuses] /\ status'[run[s]] = "running"
        /\ \A id \in Runs : id # run[s] => status'[id] = status[id]
        BY <1>2, <2>1 DEF Claim, Inv, TypeOK, Statuses
  <2>3. TypeOK'
        BY <1>2, <2>2 DEF Claim, Goto, Inv, TypeOK, LoopPcs, ExecutingPcs
  <2>4. \A i \in DOMAIN order : order[i] \in Runs
        BY DEF Inv, TypeOK
  <2>5. MatrixConsistent'
        BY <1>2, <2>2, <2>4 DEF Claim, Inv, MatrixConsistent
  <2>6. pc'[s] = "arm" /\ run'[s] = run[s] /\ running'
        BY <1>2, <2>1, SoleLoop DEF Claim, Goto, Inv, TypeOK
  <2>7. /\ \A t \in Slots : t # s => pc'[t] = "none"
        /\ \A id \in Runs : status[id] # "running"
        BY <1>2, <2>1, SoleLoop DEF Claim, Goto, Inv, TypeOK, ExecutingPcs
  <2>8. \A id \in Runs : status'[id] = "running" <=> run'[s] = id
        BY <2>2, <2>6, <2>7
  <2>9. QED
        BY <2>1, <2>3, <2>5, <2>6, <2>7, <2>8, FromSoleLoop DEF ExecutingPcs
<1>3. CASE Arm(s)
  <2>1. TypeOK'
        BY <1>3 DEF Arm, Goto, Inv, TypeOK, LoopPcs, ExecutingPcs
  <2>2. QED
        BY <1>3, <2>1, FromMove DEF Arm, Goto, LoopPcs, ExecutingPcs
<1>4. CASE ResetCluster(s)
  <2>1. PICK to \in {"deploy", "finish"} : Goto(s, "reset", to)
        BY <1>4 DEF ResetCluster
  <2>2. failed' \in [Slots -> BOOLEAN]
        BY <1>4 DEF ResetCluster, Inv, TypeOK
  <2>3. TypeOK'
        BY <1>4, <2>1, <2>2 DEF ResetCluster, Goto, Inv, TypeOK, LoopPcs, ExecutingPcs
  <2>4. QED
        BY <1>4, <2>1, <2>3, FromMove DEF ResetCluster, Goto, LoopPcs, ExecutingPcs
<1>5. CASE DeployController(s)
  <2>1. PICK to \in {"load", "finish"} : Goto(s, "deploy", to)
        BY <1>5 DEF DeployController
  <2>2. failed' \in [Slots -> BOOLEAN]
        BY <1>5 DEF DeployController, Inv, TypeOK
  <2>3. deployed' \in SUBSET Runs
        BY <1>0, <1>5, <2>1 DEF DeployController, Goto, Inv, TypeOK, ExecutingPcs
  <2>4. TypeOK'
        BY <1>5, <2>1, <2>2, <2>3 DEF DeployController, Goto, Inv, TypeOK, LoopPcs, ExecutingPcs
  <2>5. QED
        BY <1>5, <2>1, <2>4, FromMove DEF DeployController, Goto, LoopPcs, ExecutingPcs
<1>6. CASE RunLoadgen(s)
  <2>1. failed' \in [Slots -> BOOLEAN]
        BY <1>6 DEF RunLoadgen, Inv, TypeOK
  <2>2. TypeOK'
        BY <1>6, <2>1 DEF RunLoadgen, Goto, Inv, TypeOK, LoopPcs, ExecutingPcs
  <2>3. QED
        BY <1>6, <2>2, FromMove DEF RunLoadgen, Goto, LoopPcs, ExecutingPcs
<1>7. CASE TeardownController(s)
  <2>1. deployed' \in SUBSET Runs
        BY <1>7 DEF TeardownController, Inv, TypeOK
  <2>2. TypeOK'
        BY <1>7, <2>1 DEF TeardownController, Goto, Inv, TypeOK, LoopPcs, ExecutingPcs
  <2>3. QED
        BY <1>7, <2>2, FromMove DEF TeardownController, Goto, LoopPcs, ExecutingPcs
<1>8. CASE Finish(s)
  <2>1. pc[s] = "finish" /\ run[s] \in Runs
        BY <1>0, <1>8 DEF Finish, Goto, ExecutingPcs
  <2>2. /\ status' \in [Runs -> Statuses] /\ status'[run[s]] \in {"failed", "success"}
        /\ \A id \in Runs : id # run[s] => status'[id] = status[id]
        BY <1>8, <2>1 DEF Finish, Inv, TypeOK, Statuses
  <2>3. live' \in [Slots -> BOOLEAN] /\ cancelRun' \in Slots \cup {NoSlot}
        BY <1>8 DEF Finish, Inv, TypeOK
  <2>4. TypeOK'
        BY <1>8, <2>2, <2>3 DEF Finish, Goto, Inv, TypeOK, LoopPcs
  <2>5. \A i \in DOMAIN order : order[i] \in Runs
        BY DEF Inv, TypeOK
  <2>6. MatrixConsistent'
        BY <1>8, <2>2, <2>5 DEF Finish, Inv, MatrixConsistent
  <2>7. pc'[s] = "pause" /\ running'
        BY <1>8, <2>1, SoleLoop DEF Finish, Goto, Inv, TypeOK
  <2>8. /\ \A t \in Slots : t # s => pc'[t] = "none"
        /\ \A id \in Runs : status[id] = "running" <=> run[s] = id
        BY <1>8, <2>1, SoleLoop DEF Finish, Goto, Inv, TypeOK, ExecutingPcs
  <2>9. \A id \in Runs : status'[id] # "running"
        BY <2>2, <2>8
  <2>10. QED
        BY <2>4, <2>6, <2>7, <2>8, <2>9, FromSoleLoop DEF ExecutingPcs
<1>9. QED
      BY <1>1, <1>2, <1>3, <1>4, <1>5, <1>6, <1>7, <1>8

(* Every step keeps the invariant.                                         *)
LEMMA NextInv == Inv /\ [Next]_vars => Inv'
<1> SUFFICES ASSUME Inv, [Next]_vars PROVE Inv'
    OBVIOUS
<1>1. ASSUME NEW c \in Clients, Control(c) PROVE Inv'
      BY <1>1, ControlInv
<1>2. CASE Edit
      BY <1>2, EditInv
<1>3. ASSUME NEW s \in Slots, LoopStep(s) PROVE Inv'
      BY <1>3, BetweenRunsInv, ExecuteRunInv DEF LoopStep
<1>4. CASE UNCHANGED vars
      BY <1>4 DEF vars, matrix, control, loops, Inv, TypeOK, OneLoop, Active,
                  RunningIffExecuted, Executing, MatrixConsistent, ChosenNotEnded
<1>5. QED
      BY <1>1, <1>2, <1>3, <1>4 DEF Next

(* The invariant of the orchestrator holds in every reachable state.       *)
THEOREM Invariance == Spec => []Inv
<1>1. Init => Inv
      BY InitInv
<1>2. Inv /\ [Next]_vars => Inv'
      BY NextInv
<1>3. QED
      BY <1>1, <1>2, PTL DEF Spec

(* Type correctness; in particular the control channel never holds more    *)
(* signals than its capacity.                                              *)
THEOREM OrchestratorTypeCorrect == Spec => []TypeOK
<1>1. Inv => TypeOK
      BY DEF Inv
<1>2. QED
      BY <1>1, Invariance, PTL

(* However many requests start the loop at once, there is one at most, and *)
(* `running' tells whether there is one.                                   *)
THEOREM AtMostOneLoop == Spec => []OneLoop
<1>1. Inv => OneLoop
      BY DEF Inv
<1>2. QED
      BY <1>1, Invariance, PTL

(* A run's status is "running" exactly while the loop executes it.         *)
THEOREM StatusTellsExecution == Spec => []RunningIffExecuted
<1>1. Inv => RunningIffExecuted
      BY DEF Inv
<1>2. QED
      BY <1>1, Invariance, PTL

(* No sequence of edits, retries and executions lists a run twice or lists *)
(* one that has no state.                                                  *)
THEOREM MatrixStaysConsistent == Spec => []MatrixConsistent
<1>1. Inv => MatrixConsistent
      BY DEF Inv
<1>2. QED
      BY <1>1, Invariance, PTL

(* No run that ended is executed again before somebody queues it again.    *)
THEOREM EndedRunsStayEnded == Spec => OnlyQueuedStarts
<1> DEFINE Starts == \A id \in Runs : status'[id] = "running" /\ status[id] # "running"
                                     => status[id] \in {"queued", "absent"}
<1>1. ASSUME Inv, [Next]_vars PROVE Starts
  <2> USE DEF matrix, control, loops
  <2> SUFFICES ASSUME NEW id \in Runs, status'[id] = "running", status[id] # "running"
               PROVE  status[id] \in {"queued", "absent"}
      OBVIOUS
  <2>1. ASSUME NEW s \in Slots, Claim(s) PROVE status[id] \in {"queued", "absent"}
    <3>1. pc[s] = "claim" /\ status' = [status EXCEPT ![run[s]] = "running"]
          BY <2>1 DEF Claim, Goto
    <3>2. run[s] \in Runs /\ status[run[s]] \in {"queued", "absent"}
          BY <1>1, <3>1 DEF Inv, ChosenNotEnded
    <3>3. id = run[s]
          BY <1>1, <3>1, <3>2 DEF Inv, TypeOK
    <3>4. QED
          BY <3>2, <3>3
  <2>2. ASSUME NEW s \in Slots, LoopStep(s), ~Claim(s) PROVE FALSE
    <3>1. CASE Finish(s)
      <4>1. run[s] \in Runs /\ status[run[s]] = "running"
            BY <1>1, <3>1, SoleLoop DEF Finish, Goto, Inv, ChosenNotEnded, ExecutingPcs
      <4>2. QED
            BY <1>1, <3>1, <4>1 DEF Finish, Inv, TypeOK
    <3>2. CASE UNCHANGED status
          BY <3>2
    <3>3. QED
          BY <2>2, <3>1, <3>2
          DEF LoopStep, Drain, TakeNext, PauseCheck, Paused, Exit, GetSpec, Arm, ResetCluster,
              DeployController, RunLoadgen, TeardownController
  <2>3. ASSUME NEW c \in Clients, Control(c) PROVE FALSE
    <3>1. CASE ControlRetry(c)
          BY <3>1 DEF ControlRetry, ResetQueued
    <3>2. CASE UNCHANGED status
          BY <3>2
    <3>3. QED
          BY <2>3, <3>1, <3>2
          DEF Control, ControlStart, Start, Send, ControlPause, ControlStop, RetryCheck
  <2>4. CASE Edit
    <3>1. CASE PutMatrix
          BY <3>1 DEF PutMatrix, AddStates
    <3>2. CASE \E x \in Runs : DeleteRun(x)
          BY <1>1, <3>2 DEF DeleteRun, Inv, TypeOK
    <3>3. CASE UNCHANGED status
          BY <3>3
    <3>4. QED
          BY <2>4, <3>1, <3>2, <3>3 DEF Edit, MoveRun
  <2>5. CASE UNCHANGED vars
        BY <2>5 DEF vars
  <2>6. QED
        BY <1>1, <2>1, <2>2, <2>3, <2>4, <2>5 DEF Next
<1>2. Inv /\ [Next]_vars => [Starts]_vars
      BY <1>1
<1>3. QED
      BY <1>2, Invariance, PTL DEF Spec, OnlyQueuedStarts

(***************************************************************************)
(* The orchestrator implements RunQueue.                                   *)
(***************************************************************************)

(* Current names the run of the one loop that executes.                    *)
LEMMA CurrentIs ==
    ASSUME Inv
    PROVE  /\ \A s \in Slots : Executing(s) => Current = run[s] /\ run[s] \in Runs
           /\ (\A s \in Slots : ~Executing(s)) => Current = NoRun
<1>1. \A s, t \in Slots : Executing(s) /\ Executing(t) => s = t
      BY DEF Inv, OneLoop, Active, Executing, ExecutingPcs
<1>2. ASSUME NEW s \in Slots, Executing(s) PROVE Current = run[s] /\ run[s] \in Runs
  <2>1. (CHOOSE t \in Slots : Executing(t)) = s
        BY <1>1, <1>2
  <2>2. run[s] \in Runs
        BY <1>2 DEF Inv, ChosenNotEnded, Executing
  <2>3. QED
        BY <1>2, <2>1, <2>2 DEF Current
<1>3. QED
      BY <1>2 DEF Current

(* The same of the state after a step.                                     *)
LEMMA NextCurrentIs ==
    ASSUME Inv'
    PROVE  /\ \A s \in Slots : Executing(s)' => Current' = run'[s]
           /\ (\A s \in Slots : ~Executing(s)') => Current' = NoRun
<1>1. \A s, t \in Slots : Executing(s)' /\ Executing(t)' => s = t
      BY DEF Inv, OneLoop, Active, Executing, ExecutingPcs
<1>2. ASSUME NEW s \in Slots, Executing(s)' PROVE Current' = run'[s]
  <2>1. (CHOOSE t \in Slots : Executing(t)') = s
        BY <1>1, <1>2
  <2>2. QED
        BY <1>2, <2>1 DEF Current
<1>3. QED
      BY <1>2 DEF Current

(* A step that neither begins nor ends a run leaves Current as it is.      *)
LEMMA CurrentKept ==
    ASSUME Inv, Inv',
           \A s \in Slots : Executing(s)' <=> Executing(s),
           \A s \in Slots : Executing(s) => run'[s] = run[s]
    PROVE  Current' = Current
<1>1. CASE \E s \in Slots : Executing(s)
      BY <1>1, CurrentIs, NextCurrentIs
<1>2. CASE \A s \in Slots : ~Executing(s)
      BY <1>2, CurrentIs, NextCurrentIs
<1>3. QED
      BY <1>1, <1>2

(* A step of one loop that stays inside, or outside, executeRun.           *)
LEMMA CurrentKeptByMove ==
    ASSUME Inv, Inv', NEW s \in Slots, NEW from, NEW to, Goto(s, from, to),
           from \in ExecutingPcs <=> to \in ExecutingPcs,
           \A t \in Slots : Executing(t) => run'[t] = run[t]
    PROVE  Current' = Current
<1>1. \A t \in Slots : pc'[t] = IF t = s THEN to ELSE pc[t]
      BY DEF Goto, Inv, TypeOK
<1>2. \A t \in Slots : Executing(t)' <=> Executing(t)
      BY <1>1 DEF Executing, Goto
<1>3. QED
      BY <1>2, CurrentKept

(* The first state of the orchestrator is one of the queue.                *)
LEMMA InitQueue == Init => Queue!QueueInit
<1> SUFFICES ASSUME Init PROVE Queue!QueueInit
    OBVIOUS
<1>1. Inv
      BY InitInv
<1>2. status \in [Runs -> {"absent", "queued"}]
      BY DEF Init, AddStates
<1>3. \A s \in Slots : ~Executing(s)
      BY DEF Init, Executing, ExecutingPcs
<1>4. QED
      BY <1>1, <1>2, <1>3, CurrentIs DEF Queue!QueueInit

(* Control requests: a retry queues what has ended, the others leave the   *)
(* queue alone.                                                            *)
LEMMA ControlQueue ==
    ASSUME Inv, Inv', NEW c \in Clients, Control(c)
    PROVE  Queue!QueueNext \/ UNCHANGED Queue!queue
<1> USE DEF matrix, control, loops
<1>1. CASE Start(c)
  <2>1. \A s \in Slots : Executing(s)' <=> Executing(s)
        BY <1>1 DEF Start, Executing, ExecutingPcs, Inv, TypeOK
  <2>2. Current' = Current
        BY <1>1, <2>1, CurrentKept DEF Start
  <2>3. QED
        BY <1>1, <2>2 DEF Start, Queue!queue
<1>2. CASE pc' = pc /\ run' = run
  <2>1. Current' = Current
        BY <1>2, CurrentKept DEF Executing
  <2>2. CASE ControlRetry(c)
    <3>1. Queue!Requeue
          BY <2>1, <2>2 DEF ControlRetry, ResetQueued, Queue!Requeue
    <3>2. QED
          BY <3>1 DEF Queue!QueueNext
  <2>3. CASE UNCHANGED status
        BY <2>1, <2>3 DEF Queue!queue
  <2>4. QED
        BY <1>2, <2>2, <2>3, <1>1
        DEF Control, ControlStart, Send, ControlPause, ControlStop, RetryCheck
<1>3. QED
      BY <1>1, <1>2 DEF Control, ControlStart, Send, ControlPause, ControlStop, ControlRetry, RetryCheck

(* Edits of the matrix: new runs are added, a run that does not execute is *)
(* removed, a move changes no status.                                      *)
LEMMA EditQueue ==
    ASSUME Inv, Inv', Edit
    PROVE  Queue!QueueNext \/ UNCHANGED Queue!queue
<1> USE DEF matrix, control, loops
<1>1. pc' = pc /\ run' = run
      BY DEF Edit, PutMatrix, MoveRun, DeleteRun
<1>2. Current' = Current
      BY <1>1, CurrentKept DEF Executing
<1>3. CASE PutMatrix
  <2> DEFINE new == {id \in Runs : id \in Listed(order') /\ status[id] = "absent"}
  <2>1. Queue!Add(new)
        BY <1>2, <1>3 DEF PutMatrix, AddStates, Queue!Add
  <2>2. QED
        BY <2>1 DEF Queue!QueueNext
<1>4. ASSUME NEW id \in Runs, DeleteRun(id) PROVE Queue!QueueNext
  <2>1. id # Current
    <3>1. CASE \E s \in Slots : Executing(s)
      <4>1. PICK s \in Slots : Executing(s)
            BY <3>1
      <4>2. Current = run[s] /\ run[s] \in Runs
            BY <4>1, CurrentIs
      <4>3. status[run[s]] = "running"
            BY <4>1, <4>2 DEF Inv, RunningIffExecuted
      <4>4. QED
            BY <1>4, <4>2, <4>3 DEF DeleteRun
    <3>2. CASE \A s \in Slots : ~Executing(s)
          BY <3>2, CurrentIs, NoRunAssumption
    <3>3. QED
          BY <3>1, <3>2
  <2>2. Queue!Remove(id)
        BY <1>2, <1>4, <2>1 DEF DeleteRun, Queue!Remove
  <2>3. QED
        BY <2>2 DEF Queue!QueueNext
<1>5. CASE UNCHANGED status
      BY <1>2, <1>5 DEF Queue!queue
<1>6. QED
      BY <1>3, <1>4, <1>5 DEF Edit, MoveRun

(* The loop: the claim of a run begins it, its final status ends it.       *)
LEMMA LoopQueue ==
    ASSUME Inv, Inv', NEW s \in Slots, LoopStep(s)
    PROVE  Queue!QueueNext \/ UNCHANGED Queue!queue
<1> USE DEF matrix, control, loops
<1>1. CASE Claim(s)
  <2>1. pc[s] = "claim" /\ run[s] \in Runs /\ status[run[s]] \in {"queued", "absent"}
        BY <1>1 DEF Claim, Goto, Inv, ChosenNotEnded
  <2>2. \A t \in Slots : ~Executing(t)
        BY <2>1, SoleLoop DEF Executing, ExecutingPcs
  <2>3. Executing(s)' /\ run'[s] = run[s]
        BY <1>1 DEF Claim, Goto, Executing, ExecutingPcs, Inv, TypeOK
  <2>4. Current = NoRun /\ Current' = run[s]
        BY <2>2, <2>3, CurrentIs, NextCurrentIs
  <2>5. Queue!Begin(run[s])
        BY <1>1, <2>1, <2>4 DEF Claim, Queue!Begin
  <2>6. QED
        BY <2>1, <2>5 DEF Queue!QueueNext
<1>2. CASE Finish(s)
  <2>1. pc[s] = "finish" /\ Executing(s)
        BY <1>2 DEF Finish, Goto, Executing, ExecutingPcs
  <2>2. Current = run[s] /\ run[s] \in Runs
        BY <2>1, CurrentIs
  <2>3. \A t \in Slots : ~Executing(t)'
        BY <1>2, <2>1, SoleLoop DEF Finish, Goto, Executing, ExecutingPcs, Inv, TypeOK
  <2>4. Current' = NoRun
        BY <2>3, NextCurrentIs
  <2> DEFINE outcome == IF failed[s] THEN "failed" ELSE "success"
  <2>5. Queue!End(outcome)
        BY <1>2, <2>2, <2>4, NoRunAssumption DEF Finish, Queue!End
  <2>6. outcome \in {"success", "failed"}
        OBVIOUS
  <2>7. QED
        BY <2>5, <2>6 DEF Queue!QueueNext
<1>3. CASE TakeNext(s)
  <2>1. pc[s] = "next" /\ \A t \in Slots : Executing(t) => run'[t] = run[t]
        BY <1>3 DEF TakeNext, Goto, Executing, ExecutingPcs, Inv, TypeOK
  <2>2. \E to \in {"exit", "spec"} : Goto(s, "next", to)
        BY <1>3 DEF TakeNext
  <2>3. Current' = Current
        BY <2>1, <2>2, CurrentKeptByMove DEF ExecutingPcs
  <2>4. QED
        BY <1>3, <2>3 DEF TakeNext, Queue!queue
<1>4. CASE PauseCheck(s)
  <2>1. \A t \in Slots : Executing(t) => run'[t] = run[t]
        BY <1>4 DEF PauseCheck, Goto, Executing, ExecutingPcs, Inv, TypeOK
  <2>2. \E to \in {"paused", "top"} : Goto(s, "pause", to)
        BY <1>4 DEF PauseCheck
  <2>3. Current' = Current
        BY <2>1, <2>2, CurrentKeptByMove DEF ExecutingPcs
  <2>4. QED
        BY <1>4, <2>3 DEF PauseCheck, Queue!queue
<1>5. CASE Drain(s) \/ Paused(s) \/ Exit(s) \/ GetSpec(s)
  <2>1. \E from \in {"top", "paused", "exit", "spec"}, to \in {"next", "exit", "top", "none", "claim", "pause"} :
            Goto(s, from, to)
        BY <1>5 DEF Drain, Paused, Exit, GetSpec
  <2>2. run' = run /\ status' = status
        BY <1>5 DEF Drain, Paused, Exit, GetSpec
  <2>3. Current' = Current
        BY <2>1, <2>2, CurrentKeptByMove DEF ExecutingPcs
  <2>4. QED
        BY <2>2, <2>3 DEF Queue!queue
<1>6. CASE Arm(s) \/ ResetCluster(s) \/ DeployController(s) \/ RunLoadgen(s) \/ TeardownController(s)
  <2>1. \E from, to \in ExecutingPcs : Goto(s, from, to)
        BY <1>6 DEF Arm, ResetCluster, DeployController, RunLoadgen, TeardownController, ExecutingPcs
  <2>2. run' = run /\ status' = status
        BY <1>6 DEF Arm, ResetCluster, DeployController, RunLoadgen, TeardownController
  <2>3. Current' = Current
        BY <2>1, <2>2, CurrentKeptByMove
  <2>4. QED
        BY <2>2, <2>3 DEF Queue!queue
<1>7. QED
      BY <1>1, <1>2, <1>3, <1>4, <1>5, <1>6 DEF LoopStep

(* The orchestrator implements RunQueue: one run at a time, marked running *)
(* from its beginning to its end, whatever requests interleave with it.    *)
THEOREM ImplementsQueue == Spec => KeepsQueue
<1>1. Init => Queue!QueueInit
      BY InitQueue
<1>2. Inv /\ Inv' /\ [Next]_vars => [Queue!QueueNext]_Queue!queue
  <2> SUFFICES ASSUME Inv, Inv', [Next]_vars
               PROVE  Queue!QueueNext \/ UNCHANGED Queue!queue
      OBVIOUS
  <2>1. CASE UNCHANGED vars
    <3>1. pc' = pc /\ run' = run /\ status' = status
          BY <2>1 DEF vars, matrix, loops
    <3>2. Current' = Current
          BY <3>1, CurrentKept DEF Executing
    <3>3. QED
          BY <3>1, <3>2 DEF Queue!queue
  <2>2. QED
        BY <2>1, ControlQueue, EditQueue, LoopQueue DEF Next
<1>3. QED
      BY <1>1, <1>2, Invariance, PTL DEF Spec, KeepsQueue, Queue!QueueSpec

(***************************************************************************)
(* The event bus.                                                          *)
(***************************************************************************)

(* What the last status in a channel tells, when a note or a status comes  *)
(* to its end and when the first event is read.                            *)
LEMMA TellsNote ==
    ASSUME NEW ch \in Seq(Events), NEW sh, NEW st, Tells(ch, sh, st)
    PROVE  Tells(Append(ch, "note"), sh, st)
<1>1. /\ Len(ch) \in Nat /\ DOMAIN ch = 1..Len(ch)
      /\ DOMAIN Append(ch, "note") = 1..(Len(ch) + 1)
      /\ Append(ch, "note")[Len(ch) + 1] = "note"
      /\ \A i \in 1..Len(ch) : Append(ch, "note")[i] = ch[i]
      OBVIOUS
<1>2. QED
      BY <1>1 DEF Tells

LEMMA TellsStatus ==
    ASSUME NEW ch \in Seq(Events), NEW sh, NEW st \in PublishedStatuses
    PROVE  Tells(Append(ch, st), sh, st)
<1>1. /\ Len(ch) \in Nat
      /\ DOMAIN Append(ch, st) = 1..(Len(ch) + 1)
      /\ Append(ch, st)[Len(ch) + 1] = st
      OBVIOUS
<1>2. st # "note"
      BY DEF PublishedStatuses
<1>3. ASSUME NEW i \in 1..(Len(ch) + 1), i # Len(ch) + 1
      PROVE  Len(ch) + 1 > i
      BY <1>1, <1>3
<1>4. QED
      BY <1>1, <1>2, <1>3 DEF Tells

LEMMA TellsTail ==
    ASSUME NEW ch \in Seq(Events), ch # <<>>, NEW sh, NEW st, Tells(ch, sh, st)
    PROVE  Tells(Tail(ch), IF Head(ch) = "note" THEN sh ELSE Head(ch), st)
<1>1. /\ Len(ch) \in Nat \ {0} /\ DOMAIN ch = 1..Len(ch) /\ Head(ch) = ch[1]
      /\ DOMAIN Tail(ch) = 1..(Len(ch) - 1)
      /\ \A i \in 1..(Len(ch) - 1) : Tail(ch)[i] = ch[i + 1]
      OBVIOUS
<1>2. ASSUME NEW i \in 1..(Len(ch) - 1), Tail(ch)[i] # "note",
             \A j \in 1..(Len(ch) - 1) : j > i => Tail(ch)[j] = "note"
      PROVE  Tail(ch)[i] = st
  <2>1. i + 1 \in 1..Len(ch) /\ ch[i + 1] # "note"
        BY <1>1, <1>2
  <2>2. ASSUME NEW j \in 1..Len(ch), j > i + 1 PROVE ch[j] = "note"
    <3>1. j - 1 \in 1..(Len(ch) - 1) /\ j - 1 > i /\ (j - 1) + 1 = j
          BY <1>1, <2>2
    <3>2. QED
          BY <3>1, <1>1, <1>2
  <2>3. QED
        BY <2>1, <2>2, <1>1 DEF Tells
<1>3. ASSUME \A i \in 1..(Len(ch) - 1) : Tail(ch)[i] = "note"
      PROVE  (IF Head(ch) = "note" THEN sh ELSE Head(ch)) \in {"nothing", st}
  <2>1. ASSUME NEW j \in 1..Len(ch), j > 1 PROVE ch[j] = "note"
    <3>1. j - 1 \in 1..(Len(ch) - 1) /\ (j - 1) + 1 = j
          BY <1>1, <2>1
    <3>2. QED
          BY <3>1, <1>1, <1>3
  <2>2. 1 \in 1..Len(ch) /\ \A j \in 1..Len(ch) : j = 1 \/ j > 1
        BY <1>1
  <2>3. QED
        BY <2>1, <2>2, <1>1 DEF Tells
<1>4. QED
      BY <1>1, <1>2, <1>3 DEF Tells

(* A request to /api/control or to the matrix moves no loop that is there, *)
(* and gives no run a status that is published.                            *)
LEMMA RequestEffect ==
    ASSUME Inv, Request
    PROVE  /\ run' = run
           /\ \A s \in Slots : pc[s] # "none" => pc'[s] # "none"
           /\ \A id \in Runs : status'[id] \in PublishedStatuses => status'[id] = status[id]
<1> USE DEF matrix, control, loops, PublishedStatuses
<1>1. ASSUME NEW c \in Clients, Control(c)
      PROVE  /\ run' = run
             /\ \A s \in Slots : pc[s] # "none" => pc'[s] # "none"
             /\ \A id \in Runs : status'[id] \in PublishedStatuses => status'[id] = status[id]
  <2>1. CASE ControlRetry(c)
        BY <2>1 DEF ControlRetry, ResetQueued
  <2>2. CASE Start(c)
        BY <2>2 DEF Start, Inv, TypeOK
  <2>3. CASE UNCHANGED <<run, pc, status>>
        BY <2>3
  <2>4. QED
        BY <1>1, <2>1, <2>2, <2>3
        DEF Control, ControlStart, Send, ControlPause, ControlStop, RetryCheck
<1>2. ASSUME Edit
      PROVE  /\ run' = run /\ pc' = pc
             /\ \A id \in Runs : status'[id] \in PublishedStatuses => status'[id] = status[id]
  <2>1. CASE PutMatrix
        BY <2>1 DEF PutMatrix, AddStates
  <2>2. CASE \E x \in Runs : DeleteRun(x)
        BY <2>2 DEF DeleteRun, Inv, TypeOK
  <2>3. CASE UNCHANGED <<run, pc, status>>
        BY <2>3
  <2>4. QED
        BY <1>2, <2>1, <2>2, <2>3 DEF Edit, MoveRun
<1>3. QED
      BY <1>1, <1>2 DEF Request

(* A loop that has nothing to publish takes a step: it changes no status   *)
(* and has notes to publish at most, or it sets the status of its run and  *)
(* publishes that.                                                         *)
LEMMA LoopEffect ==
    ASSUME EventsInv, NEW s \in Slots, Loop(s)
    PROVE  /\ LoopStep(s) /\ pc[s] # "none"
           /\ outbox[s] = <<>> /\ outbox' \in [Slots -> Seq(Events)]
           /\ \A t \in Slots \ {s} : /\ run'[t] = run[t] /\ outbox'[t] = outbox[t]
                                     /\ pc'[t] = pc[t]
           /\ outbox'[s] # <<>> => pc'[s] # "none"
           /\ UNCHANGED <<sending, streams>>
           /\ \/ status' = status /\ \A i \in DOMAIN outbox'[s] : outbox'[s][i] = "note"
              \/ \E st \in PublishedStatuses :
                    /\ run[s] \in Runs /\ run' = run
                    /\ status' = [status EXCEPT ![run[s]] = st]
                    /\ outbox'[s] = <<st>>
<1> USE DEF matrix, control, loops
<1>1. /\ Inv /\ outbox[s] = <<>> /\ outbox \in [Slots -> Seq(Events)]
      /\ pc \in [Slots -> LoopPcs] /\ run \in [Slots -> Runs \cup {NoRun}]
      /\ UNCHANGED <<sending, streams>>
      BY DEF EventsInv, EventsTypeOK, Loop, TypeOK
<1>2. ASSUME NEW events \in Seq(Events), Emit(s, events)
      PROVE  /\ outbox' \in [Slots -> Seq(Events)] /\ outbox'[s] = events
             /\ \A t \in Slots \ {s} : outbox'[t] = outbox[t]
      BY <1>1, <1>2 DEF Emit
<1>3. CASE BetweenRuns(s)
  <2>1. /\ LoopStep(s) /\ outbox' = outbox
        BY <1>3 DEF BetweenRuns, LoopStep
  <2>2. /\ pc[s] # "none" /\ status' = status
        /\ \A t \in Slots \ {s} : run'[t] = run[t] /\ pc'[t] = pc[t]
        BY <1>1, <1>3 DEF BetweenRuns, Drain, TakeNext, PauseCheck, Paused, Exit, GetSpec, Goto
  <2>3. \A i \in DOMAIN outbox'[s] : outbox'[s][i] = "note"
        BY <1>1, <2>1
  <2>4. QED
        BY <1>1, <2>1, <2>2, <2>3
<1>4. CASE ClaimPublishes(s)
  <2>1. /\ LoopStep(s) /\ pc[s] = "claim" /\ pc' = [pc EXCEPT ![s] = "arm"]
        /\ run' = run /\ status' = [status EXCEPT ![run[s]] = "running"]
        /\ Emit(s, <<"running">>)
        BY <1>4 DEF ClaimPublishes, Claim, Goto, LoopStep
  <2>2. run[s] \in Runs
        BY <1>1, <2>1 DEF Inv, ChosenNotEnded
  <2>3. "running" \in PublishedStatuses /\ <<"running">> \in Seq(Events)
        BY DEF PublishedStatuses, Events
  <2>4. /\ outbox' \in [Slots -> Seq(Events)] /\ outbox'[s] = <<"running">>
        /\ \A t \in Slots \ {s} : outbox'[t] = outbox[t]
        BY <1>2, <2>1, <2>3
  <2>5. QED
        BY <1>1, <2>1, <2>2, <2>3, <2>4
<1>5. CASE FinishPublishes(s)
  <2> DEFINE st == IF failed[s] THEN "failed" ELSE "success"
  <2>1. /\ LoopStep(s) /\ pc[s] = "finish" /\ pc' = [pc EXCEPT ![s] = "pause"]
        /\ run' = run /\ status' = [status EXCEPT ![run[s]] = st]
        /\ Emit(s, <<st>>)
        BY <1>5 DEF FinishPublishes, Finish, Goto, LoopStep
  <2>2. run[s] \in Runs
        BY <1>1, <2>1 DEF Inv, ChosenNotEnded, ExecutingPcs
  <2>3. st \in PublishedStatuses /\ <<st>> \in Seq(Events)
        BY DEF PublishedStatuses, Events
  <2> HIDE DEF st
  <2>4. /\ outbox' \in [Slots -> Seq(Events)] /\ outbox'[s] = <<st>>
        /\ \A t \in Slots \ {s} : outbox'[t] = outbox[t]
        BY <1>2, <2>1, <2>3
  <2>5. QED
        BY <1>1, <2>1, <2>2, <2>3, <2>4
<1>6. CASE ArmPublishes(s) \/ StepOfRun(s)
  <2>1. PICK events \in Seq({"note"}) : Emit(s, events)
    <3>1. CASE ArmPublishes(s)
      <4>1. <<"note">> \in Seq({"note"})
            OBVIOUS
      <4>2. QED
            BY <3>1, <4>1 DEF ArmPublishes
    <3>2. CASE StepOfRun(s)
      <4>1. PICK n \in 1..(1 + MaxNotes) : \E notes \in [1..n -> {"note"}] : Emit(s, notes)
            BY <3>2 DEF StepOfRun, Notes
      <4>2. PICK notes \in [1..n -> {"note"}] : Emit(s, notes)
            BY <4>1
      <4>3. n \in Nat
            BY MaxNotesAssumption
      <4>4. notes \in Seq({"note"})
            BY <4>3
      <4>5. QED
            BY <4>2, <4>4
    <3>3. QED
          BY <1>6, <3>1, <3>2
  <2>2. PICK to \in {"reset", "deploy", "load", "teardown", "finish"} :
           pc[s] # "none" /\ pc' = [pc EXCEPT ![s] = to]
        BY <1>6 DEF ArmPublishes, StepOfRun, Arm, ResetCluster, DeployController, RunLoadgen,
                    TeardownController, Goto
  <2>3. run' = run /\ status' = status /\ LoopStep(s)
        BY <1>6 DEF ArmPublishes, StepOfRun, Arm, ResetCluster, DeployController, RunLoadgen,
                    TeardownController, LoopStep
  <2>4. events \in Seq(Events) /\ \A i \in DOMAIN events : events[i] = "note"
        BY DEF Events
  <2>5. /\ outbox' \in [Slots -> Seq(Events)] /\ outbox'[s] = events
        /\ \A t \in Slots \ {s} : outbox'[t] = outbox[t]
        BY <1>2, <2>1, <2>4
  <2>6. QED
        BY <1>1, <2>2, <2>3, <2>4, <2>5
<1>7. QED
      BY <1>3, <1>4, <1>5, <1>6 DEF Loop

(* A step of the loop: no event is on its way before it, and the status    *)
(* that it sets is on its way after it.                                    *)
LEMMA LoopKeepsEvents ==
    ASSUME EventsInv, Inv', NEW s \in Slots, Loop(s)
    PROVE  EventsInv'
<1>1. /\ Inv /\ EventsTypeOK /\ BusLocked /\ OutboxTells /\ StreamsTell
      /\ pc[s] # "none" /\ outbox[s] = <<>> /\ outbox' \in [Slots -> Seq(Events)]
      /\ \A t \in Slots \ {s} : run'[t] = run[t] /\ outbox'[t] = outbox[t] /\ pc'[t] = pc[t]
      /\ outbox'[s] # <<>> => pc'[s] # "none"
      BY LoopEffect DEF EventsInv
<1>2. /\ sending' = sending /\ subs' = subs /\ stream' = stream /\ watching' = watching
      /\ channel' = channel /\ shown' = shown /\ missed' = missed
      BY LoopEffect DEF streams
<1>3. /\ \A t \in Slots : outbox[t] = <<>>
      /\ \A t \in Slots : sending[t] = {}
  <2>1. \A t \in Slots : outbox[t] # <<>> => t = s
        BY <1>1, SoleLoop DEF BusLocked, Active
  <2>2. QED
        BY <2>1, <1>1 DEF BusLocked
<1>4. EventsTypeOK'
      BY <1>1, <1>2 DEF EventsTypeOK, Inv
<1>5. BusLocked'
  <2>1. \A t \in Slots : /\ sending'[t] = {}
                         /\ outbox'[t] # <<>> => Active(t)'
        BY <1>1, <1>2, <1>3 DEF Active
  <2>2. QED
        BY <2>1, <1>1, <1>2 DEF BusLocked
<1>6. CASE status' = status /\ \A i \in DOMAIN outbox'[s] : outbox'[s][i] = "note"
  <2>1. OutboxTells'
        BY <1>1, <1>3, <1>6 DEF OutboxTells
  <2>2. ASSUME NEW v \in Viewers PROVE Heard(v)'
    <3>1. \A t \in Slots : ~OnWay(v, t)
          BY <1>3 DEF OnWay
    <3>2. QED
          BY <3>1, <1>1, <1>2, <1>6 DEF StreamsTell, Heard
  <2>3. StreamsTell'
        BY <2>2 DEF StreamsTell
  <2>4. QED
        BY <2>1, <2>3, <1>4, <1>5 DEF EventsInv
<1>7. ASSUME NEW st \in PublishedStatuses, run[s] \in Runs, run' = run,
             status' = [status EXCEPT ![run[s]] = st], outbox'[s] = <<st>>
      PROVE  EventsInv'
  <2>1. /\ status'[run[s]] = st
        /\ \A id \in Runs : id # run[s] => status'[id] = status[id]
        BY <1>1, <1>7 DEF Inv, TypeOK
  <2>2. DOMAIN outbox'[s] = {1} /\ outbox'[s][1] = st /\ Len(outbox'[s]) = 1 /\ st # "note"
        BY <1>7 DEF PublishedStatuses
  <2>3. OutboxTells'
    <3>1. ASSUME NEW t \in Slots, t # s PROVE outbox'[t] = <<>>
          BY <3>1, <1>1, <1>3
    <3>2. \A t \in Slots : t # s => DOMAIN outbox'[t] = {}
          BY <3>1
    <3>3. run'[s] \in Runs /\ status'[run'[s]] = st
          BY <1>7, <2>1
    <3>4. QED
          BY <3>2, <3>3, <2>2 DEF OutboxTells
  <2>4. ASSUME NEW v \in Viewers PROVE Heard(v)'
    <3>1. \A t \in Slots : ~OnWay(v, t)
          BY <1>3 DEF OnWay
    <3>2. CASE watching[v] = run[s]
      <4>1. OnWay(v, s)'
            BY <3>2, <1>2, <1>3, <1>7, <2>2 DEF OnWay
      <4>2. QED
            BY <4>1 DEF Heard
    <3>3. CASE watching[v] # run[s] /\ stream[v] = "open"
      <4>1. watching[v] \in Runs
            BY <3>3, <1>1 DEF BusLocked
      <4>2. status'[watching[v]] = status[watching[v]]
            BY <3>3, <4>1, <2>1
      <4>3. QED
            BY <3>1, <4>2, <1>1, <1>2 DEF StreamsTell, Heard
    <3>4. CASE stream[v] # "open"
          BY <3>4, <1>2 DEF Heard
    <3>5. QED
          BY <3>2, <3>3, <3>4
  <2>5. StreamsTell'
        BY <2>4 DEF StreamsTell
  <2>6. QED
        BY <2>3, <2>5, <1>4, <1>5 DEF EventsInv
<1>8. QED
      BY <1>6, <1>7, LoopEffect

(* A request to the orchestrator: what is on its way still tells the       *)
(* status, if the run still has one that is published.                     *)
LEMMA RequestKeepsEvents ==
    ASSUME EventsInv, Inv', Request
    PROVE  EventsInv'
<1>1. /\ Inv /\ EventsTypeOK /\ BusLocked /\ OutboxTells /\ StreamsTell
      BY DEF EventsInv
<1>2. /\ run' = run /\ \A s \in Slots : pc[s] # "none" => pc'[s] # "none"
      /\ \A id \in Runs : status'[id] \in PublishedStatuses => status'[id] = status[id]
      BY <1>1, RequestEffect
<1>3. /\ outbox' = outbox /\ sending' = sending /\ subs' = subs /\ stream' = stream
      /\ watching' = watching /\ channel' = channel /\ shown' = shown /\ missed' = missed
      BY DEF Request, publisher, streams
<1>4. EventsTypeOK'
      BY <1>1, <1>3 DEF EventsTypeOK, Inv
<1>5. BusLocked'
      BY <1>1, <1>2, <1>3 DEF BusLocked, Active
<1>6. OutboxTells'
      BY <1>1, <1>2, <1>3 DEF OutboxTells
<1>7. ASSUME NEW v \in Viewers PROVE Heard(v)'
  <2>1. SUFFICES ASSUME stream[v] = "open", ~missed[v], \A s \in Slots : ~OnWay(v, s)',
                        status'[watching[v]] \in PublishedStatuses
                 PROVE  Tells(channel[v], shown[v], status'[watching[v]])
        BY <1>3 DEF Heard
  <2>2. status'[watching[v]] = status[watching[v]]
        BY <2>1, <1>1, <1>2 DEF BusLocked
  <2>3. \A s \in Slots : ~OnWay(v, s)
        BY <2>1, <1>2, <1>3 DEF OnWay
  <2>4. QED
        BY <2>1, <2>2, <2>3, <1>1 DEF StreamsTell, Heard
<1>8. StreamsTell'
      BY <1>7 DEF StreamsTell
<1>9. QED
      BY <1>4, <1>5, <1>6, <1>8 DEF EventsInv

(* After its first event an outbox holds notes: a status is published      *)
(* alone.                                                                  *)
LEMMA RestIsNotes ==
    ASSUME EventsInv, NEW s \in Slots, outbox[s] # <<>>
    PROVE  /\ Tail(outbox[s]) \in Seq(Events)
           /\ Head(outbox[s]) \in Events
           /\ \A i \in DOMAIN Tail(outbox[s]) : Tail(outbox[s])[i] = "note"
           /\ Head(outbox[s]) = "note" => \A i \in DOMAIN outbox[s] : outbox[s][i] = "note"
<1>1. outbox[s] \in Seq(Events) /\ OutboxTells
      BY DEF EventsInv, EventsTypeOK
<1>2. /\ Len(outbox[s]) \in Nat \ {0} /\ Tail(outbox[s]) \in Seq(Events)
      /\ DOMAIN Tail(outbox[s]) = 1..(Len(outbox[s]) - 1)
      /\ DOMAIN outbox[s] = 1..Len(outbox[s]) /\ Head(outbox[s]) = outbox[s][1]
      /\ Head(outbox[s]) \in Events
      /\ \A i \in 1..(Len(outbox[s]) - 1) : Tail(outbox[s])[i] = outbox[s][i + 1]
      BY <1>1
<1>3. ASSUME NEW i \in 1..(Len(outbox[s]) - 1), Tail(outbox[s])[i] # "note" PROVE FALSE
  <2>1. i + 1 \in DOMAIN outbox[s] /\ outbox[s][i + 1] # "note" /\ Len(outbox[s]) # 1
        BY <1>2, <1>3
  <2>2. QED
        BY <2>1, <1>1 DEF OutboxTells
<1>4. ASSUME Head(outbox[s]) = "note", NEW i \in 1..Len(outbox[s]), outbox[s][i] # "note"
      PROVE  FALSE
  <2>1. Len(outbox[s]) = 1
        BY <1>1, <1>2, <1>4 DEF OutboxTells
  <2>2. QED
        BY <2>1, <1>2, <1>4
<1>5. QED
      BY <1>2, <1>3, <1>4

(* Publish takes the read lock: an event that has no subscriber is gone,   *)
(* and no open stream of its run missed it.                                *)
LEMMA LockKeepsEvents ==
    ASSUME EventsInv, NEW s \in Slots, PublishLocks(s)
    PROVE  EventsInv'
<1>1. /\ Inv /\ EventsTypeOK /\ BusLocked /\ OutboxTells /\ StreamsTell
      /\ outbox[s] # <<>> /\ sending[s] = {}
      /\ outbox \in [Slots -> Seq(Events)] /\ sending \in [Slots -> SUBSET Viewers]
      BY DEF EventsInv, EventsTypeOK, PublishLocks
<1>2. /\ UNCHANGED vars /\ run' = run /\ pc' = pc /\ status' = status
      /\ subs' = subs /\ stream' = stream /\ watching' = watching /\ channel' = channel
      /\ shown' = shown /\ missed' = missed
      BY DEF PublishLocks, vars, matrix, loops, streams
<1>3. /\ Readers(s) \subseteq subs /\ subs \subseteq Viewers
      /\ \A v \in Readers(s) : watching[v] = run[s]
      BY <1>1 DEF Readers, EventsTypeOK
<1>4. /\ sending' = [sending EXCEPT ![s] = Readers(s)]
      /\ sending'[s] = Readers(s) /\ \A t \in Slots \ {s} : sending'[t] = sending[t]
      /\ outbox'[s] = IF Readers(s) = {} THEN Tail(outbox[s]) ELSE outbox[s]
      /\ \A t \in Slots \ {s} : outbox'[t] = outbox[t]
      /\ outbox' = [outbox EXCEPT ![s] = IF Readers(s) = {} THEN Tail(@) ELSE @]
      BY <1>1 DEF PublishLocks
<1>5. Inv'
      BY <1>1, <1>2, NextInv
<1>6. /\ Tail(outbox[s]) \in Seq(Events)
      /\ \A i \in DOMAIN Tail(outbox[s]) : Tail(outbox[s])[i] = "note"
      BY <1>1, RestIsNotes
<1>7. EventsTypeOK'
  <2>1. outbox' \in [Slots -> Seq(Events)]
        BY <1>1, <1>4, <1>6
  <2>2. sending' \in [Slots -> SUBSET Viewers]
        BY <1>1, <1>3, <1>4
  <2>3. QED
        BY <2>1, <2>2, <1>1, <1>2, <1>5 DEF EventsTypeOK, Inv
<1>8. BusLocked'
  <2>1. ASSUME NEW t \in Slots
        PROVE  /\ sending'[t] # {} => outbox'[t] # <<>>
               /\ outbox'[t] # <<>> => Active(t)'
               /\ \A v \in sending'[t] : v \in subs' /\ watching'[v] = run'[t]
        BY <1>1, <1>2, <1>3, <1>4 DEF BusLocked, Active
  <2>2. QED
        BY <2>1, <1>1, <1>2 DEF BusLocked
<1>9. OutboxTells'
  <2>1. ASSUME NEW t \in Slots, NEW i \in DOMAIN outbox'[t], outbox'[t][i] # "note"
        PROVE  /\ Len(outbox'[t]) = 1 /\ run'[t] \in Runs
               /\ status'[run'[t]] \in PublishedStatuses => status'[run'[t]] = outbox'[t][i]
    <3>1. outbox'[t] = outbox[t]
          BY <2>1, <1>4, <1>6
    <3>2. QED
          BY <2>1, <3>1, <1>1, <1>2 DEF OutboxTells
  <2>2. QED
        BY <2>1 DEF OutboxTells
<1>10. ASSUME NEW v \in Viewers PROVE Heard(v)'
  <2>1. SUFFICES ASSUME stream[v] = "open", \A t \in Slots : ~OnWay(v, t)' PROVE Heard(v)'
        BY <1>2 DEF Heard
  <2>2. ASSUME NEW t \in Slots, OnWay(v, t) PROVE FALSE
    <3>1. CASE t # s
          BY <2>1, <2>2, <3>1, <1>2, <1>4 DEF OnWay
    <3>2. CASE t = s
      <4>1. v \in Readers(s)
            BY <2>1, <2>2, <3>2, <1>1 DEF OnWay, Readers, BusLocked
      <4>2. OnWay(v, s)'
            BY <2>2, <3>2, <4>1, <1>2, <1>4 DEF OnWay
      <4>3. QED
            BY <4>2, <2>1
    <3>3. QED
          BY <3>1, <3>2
  <2>3. QED
        BY <2>2, <1>1, <1>2 DEF StreamsTell, Heard
<1>11. StreamsTell'
       BY <1>10 DEF StreamsTell
<1>12. QED
       BY <1>5, <1>7, <1>8, <1>9, <1>11 DEF EventsInv

(* Publish sends to one channel or passes over it.                         *)
LEMMA DeliverKeepsEvents ==
    ASSUME EventsInv, NEW s \in Slots, NEW u \in Viewers, Deliver(s, u)
    PROVE  EventsInv'
<1>1. /\ Inv /\ EventsTypeOK /\ BusLocked /\ OutboxTells /\ StreamsTell
      /\ u \in sending[s] /\ outbox[s] # <<>>
      /\ outbox \in [Slots -> Seq(Events)] /\ sending \in [Slots -> SUBSET Viewers]
      /\ channel \in [Viewers -> Seq(Events)] /\ missed \in [Viewers -> BOOLEAN]
      BY DEF EventsInv, EventsTypeOK, Deliver, Visited, BusLocked
<1>2. /\ UNCHANGED vars /\ run' = run /\ pc' = pc /\ status' = status
      /\ subs' = subs /\ stream' = stream /\ watching' = watching /\ shown' = shown
      BY DEF Deliver, vars, matrix, loops
<1>3. /\ sending' = [sending EXCEPT ![s] = @ \ {u}]
      /\ sending'[s] = sending[s] \ {u} /\ \A t \in Slots \ {s} : sending'[t] = sending[t]
      /\ outbox'[s] = IF sending[s] = {u} THEN Tail(outbox[s]) ELSE outbox[s]
      /\ \A t \in Slots \ {s} : outbox'[t] = outbox[t]
      /\ outbox' = [outbox EXCEPT ![s] = IF sending[s] = {u} THEN Tail(@) ELSE @]
      BY <1>1 DEF Deliver, Visited
<1>4. /\ \/ /\ Len(channel[u]) < ChannelCap
            /\ channel' = [channel EXCEPT ![u] = Append(@, Head(outbox[s]))]
            /\ channel'[u] = Append(channel[u], Head(outbox[s])) /\ missed' = missed
         \/ /\ channel' = channel /\ missed'[u]
            /\ missed' = [missed EXCEPT ![u] = TRUE]
      /\ \A v \in Viewers \ {u} : channel'[v] = channel[v] /\ missed'[v] = missed[v]
  <2>1. CASE /\ Len(channel[u]) < ChannelCap
             /\ channel' = [channel EXCEPT ![u] = Append(@, Head(outbox[s]))]
             /\ missed' = missed
        BY <2>1, <1>1
  <2>2. CASE missed' = [missed EXCEPT ![u] = TRUE] /\ channel' = channel
        BY <2>2, <1>1
  <2>3. QED
        BY <2>1, <2>2 DEF Deliver
<1>5. Inv'
      BY <1>1, <1>2, NextInv
<1>6. /\ Tail(outbox[s]) \in Seq(Events) /\ Head(outbox[s]) \in Events
      /\ \A i \in DOMAIN Tail(outbox[s]) : Tail(outbox[s])[i] = "note"
      /\ Head(outbox[s]) = "note" => \A i \in DOMAIN outbox[s] : outbox[s][i] = "note"
      BY <1>1, RestIsNotes
<1>7. EventsTypeOK'
  <2>1. outbox' \in [Slots -> Seq(Events)]
        BY <1>1, <1>3, <1>6
  <2>2. sending' \in [Slots -> SUBSET Viewers]
        BY <1>1, <1>3
  <2>3. missed' \in [Viewers -> BOOLEAN]
        BY <1>1, <1>4
  <2>4. /\ channel' \in [Viewers -> Seq(Events)]
        /\ \A v \in Viewers : Len(channel'[v]) <= ChannelCap
    <3>1. Append(channel[u], Head(outbox[s])) \in Seq(Events)
          BY <1>1, <1>6
    <3>2. Len(Append(channel[u], Head(outbox[s]))) = Len(channel[u]) + 1 /\ Len(channel[u]) \in Nat
          BY <1>1
    <3>3. channel' \in [Viewers -> Seq(Events)]
          BY <3>1, <1>1, <1>4
    <3>4. Len(channel'[u]) <= ChannelCap
          BY <3>2, <1>1, <1>4, ChannelCapAssumption DEF EventsTypeOK
    <3>5. QED
          BY <3>3, <3>4, <1>1, <1>4 DEF EventsTypeOK
  <2>5. QED
        BY <2>1, <2>2, <2>3, <2>4, <1>1, <1>2, <1>5 DEF EventsTypeOK, Inv
<1>8. BusLocked'
  <2>1. ASSUME NEW t \in Slots
        PROVE  /\ sending'[t] # {} => outbox'[t] # <<>>
               /\ outbox'[t] # <<>> => Active(t)'
               /\ \A v \in sending'[t] : v \in subs' /\ watching'[v] = run'[t]
        BY <1>1, <1>2, <1>3 DEF BusLocked, Active
  <2>2. u \in subs
        BY <1>1 DEF BusLocked
  <2>3. QED
        BY <2>1, <2>2, <1>1, <1>2, <1>4 DEF BusLocked
<1>9. OutboxTells'
  <2>1. ASSUME NEW t \in Slots, NEW i \in DOMAIN outbox'[t], outbox'[t][i] # "note"
        PROVE  /\ Len(outbox'[t]) = 1 /\ run'[t] \in Runs
               /\ status'[run'[t]] \in PublishedStatuses => status'[run'[t]] = outbox'[t][i]
    <3>1. outbox'[t] = outbox[t]
          BY <2>1, <1>3, <1>6
    <3>2. QED
          BY <2>1, <3>1, <1>1, <1>2 DEF OutboxTells
  <2>2. QED
        BY <2>1 DEF OutboxTells
<1>10. ASSUME NEW v \in Viewers PROVE Heard(v)'
  <2>1. SUFFICES ASSUME stream[v] = "open", ~missed'[v], \A t \in Slots : ~OnWay(v, t)',
                        status[watching[v]] \in PublishedStatuses
                 PROVE  Tells(channel'[v], shown[v], status[watching[v]])
        BY <1>2 DEF Heard
  <2>2. \A t \in Slots \ {s} : ~OnWay(v, t)
        BY <2>1, <1>2, <1>3 DEF OnWay
  <2>3. CASE v # u
    <3>1. ~OnWay(v, s)
          BY <2>1, <2>3, <1>1, <1>2, <1>3 DEF OnWay
    <3>2. QED
          BY <2>1, <2>2, <2>3, <3>1, <1>1, <1>4 DEF StreamsTell, Heard
  <2>4. CASE v = u
    <3>1. /\ channel'[u] = Append(channel[u], Head(outbox[s])) /\ ~missed[u]
          /\ watching[u] = run[s] /\ channel[u] \in Seq(Events)
          BY <2>1, <2>4, <1>1, <1>4 DEF BusLocked
    <3>2. CASE Head(outbox[s]) = "note"
      <4>1. ~OnWay(v, s)
            BY <3>2, <1>6 DEF OnWay
      <4>2. Tells(channel[v], shown[v], status[watching[v]])
            BY <2>1, <2>2, <2>4, <3>1, <4>1, <1>1 DEF StreamsTell, Heard
      <4>3. QED
            BY <2>4, <3>1, <3>2, <4>2, TellsNote
    <3>3. CASE Head(outbox[s]) # "note"
      <4>1. Head(outbox[s]) = outbox[s][1] /\ 1 \in DOMAIN outbox[s]
            BY <1>1
      <4>2. Head(outbox[s]) = status[watching[v]]
            BY <2>1, <2>4, <3>1, <3>3, <4>1, <1>1 DEF OutboxTells
      <4>3. QED
            BY <2>1, <2>4, <3>1, <4>2, TellsStatus
    <3>4. QED
          BY <3>2, <3>3
  <2>5. QED
        BY <2>3, <2>4
<1>11. StreamsTell'
       BY <1>10 DEF StreamsTell
<1>12. QED
       BY <1>5, <1>7, <1>8, <1>9, <1>11 DEF EventsInv

(* A step of one stream concerns nothing else.                             *)
LEMMA FromStream ==
    ASSUME EventsInv, NEW v \in Viewers, UNCHANGED <<vars, publisher>>, EventsTypeOK',
           \A w \in Viewers \ {v} :
              /\ w \in subs' <=> w \in subs
              /\ stream'[w] = stream[w] /\ watching'[w] = watching[w]
              /\ channel'[w] = channel[w] /\ shown'[w] = shown[w] /\ missed'[w] = missed[w],
           v \in subs' <=> stream'[v] # "closed",
           v \in subs' => watching'[v] \in Runs,
           v \notin subs' => channel'[v] = <<>> /\ ~missed'[v],
           stream'[v] # "open" => shown'[v] = "nothing",
           \A s \in Slots : v \in sending[s] => v \in subs' /\ watching'[v] = watching[v],
           Heard(v)'
    PROVE  EventsInv'
<1>1. /\ Inv /\ BusLocked /\ OutboxTells /\ StreamsTell
      /\ sending \in [Slots -> SUBSET Viewers]
      BY DEF EventsInv, EventsTypeOK
<1>2. /\ outbox' = outbox /\ sending' = sending /\ run' = run /\ pc' = pc /\ status' = status
      BY DEF publisher, vars, matrix, loops
<1>3. Inv'
      BY <1>1, NextInv
<1>4. BusLocked'
  <2>1. ASSUME NEW s \in Slots, NEW w \in sending[s] PROVE w \in subs' /\ watching'[w] = run[s]
    <3>1. w \in Viewers /\ w \in subs /\ watching[w] = run[s]
          BY <1>1 DEF BusLocked
    <3>2. QED
          BY <3>1
  <2>2. QED
        BY <2>1, <1>1, <1>2 DEF BusLocked, Active
<1>5. OutboxTells'
      BY <1>1, <1>2 DEF OutboxTells
<1>6. ASSUME NEW w \in Viewers, w # v PROVE Heard(w)'
  <2>1. stream'[w] = stream[w] /\ watching'[w] = watching[w] /\ channel'[w] = channel[w]
        /\ shown'[w] = shown[w] /\ missed'[w] = missed[w]
        BY <1>6
  <2>2. Heard(w)
        BY <1>1 DEF StreamsTell
  <2>3. QED
        BY <2>1, <2>2, <1>2 DEF Heard, OnWay
<1>7. StreamsTell'
      BY <1>6 DEF StreamsTell
<1>8. QED
      BY <1>3, <1>4, <1>5, <1>7 DEF EventsInv

(* streamLogs: the channel of a new stream is empty, a status that is read *)
(* is the last shown, and a stream that its client left shows nothing.     *)
LEMMA StreamKeepsEvents ==
    ASSUME EventsInv, NEW v \in Viewers, StreamLogs(v)
    PROVE  EventsInv'
<1>1. /\ EventsTypeOK /\ BusLocked /\ OutboxTells /\ StreamsTell
      /\ stream \in [Viewers -> {"closed", "open", "leaving"}]
      /\ watching \in [Viewers -> Runs \cup {NoRun}]
      /\ channel \in [Viewers -> Seq(Events)]
      /\ shown \in [Viewers -> PublishedStatuses \cup {"nothing"}]
      /\ missed \in [Viewers -> BOOLEAN] /\ subs \subseteq Viewers
      BY DEF EventsInv, EventsTypeOK
<1>2. ASSUME UNCHANGED vars PROVE TypeOK'
      BY <1>2, NextInv DEF EventsInv, Inv
<1>3. ASSUME NEW id \in Runs, Subscribe(v, id) PROVE EventsInv'
  <2>1. /\ UNCHANGED <<vars, publisher>> /\ stream[v] = "closed"
        /\ channel' = channel /\ shown' = shown /\ missed' = missed
        /\ outbox' = outbox /\ sending' = sending
        /\ \A s \in Slots : sending[s] = {}
        BY <1>3 DEF Subscribe, publisher, WriteLockFree
  <2>2. /\ stream' = [stream EXCEPT ![v] = "open"] /\ subs' = subs \cup {v}
        /\ watching' = [watching EXCEPT ![v] = id]
        BY <1>3 DEF Subscribe
  <2>3. channel[v] = <<>> /\ shown[v] = "nothing" /\ ~missed[v]
        BY <2>1, <1>1 DEF BusLocked
  <2>4. EventsTypeOK'
        BY <2>1, <2>2, <1>1, <1>2 DEF EventsTypeOK
  <2>5. Heard(v)'
    <3>1. Tells(<<>>, "nothing", status'[watching'[v]])
          BY DEF Tells
    <3>2. QED
          BY <3>1, <2>1, <2>3 DEF Heard
  <2>6. QED
        BY <2>1, <2>2, <2>3, <2>4, <2>5, <1>1, FromStream
<1>4. CASE Receive(v)
  <2>1. /\ UNCHANGED <<vars, publisher>> /\ stream[v] = "open" /\ channel[v] # <<>>
        /\ subs' = subs /\ stream' = stream /\ watching' = watching /\ missed' = missed
        /\ outbox' = outbox /\ sending' = sending /\ run' = run /\ status' = status
        BY <1>4 DEF Receive, publisher, vars, matrix, loops
  <2> DEFINE last == IF Head(channel[v]) = "note" THEN shown[v] ELSE Head(channel[v])
  <2>2. /\ channel' = [channel EXCEPT ![v] = Tail(channel[v])]
        /\ shown' = [shown EXCEPT ![v] = last]
        BY <1>4 DEF Receive
  <2>3. /\ Tail(channel[v]) \in Seq(Events) /\ Len(Tail(channel[v])) <= ChannelCap
        /\ Head(channel[v]) \in Events
    <3>1. /\ channel[v] \in Seq(Events) /\ Len(channel[v]) <= ChannelCap
          BY <1>1 DEF EventsTypeOK
    <3>2. QED
          BY <3>1, <2>1, ChannelCapAssumption
  <2>4. last \in PublishedStatuses \cup {"nothing"}
        BY <2>3, <1>1 DEF Events
  <2>5. channel'[v] = Tail(channel[v]) /\ shown'[v] = last
        BY <2>2, <1>1
  <2>6. Heard(v)'
    <3>1. SUFFICES ASSUME ~missed[v], status[watching[v]] \in PublishedStatuses,
                          \A s \in Slots : ~OnWay(v, s)'
                   PROVE  Tells(Tail(channel[v]), last, status[watching[v]])
          BY <2>1, <2>5 DEF Heard
    <3>2. \A s \in Slots : ~OnWay(v, s)
          BY <3>1, <2>1 DEF OnWay
    <3>3. Tells(channel[v], shown[v], status[watching[v]])
          BY <3>1, <3>2, <2>1, <1>1 DEF StreamsTell, Heard
    <3>4. QED
          BY <3>3, <2>1, <1>1, TellsTail
  <2> HIDE DEF last
  <2>7. EventsTypeOK'
    <3>1. channel' \in [Viewers -> Seq(Events)] /\ \A w \in Viewers : Len(channel'[w]) <= ChannelCap
          BY <2>2, <2>3, <2>5, <1>1 DEF EventsTypeOK
    <3>2. shown' \in [Viewers -> PublishedStatuses \cup {"nothing"}]
          BY <2>2, <2>4, <1>1
    <3>3. QED
          BY <3>1, <3>2, <2>1, <1>1, <1>2 DEF EventsTypeOK
  <2>8. QED
    <3>1. v \in subs /\ watching[v] \in Runs
          BY <2>1, <1>1 DEF BusLocked
    <3>2. \A w \in Viewers \ {v} : channel'[w] = channel[w] /\ shown'[w] = shown[w]
          BY <2>2, <1>1
    <3>3. QED
          BY <3>1, <3>2, <2>1, <2>6, <2>7, FromStream
<1>5. CASE HangUp(v)
  <2>1. /\ UNCHANGED <<vars, publisher>> /\ stream[v] = "open"
        /\ stream' = [stream EXCEPT ![v] = "leaving"]
        /\ shown' = [shown EXCEPT ![v] = "nothing"]
        /\ subs' = subs /\ watching' = watching /\ channel' = channel /\ missed' = missed
        /\ outbox' = outbox /\ sending' = sending
        BY <1>5 DEF HangUp, publisher
  <2>2. EventsTypeOK'
        BY <2>1, <1>1, <1>2 DEF EventsTypeOK
  <2>3. v \in subs /\ watching[v] \in Runs
        BY <2>1, <1>1 DEF BusLocked
  <2>4. Heard(v)'
        BY <2>1, <1>1 DEF Heard
  <2>5. QED
        BY <2>1, <2>2, <2>3, <2>4, <1>1, FromStream
<1>6. CASE Unsubscribe(v)
  <2>1. /\ UNCHANGED <<vars, publisher>> /\ stream[v] = "leaving"
        /\ stream' = [stream EXCEPT ![v] = "closed"] /\ subs' = subs \ {v}
        /\ watching' = [watching EXCEPT ![v] = NoRun]
        /\ channel' = [channel EXCEPT ![v] = <<>>]
        /\ missed' = [missed EXCEPT ![v] = FALSE] /\ shown' = shown
        /\ outbox' = outbox /\ sending' = sending
        /\ \A s \in Slots : sending[s] = {}
        BY <1>6 DEF Unsubscribe, publisher, WriteLockFree
  <2>2. EventsTypeOK'
    <3>1. <<>> \in Seq(Events) /\ Len(<<>>) <= ChannelCap
          BY ChannelCapAssumption
    <3>2. channel' \in [Viewers -> Seq(Events)] /\ \A w \in Viewers : Len(channel'[w]) <= ChannelCap
          BY <3>1, <2>1, <1>1 DEF EventsTypeOK
    <3>3. QED
          BY <3>2, <2>1, <1>1, <1>2 DEF EventsTypeOK
  <2>3. shown[v] = "nothing"
        BY <2>1, <1>1 DEF BusLocked
  <2>4. Heard(v)'
        BY <2>1, <1>1 DEF Heard
  <2>5. QED
        BY <2>1, <2>2, <2>3, <2>4, <1>1, FromStream
<1>7. QED
      BY <1>3, <1>4, <1>5, <1>6 DEF StreamLogs

(* What the runner with its bus does is what the orchestrator may do.      *)
LEMMA EventsStep ==
    ASSUME EventsInv, [EventsNext]_allVars
    PROVE  [Next]_vars
<1>1. ASSUME NEW s \in Slots, Loop(s) PROVE Next
      BY <1>1, LoopEffect DEF Next
<1>2. CASE Request
      BY <1>2 DEF Request, Next
<1>3. ASSUME NEW s \in Slots, Publish(s) PROVE UNCHANGED vars
      BY <1>3 DEF Publish, PublishLocks, Deliver
<1>4. ASSUME NEW v \in Viewers, StreamLogs(v) PROVE UNCHANGED vars
      BY <1>4 DEF StreamLogs, Subscribe, Receive, HangUp, Unsubscribe
<1>5. QED
      BY <1>1, <1>2, <1>3, <1>4 DEF EventsNext, allVars

(* The invariant of the runner with its bus.                               *)
LEMMA EventsInitInv == EventsInit => EventsInv
<1> SUFFICES ASSUME EventsInit PROVE EventsInv
    OBVIOUS
<1>1. Inv
      BY InitInv DEF EventsInit
<1>2. /\ outbox = [s \in Slots |-> <<>>] /\ sending = [s \in Slots |-> {}] /\ subs = {}
      /\ stream = [v \in Viewers |-> "closed"] /\ watching = [v \in Viewers |-> NoRun]
      /\ channel = [v \in Viewers |-> <<>>] /\ shown = [v \in Viewers |-> "nothing"]
      /\ missed = [v \in Viewers |-> FALSE]
      BY DEF EventsInit
<1>3. <<>> \in Seq(Events) /\ Len(<<>>) <= ChannelCap
      BY ChannelCapAssumption
<1>4. EventsTypeOK
      BY <1>1, <1>2, <1>3 DEF EventsTypeOK, Inv
<1>5. BusLocked
      BY <1>2 DEF BusLocked
<1>6. OutboxTells
      BY <1>2 DEF OutboxTells
<1>7. StreamsTell
      BY <1>2 DEF StreamsTell, Heard
<1>8. QED
      BY <1>1, <1>4, <1>5, <1>6, <1>7 DEF EventsInv

LEMMA EventsNextInv == EventsInv /\ [EventsNext]_allVars => EventsInv'
<1> SUFFICES ASSUME EventsInv, [EventsNext]_allVars PROVE EventsInv'
    OBVIOUS
<1>1. Inv'
      BY EventsStep, NextInv DEF EventsInv
<1>2. ASSUME NEW s \in Slots, Loop(s) PROVE EventsInv'
      BY <1>1, <1>2, LoopKeepsEvents
<1>3. ASSUME NEW s \in Slots, Publish(s) PROVE EventsInv'
      BY <1>3, LockKeepsEvents, DeliverKeepsEvents DEF Publish
<1>4. ASSUME NEW v \in Viewers, StreamLogs(v) PROVE EventsInv'
      BY <1>4, StreamKeepsEvents
<1>5. CASE Request
      BY <1>1, <1>5, RequestKeepsEvents
<1>6. CASE UNCHANGED allVars
  <2>1. /\ outbox' = outbox /\ sending' = sending /\ run' = run /\ pc' = pc /\ status' = status
        /\ subs' = subs /\ stream' = stream /\ watching' = watching /\ channel' = channel
        /\ shown' = shown /\ missed' = missed
        BY <1>6 DEF allVars, vars, matrix, loops, publisher, streams
  <2>2. EventsTypeOK'
        BY <2>1, <1>1 DEF EventsInv, EventsTypeOK, Inv
  <2>3. BusLocked' /\ OutboxTells'
        BY <2>1 DEF EventsInv, BusLocked, OutboxTells, Active
  <2>4. StreamsTell'
        BY <2>1 DEF EventsInv, StreamsTell, Heard, OnWay
  <2>5. QED
        BY <2>2, <2>3, <2>4, <1>1 DEF EventsInv
<1>7. QED
      BY <1>2, <1>3, <1>4, <1>5, <1>6 DEF EventsNext

(* The invariant of the runner, its event bus and its log streams.         *)
THEOREM EventsInvariance == EventsSpec => []EventsInv
BY EventsInitInv, EventsNextInv, PTL DEF EventsSpec

(* Adding the bus takes nothing from the orchestrator: no publisher, no    *)
(* subscriber and no full channel makes it do what it could not do alone.  *)
THEOREM BusLeavesOrchestrator == EventsSpec => Spec
<1>1. EventsInit => Init
      BY DEF EventsInit
<1>2. EventsInv /\ [EventsNext]_allVars => [Next]_vars
      BY EventsStep
<1>3. QED
      BY <1>1, <1>2, EventsInvariance, PTL DEF EventsSpec, Spec

(* Type correctness of the composition; no channel of a subscriber holds   *)
(* more events than its capacity.                                          *)
THEOREM EventsTypeCorrect == EventsSpec => []EventsTypeOK
<1>1. EventsInv => EventsTypeOK
      BY DEF EventsInv
<1>2. QED
      BY <1>1, EventsInvariance, PTL

(* However hang-ups, subscriptions and deliveries interleave, Publish      *)
(* never has a closed channel before it.                                   *)
THEOREM NeverSendsOnClosed == EventsSpec => []NoSendOnClosed
<1>1. EventsInv => NoSendOnClosed
      BY DEF EventsInv, BusLocked, NoSendOnClosed
<1>2. QED
      BY <1>1, EventsInvariance, PTL

(* A stream that has read everything and was never passed over shows what  *)
(* the matrix holds: events are neither reordered nor applied late, for    *)
(* any number of streams, runs and notes and any capacity.                 *)
THEOREM StreamsFollow == EventsSpec => []StreamFollowsRun
<1>1. EventsInv => StreamFollowsRun
  <2> SUFFICES ASSUME EventsInv, NEW v \in Viewers,
                      stream[v] = "open", CaughtUp(v), ~missed[v], shown[v] # "nothing",
                      status[watching[v]] \in PublishedStatuses
               PROVE  shown[v] = status[watching[v]]
      BY DEF StreamFollowsRun
  <2>1. \A s \in Slots : ~OnWay(v, s)
        BY DEF CaughtUp, OnWay
  <2>2. Tells(channel[v], shown[v], status[watching[v]])
        BY <2>1 DEF EventsInv, StreamsTell, Heard
  <2>3. QED
        BY <2>2 DEF CaughtUp, Tells
<1>2. QED
      BY <1>1, EventsInvariance, PTL
=============================================================================
