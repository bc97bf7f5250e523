--------------------------- MODULE ClusterProofs ---------------------------
(***************************************************************************)
(* Proofs about ClusterWriters: that whole-object updates and patches      *)
(* implement writes of single fields (ClusterFields), and that a clean     *)
(* reset holds, for any specs, targets and sizes.                          *)
(***************************************************************************)
EXTENDS ClusterWriters, SequenceTheorems, TLAPS

ChangeRecord == [field : Fields, value : Nat]

(* Short sequences.                                                        *)
LEMMA ShortSequences ==
    ASSUME NEW S, NEW p \in S, NEW l \in S
    PROVE  /\ <<p>> \in Seq(S) /\ Len(<<p>>) = 1 /\ <<p>>[1] = p
           /\ <<p, l>> \in Seq(S) /\ Len(<<p, l>>) = 2
           /\ <<p, l>>[1] = p /\ <<p, l>>[2] = l
           /\ <<>> \o <<l>> = <<l>> /\ <<p>> \o <<>> = <<p>>
           /\ <<>> \o <<>> = <<>> /\ <<p>> \o <<l>> = <<p, l>>
<1>1. /\ <<p>> \in Seq(S) /\ Len(<<p>>) = 1 /\ <<p>>[1] = p
      /\ <<p, l>> \in Seq(S) /\ Len(<<p, l>>) = 2
      /\ <<p, l>>[1] = p /\ <<p, l>>[2] = l
      OBVIOUS
<1>2. <<>> \o <<l>> = <<l>>
      OBVIOUS
<1>3. <<p>> \o <<>> = <<p>>
      OBVIOUS
<1>4. <<p>> \o <<l>> = <<p, l>>
  <2> DEFINE s == <<p>> \o <<l>>
  <2>1. s \in Seq(S) /\ Len(s) = 2
        BY <1>1, ConcatProperties
  <2>2. s[1] = p /\ s[2] = l
        BY <1>1
  <2> HIDE DEF s
  <2>3. s = <<p, l>>
        BY <1>1, <2>1, <2>2, SeqEqual
  <2>4. QED
        BY <2>3 DEF s
<1>5. <<>> \o <<>> = <<>>
  <2>1. <<>> \in Seq(S) /\ Len(<<>>) = 0
        OBVIOUS
  <2>2. (<<>> \o <<>>) \in Seq(S) /\ Len(<<>> \o <<>>) = 0
        BY <2>1
  <2>3. QED
        BY <2>2
<1>6. QED
      BY <1>1, <1>2, <1>3, <1>4, <1>5

(* The writers, and what they own.                                         *)
LEMMA WriterFacts ==
    /\ Controllers \subseteq Writers /\ "reset" \in Writers /\ "reset" \notin Controllers
    /\ "instances" \in Fields /\ "maxSync" \in Fields /\ Volumes \subseteq Fields
    /\ "instances" \notin Volumes /\ "maxSync" \notin Volumes
    /\ Owns["scale"] = {"instances"} /\ Owns["storage"] = Volumes
    /\ Owns["reset"] = {"maxSync", "instances"}
    /\ \A w \in Controllers : Owns[w] \subseteq Fields
    /\ \A w \in Controllers : w = "scale" \/ w = "storage"
BY DEF Controllers, Writers, Fields, Volumes, Owns

(* What a reconcile sets out to write.                                     *)
LEMMA WantedFacts ==
    ASSUME TypeOK, goal["instances"] > 0, NEW w \in Controllers
    PROVE  /\ Wanted(w) \in Seq(ChangeRecord)
           /\ \A i \in 1..Len(Wanted(w)) :
                 /\ Wanted(w)[i].field \in Owns[w]
                 /\ Wanted(w)[i].value > 0
                 /\ w = "storage" => Wanted(w)[i].value > spec[Wanted(w)[i].field]
                 /\ \A j \in 1..Len(Wanted(w)) :
                       i # j => Wanted(w)[i].field # Wanted(w)[j].field
<1> USE DEF TypeOK
<1>1. ASSUME NEW f \in Fields PROVE Change(f) \in ChangeRecord
                                    /\ Change(f).field = f /\ Change(f).value = goal[f]
      BY DEF Change, ChangeRecord
<1>2. CASE w = "scale"
  <2> DEFINE c == Change("instances")
  <2>1. Wanted(w) = <<>> \/ Wanted(w) = <<c>>
        BY <1>2 DEF Wanted, Turn
  <2>2. c \in ChangeRecord /\ c.field \in Owns[w] /\ c.value > 0
        BY <1>1, <1>2, WriterFacts
  <2> HIDE DEF c
  <2>3. CASE Wanted(w) = <<>>
        BY <2>3
  <2>4. CASE Wanted(w) = <<c>>
    <3>1. Wanted(w) \in Seq(ChangeRecord) /\ Len(Wanted(w)) = 1 /\ Wanted(w)[1] = c
          BY <2>2, <2>4, ShortSequences
    <3>2. QED
          BY <1>2, <2>2, <3>1
  <2>5. QED
        BY <2>1, <2>3, <2>4
<1>3. CASE w = "storage"
  <2>1. ASSUME NEW f \in Volumes, Differs(f)
        PROVE  goal[f] > spec[f] /\ goal[f] > 0
    <3>1. f \in Fields /\ goal[f] \in Nat /\ spec[f] \in Nat
          BY WriterFacts
    <3>2. QED
          BY <2>1, <3>1 DEF Differs
  <2> DEFINE p == Change("pgdata")
             l == Change("wal")
  <2>2. \/ Wanted(w) = <<>>
        \/ Wanted(w) = <<p>> /\ Differs("pgdata")
        \/ Wanted(w) = <<l>> /\ Differs("wal")
        \/ Wanted(w) = <<p, l>> /\ Differs("pgdata") /\ Differs("wal")
    <3>1. Wanted(w) = Turn("pgdata") \o Turn("wal")
          BY <1>3 DEF Wanted
    <3>2. /\ Differs("pgdata") => Turn("pgdata") = <<p>>
          /\ ~Differs("pgdata") => Turn("pgdata") = <<>>
          /\ Differs("wal") => Turn("wal") = <<l>>
          /\ ~Differs("wal") => Turn("wal") = <<>>
          BY DEF Turn
    <3>3. p \in ChangeRecord /\ l \in ChangeRecord
          BY <1>1, WriterFacts DEF Volumes
    <3> HIDE DEF p, l
    <3>4. /\ <<>> \o <<l>> = <<l>> /\ <<p>> \o <<>> = <<p>>
          /\ <<>> \o <<>> = <<>> /\ <<p>> \o <<l>> = <<p, l>>
          BY <3>3, ShortSequences
    <3>5. QED
          BY <3>1, <3>2, <3>4
  <2>3. /\ p \in ChangeRecord /\ p.field = "pgdata" /\ p.value = goal["pgdata"]
        /\ l \in ChangeRecord /\ l.field = "wal" /\ l.value = goal["wal"]
        /\ "pgdata" \in Owns[w] /\ "wal" \in Owns[w]
        BY <1>1, <1>3, WriterFacts DEF Volumes
  <2> HIDE DEF p, l
  <2>4. /\ Differs("pgdata") => goal["pgdata"] > spec["pgdata"] /\ goal["pgdata"] > 0
        /\ Differs("wal") => goal["wal"] > spec["wal"] /\ goal["wal"] > 0
        BY <2>1 DEF Volumes
  <2>5. CASE Wanted(w) = <<>>
        BY <2>5
  <2>6. CASE Wanted(w) = <<p>> /\ Differs("pgdata")
        BY <2>3, <2>4, <2>6
  <2>7. CASE Wanted(w) = <<l>> /\ Differs("wal")
        BY <2>3, <2>4, <2>7
  <2>8. CASE Wanted(w) = <<p, l>> /\ Differs("pgdata") /\ Differs("wal")
    <3>1. Wanted(w) \in Seq(ChangeRecord) /\ Len(Wanted(w)) = 2
          /\ Wanted(w)[1] = p /\ Wanted(w)[2] = l
          BY <2>3, <2>8
    <3>2. QED
          BY <2>3, <2>4, <2>8, <3>1
  <2>9. QED
        BY <2>2, <2>5, <2>6, <2>7, <2>8
<1>4. QED
      BY <1>2, <1>3, WriterFacts

(* The first change of a reconcile in progress, and the rest.              *)
LEMMA JobFacts ==
    ASSUME TypeOK, NEW w \in Controllers, job[w] # <<>>
    PROVE  /\ Head(job[w]) \in ChangeRecord /\ Head(job[w]) = job[w][1]
           /\ Tail(job[w]) \in Seq(ChangeRecord)
           /\ Len(job[w]) \in Nat /\ 1 \in 1..Len(job[w])
           /\ \A i \in 1..Len(Tail(job[w])) :
                 i + 1 \in 1..Len(job[w]) /\ Tail(job[w])[i] = job[w][i + 1]
<1>1. job[w] \in Seq(ChangeRecord)
      BY DEF TypeOK, ChangeRecord
<1>2. QED
      BY <1>1

(* What an update stores.                                                  *)
LEMMA UpdateFacts ==
    ASSUME TypeOK, FreshIsCurrent, PendingChanges, NEW w \in Controllers, Update(w)
    PROVE  /\ job[w] # <<>>
           /\ Head(job[w]) \in ChangeRecord
           /\ Head(job[w]).field \in Owns[w]
           /\ spec' = [spec EXCEPT ![Head(job[w]).field] = Head(job[w]).value]
<1>1. job[w] # <<>>
      BY DEF Update, PendingChanges, Pending
<1>2. Head(job[w]).field \in Owns[w]
      BY <1>1, JobFacts DEF PendingChanges, Pending
<1>3. copy[w] = spec
      BY DEF Update, FreshIsCurrent
<1>4. QED
      BY <1>1, <1>2, <1>3, JobFacts DEF Update, Store
-----------------------------------------------------------------------------
(* Every step keeps the types.                                             *)
LEMMA TypeStep == Inv /\ [Next]_vars => TypeOK'
<1> SUFFICES ASSUME Inv, [Next]_vars PROVE TypeOK'
    OBVIOUS
<1> USE DEF Inv, TypeOK
<1> USE WriterFacts
<1>0. NoCopy \in [Fields -> Nat]
      BY DEF NoCopy
<1>1. CASE ChangeGoal
  <2>1. \/ \E n \in Targets : goal' = [goal EXCEPT !["instances"] = n]
        \/ \E f \in Volumes, s \in Sizes : goal' = [goal EXCEPT ![f] = s]
        BY <1>1 DEF ChangeGoal
  <2>2. Targets \subseteq Nat /\ Sizes \subseteq Nat
        BY GoalAssumption
  <2>3. goal' \in [Fields -> Nat]
        BY <2>1, <2>2
  <2>4. QED
        BY <1>1, <2>3 DEF ChangeGoal
<1>2. CASE Operator
  <2>1. CASE StatusUpdate BY <2>1 DEF StatusUpdate
  <2>2. CASE Revert
    <3>1. PICK n \in (spec["maxSync"] + 1)..MaxInstances : spec' = [spec EXCEPT !["instances"] = n]
          BY <2>2 DEF Revert
    <3>2. n \in Nat /\ spec' \in [Fields -> Nat]
          BY <3>1, GoalAssumption
    <3>3. QED BY <2>2, <3>2 DEF Revert
  <2>3. CASE StartPod
    <3>1. pods' \in Nat /\ stuck' \in BOOLEAN
      <4>1. pods' \in Nat BY <2>3 DEF StartPod
      <4>2. stuck' \in BOOLEAN BY Zenon, <2>3 DEF StartPod
      <4>3. QED BY <4>1, <4>2
    <3>2. QED BY <2>3, <3>1 DEF StartPod
  <2>4. CASE StopPod
    <3>1. spec["instances"] \in Nat /\ pods' \in Nat
          BY <2>4 DEF StopPod
    <3>2. QED BY <2>4, <3>1 DEF StopPod
  <2>5. QED BY <1>2, <2>1, <2>2, <2>3, <2>4 DEF Operator
<1>3. ASSUME NEW w \in Controllers, Reconcile(w) PROVE TypeOK'
  <2>0. ASSUME job[w] # <<>>, Advance(w)
        PROVE  /\ copy' \in [Writers -> [Fields -> Nat]]
               /\ job' \in [Controllers -> Seq([field : Fields, value : Nat])]
               /\ pc' \in [Writers -> ResetPcs \cup {"get", "update"}]
    <3>1. Tail(job[w]) \in Seq([field : Fields, value : Nat])
          BY <2>0, JobFacts DEF ChangeRecord
    <3>2. "idle" \in ResetPcs
          BY DEF ResetPcs, ResetDone
    <3>3. QED
          BY <1>0, <2>0, <3>1, <3>2 DEF Advance
  <2>1. CASE Decide(w)
    <3>1. Wanted(w) \in Seq([field : Fields, value : Nat])
          BY WantedFacts DEF PendingChanges, ChangeRecord
    <3>2. QED BY <2>1, <3>1 DEF Decide
  <2>2. CASE Get(w) BY <2>2 DEF Get
  <2>3. CASE Update(w)
    <3>1. job[w] # <<>> /\ spec' \in [Fields -> Nat]
          BY <2>3, UpdateFacts DEF ChangeRecord
    <3>2. fresh' \in SUBSET Controllers /\ clean' \in BOOLEAN
          BY <2>3 DEF Update, Store
    <3>3. QED BY <2>0, <2>3, <3>1, <3>2 DEF Update
  <2>4. CASE Conflict(w)
    <3>1. job[w] # <<>>
          BY <2>4 DEF Conflict, PendingChanges, Pending
    <3>2. QED BY <2>0, <2>4, <3>1 DEF Conflict
  <2>5. CASE CallFails(w)
    <3>1. job[w] # <<>>
          BY <2>5 DEF CallFails, PendingChanges, Pending
    <3>2. QED BY <2>0, <2>5, <3>1 DEF CallFails
  <2>6. CASE Restart(w)
    <3>1. "idle" \in ResetPcs /\ <<>> \in Seq([field : Fields, value : Nat])
          BY DEF ResetPcs, ResetDone
    <3>2. QED BY <1>0, <2>6, <3>1 DEF Restart
  <2>7. QED
        BY <1>3, <2>1, <2>2, <2>3, <2>4, <2>5, <2>6 DEF Reconcile
<1>4. CASE ResetCluster
  <2> USE DEF ResetGoto, ResetPcs, ResetDone
  <2>1. CASE ResetBegin BY <2>1 DEF ResetBegin
  <2>2. CASE EnsureMaxSyncReplicasZero BY <2>2 DEF EnsureMaxSyncReplicasZero
  <2>3. CASE SyncPatch BY <2>3 DEF SyncPatch, Store
  <2>4. CASE SyncFails BY <2>4 DEF SyncFails
  <2>5. CASE InstancesGet BY <1>0, <2>5 DEF InstancesGet
  <2>6. CASE InstancesPatch BY <1>0, <2>6 DEF InstancesPatch, Store, OneInstance
  <2>7. CASE InstancesFail BY <1>0, <2>7 DEF InstancesFail
  <2>8. CASE PodsReady BY <2>8 DEF PodsReady
  <2>9. CASE WaitTimesOut BY <2>9 DEF WaitTimesOut
  <2>10. CASE ChecklistFixes BY <2>10 DEF ChecklistFixes
  <2>11. QED
        BY <1>4, <2>1, <2>2, <2>3, <2>4, <2>5, <2>6, <2>7, <2>8, <2>9, <2>10 DEF ResetCluster
<1>5. CASE UNCHANGED vars
      BY <1>5 DEF vars
<1>6. QED
      BY <1>1, <1>2, <1>3, <1>4, <1>5 DEF Next

(* Every step keeps the copies that have the current version current.      *)
LEMMA FreshStep == Inv /\ [Next]_vars => FreshIsCurrent'
<1> SUFFICES ASSUME Inv, [Next]_vars PROVE FreshIsCurrent'
    OBVIOUS
<1> USE WriterFacts DEF Inv, TypeOK, FreshIsCurrent
<1>1. CASE ChangeGoal
      BY <1>1 DEF ChangeGoal
<1>2. CASE Operator
      BY <1>2 DEF Operator, StatusUpdate, Revert, StartPod, StopPod
<1>3. ASSUME NEW w \in Controllers, Reconcile(w) PROVE FreshIsCurrent'
  <2>1. CASE Decide(w) BY <2>1 DEF Decide
  <2>2. CASE Get(w) BY <2>2 DEF Get
  <2>3. CASE Update(w) BY <2>3 DEF Update, Advance, Store
  <2>4. CASE Conflict(w) BY <2>4 DEF Conflict, Advance
  <2>5. CASE CallFails(w) BY <2>5 DEF CallFails, Advance
  <2>6. CASE Restart(w) BY <2>6 DEF Restart
  <2>7. QED
        BY <1>3, <2>1, <2>2, <2>3, <2>4, <2>5, <2>6 DEF Reconcile
<1>4. CASE ResetCluster
  <2> USE DEF ResetGoto
  <2>1. CASE ResetBegin BY <2>1 DEF ResetBegin
  <2>2. CASE EnsureMaxSyncReplicasZero BY <2>2 DEF EnsureMaxSyncReplicasZero
  <2>3. CASE SyncPatch BY <2>3 DEF SyncPatch, Store
  <2>4. CASE SyncFails BY <2>4 DEF SyncFails
  <2>5. CASE InstancesGet BY <2>5 DEF InstancesGet
  <2>6. CASE InstancesPatch BY <2>6 DEF InstancesPatch, Store
  <2>7. CASE InstancesFail BY <2>7 DEF InstancesFail
  <2>8. CASE PodsReady BY <2>8 DEF PodsReady
  <2>9. CASE WaitTimesOut BY <2>9 DEF WaitTimesOut
  <2>10. CASE ChecklistFixes BY <2>10 DEF ChecklistFixes
  <2>11. QED
        BY <1>4, <2>1, <2>2, <2>3, <2>4, <2>5, <2>6, <2>7, <2>8, <2>9, <2>10 DEF ResetCluster
<1>5. CASE UNCHANGED vars
      BY <1>5 DEF vars
<1>6. QED
      BY <1>1, <1>2, <1>3, <1>4, <1>5 DEF Next

(* What is left of a reconcile keeps its promise when its first change is  *)
(* written or given up, and when others write other fields.                *)
LEMMA PendingAfterAdvance ==
    ASSUME TypeOK, NEW w \in Controllers, Pending(w), job[w] # <<>>, Advance(w),
           \/ UNCHANGED spec
           \/ spec' = [spec EXCEPT ![Head(job[w]).field] = Head(job[w]).value]
    PROVE  Pending(w)'
<1> DEFINE rest == Tail(job[w])
<1>1. /\ Head(job[w]) = job[w][1] /\ 1 \in 1..Len(job[w])
      /\ rest \in Seq(ChangeRecord)
      /\ \A i \in 1..Len(rest) : i + 1 \in 1..Len(job[w]) /\ rest[i] = job[w][i + 1]
      BY JobFacts
<1>2. job'[w] = rest /\ pc'[w] = (IF rest = <<>> THEN "idle" ELSE "get")
      BY WriterFacts DEF TypeOK, Advance
<1> HIDE DEF rest
<1>3. ASSUME NEW i \in 1..Len(rest)
      PROVE  /\ rest[i].field \in Owns[w] /\ rest[i].value > 0
             /\ w = "storage" => rest[i].value > spec[rest[i].field]
             /\ rest[i].field # Head(job[w]).field
             /\ \A j \in 1..Len(rest) : i # j => rest[i].field # rest[j].field
  <2>1. /\ i \in Nat /\ Len(rest) \in Nat /\ i + 1 \in 1..Len(job[w])
        /\ rest[i] = job[w][i + 1] /\ i + 1 # 1
        BY <1>1, <1>3
  <2>2. \A j \in 1..Len(rest) : i # j =>
           j + 1 \in 1..Len(job[w]) /\ rest[j] = job[w][j + 1] /\ i + 1 # j + 1
        BY <1>1, <2>1
  <2>3. /\ rest[i].field \in Owns[w] /\ rest[i].value > 0
        /\ w = "storage" => rest[i].value > spec[rest[i].field]
        BY <2>1 DEF Pending
  <2>4. \A k, m \in 1..Len(job[w]) : k # m => job[w][k].field # job[w][m].field
        BY DEF Pending
  <2>5. rest[i].field # Head(job[w]).field
        BY <1>1, <2>1, <2>4
  <2>6. \A j \in 1..Len(rest) : i # j => rest[i].field # rest[j].field
        BY <2>1, <2>2, <2>4
  <2>7. QED
        BY <2>3, <2>5, <2>6
<1>4. ASSUME NEW i \in 1..Len(rest)
      PROVE  w = "storage" => rest[i].value > spec'[rest[i].field]
  <2>1. spec'[rest[i].field] = spec[rest[i].field]
        BY <1>3, WriterFacts DEF TypeOK
  <2>2. QED
        BY <1>3, <2>1
<1>5. QED
      BY <1>2, <1>3, <1>4 DEF Pending

(* Pending looks only at a controller's own variables and, for the storage *)
(* controller, at the volumes.                                             *)
LEMMA PendingWhileOthersWrite ==
    ASSUME TypeOK, NEW w \in Controllers, Pending(w),
           job'[w] = job[w], pc'[w] = pc[w],
           \A f \in Volumes : w = "storage" => spec'[f] = spec[f]
    PROVE  Pending(w)'
BY WriterFacts DEF Pending

(* Every step keeps the pending changes as they should be.                 *)
LEMMA PendingStep == Inv /\ [Next]_vars => PendingChanges'
<1> SUFFICES ASSUME Inv, [Next]_vars PROVE PendingChanges'
    OBVIOUS
<1> USE DEF Inv
<1>0. /\ \A u \in Controllers : Pending(u)
      /\ goal["instances"] > 0 /\ goal \in [Fields -> Nat] /\ spec \in [Fields -> Nat]
      /\ pc \in [Writers -> ResetPcs \cup {"get", "update"}]
      /\ job \in [Controllers -> Seq([field : Fields, value : Nat])]
      BY DEF PendingChanges, TypeOK
<1>1. ASSUME \A u \in Controllers : job'[u] = job[u] /\ pc'[u] = pc[u],
             \A f \in Volumes : spec'[f] = spec[f], goal' = goal
      PROVE  PendingChanges'
  <2>1. ASSUME NEW u \in Controllers PROVE Pending(u)'
        BY <1>0, <1>1, PendingWhileOthersWrite
  <2>2. QED BY <1>0, <1>1, <2>1 DEF PendingChanges
<1>2. CASE ChangeGoal
  <2>1. goal'["instances"] > 0
    <3>1. CASE \E n \in Targets : goal' = [goal EXCEPT !["instances"] = n]
          BY <1>0, <3>1, GoalAssumption, WriterFacts
    <3>2. CASE \E f \in Volumes, s \in Sizes : goal' = [goal EXCEPT ![f] = s]
          BY <1>0, <3>2, WriterFacts
    <3>3. QED
          BY <1>2, <3>1, <3>2 DEF ChangeGoal
  <2>2. ASSUME NEW u \in Controllers PROVE Pending(u)'
        BY <1>0, <1>2, PendingWhileOthersWrite DEF ChangeGoal
  <2>3. QED BY <2>1, <2>2 DEF PendingChanges
<1>3. CASE Operator
  <2>1. /\ job' = job /\ pc' = pc /\ goal' = goal
        /\ \A f \in Volumes : spec'[f] = spec[f]
        BY <1>0, <1>3, WriterFacts DEF Operator, StatusUpdate, Revert, StartPod, StopPod
  <2>2. QED BY <1>1, <2>1
<1>4. ASSUME NEW w \in Controllers, Reconcile(w) PROVE PendingChanges'
  <2>0. ASSUME job[w] # <<>>, Advance(w), goal' = goal,
               \/ UNCHANGED spec
               \/ /\ spec' = [spec EXCEPT ![Head(job[w]).field] = Head(job[w]).value]
                  /\ Head(job[w]).field \in Owns[w]
        PROVE  PendingChanges'
    <3>1. Pending(w)'
          BY <1>0, <2>0, PendingAfterAdvance
    <3>2. ASSUME NEW u \in Controllers, u # w PROVE Pending(u)'
      <4>1. job'[u] = job[u] /\ pc'[u] = pc[u]
            BY <1>0, <2>0, <3>2, WriterFacts DEF Advance
      <4>2. \A f \in Volumes : u = "storage" => spec'[f] = spec[f]
            BY <1>0, <2>0, <3>2, WriterFacts
      <4>3. QED BY <1>0, <4>1, <4>2, PendingWhileOthersWrite
    <3>3. QED BY <1>0, <2>0, <3>1, <3>2 DEF PendingChanges
  <2>1. CASE Decide(w)
    <3>1. job'[w] = Wanted(w) /\ pc'[w] = "get" /\ Wanted(w) # <<>> /\ spec' = spec /\ goal' = goal
          BY <1>0, <2>1, WriterFacts DEF Decide
    <3>2. Pending(w)'
          BY <1>0, <3>1, WantedFacts DEF Pending
    <3>3. ASSUME NEW u \in Controllers, u # w PROVE Pending(u)'
      <4>1. job'[u] = job[u] /\ pc'[u] = pc[u]
            BY <1>0, <2>1, <3>3, WriterFacts DEF Decide
      <4>2. QED BY <1>0, <3>1, <4>1, PendingWhileOthersWrite
    <3>4. QED BY <1>0, <3>1, <3>2, <3>3 DEF PendingChanges
  <2>2. CASE Get(w)
    <3>1. job' = job /\ pc'[w] = "update" /\ pc[w] = "get" /\ spec' = spec /\ goal' = goal
          BY <1>0, <2>2, WriterFacts DEF Get
    <3>2. Pending(w)'
          BY <1>0, <3>1 DEF Pending
    <3>3. ASSUME NEW u \in Controllers, u # w PROVE Pending(u)'
      <4>1. job'[u] = job[u] /\ pc'[u] = pc[u]
            BY <1>0, <2>2, <3>3, WriterFacts DEF Get
      <4>2. QED BY <1>0, <3>1, <4>1, PendingWhileOthersWrite
    <3>4. QED BY <1>0, <3>1, <3>2, <3>3 DEF PendingChanges
  <2>3. CASE Update(w)
    <3>1. /\ job[w] # <<>> /\ Head(job[w]).field \in Owns[w]
          /\ spec' = [spec EXCEPT ![Head(job[w]).field] = Head(job[w]).value]
          BY <2>3, UpdateFacts
    <3>2. QED BY <2>0, <2>3, <3>1 DEF Update
  <2>4. CASE Conflict(w)
    <3>1. job[w] # <<>>
          BY <1>0, <2>4 DEF Conflict, Pending
    <3>2. QED BY <2>0, <2>4, <3>1 DEF Conflict
  <2>5. CASE CallFails(w)
    <3>1. job[w] # <<>>
          BY <1>0, <2>5 DEF CallFails, Pending
    <3>2. QED BY <2>0, <2>5, <3>1 DEF CallFails
  <2>6. CASE Restart(w)
    <3>1. job'[w] = <<>> /\ pc'[w] = "idle" /\ spec' = spec /\ goal' = goal
          BY <1>0, <2>6, WriterFacts DEF Restart
    <3>2. Pending(w)'
          BY <3>1 DEF Pending
    <3>3. ASSUME NEW u \in Controllers, u # w PROVE Pending(u)'
      <4>1. job'[u] = job[u] /\ pc'[u] = pc[u]
            BY <1>0, <2>6, <3>3, WriterFacts DEF Restart
      <4>2. QED BY <1>0, <3>1, <4>1, PendingWhileOthersWrite
    <3>4. QED BY <1>0, <3>1, <3>2, <3>3 DEF PendingChanges
  <2>7. QED
        BY <1>4, <2>1, <2>2, <2>3, <2>4, <2>5, <2>6 DEF Reconcile
<1>5. CASE ResetCluster
  <2>1. job' = job /\ goal' = goal /\ \A u \in Controllers : pc'[u] = pc[u]
        BY <1>0, <1>5, WriterFacts
        DEF ResetCluster, ResetGoto, ResetBegin, EnsureMaxSyncReplicasZero, SyncPatch, SyncFails,
            InstancesGet, InstancesPatch, InstancesFail, PodsReady, WaitTimesOut, ChecklistFixes
  <2>2. \A f \in Volumes : spec'[f] = spec[f]
        BY <1>0, <1>5, WriterFacts
        DEF ResetCluster, Store, OneInstance, ResetBegin, EnsureMaxSyncReplicasZero, SyncPatch,
            SyncFails, InstancesGet, InstancesPatch, InstancesFail, PodsReady, WaitTimesOut,
            ChecklistFixes
  <2>3. QED BY <1>1, <2>1, <2>2
<1>6. CASE UNCHANGED vars
      BY <1>1, <1>6 DEF vars
<1>7. QED
      BY <1>2, <1>3, <1>4, <1>5, <1>6 DEF Next

(* Every step keeps a clean reset undisturbed, and its result.             *)
LEMMA ResetStep == Inv /\ [Next]_vars => ResetUndisturbed' /\ ResetHolds'
<1> SUFFICES ASSUME Inv, [Next]_vars PROVE ResetUndisturbed' /\ ResetHolds'
    OBVIOUS
<1> USE WriterFacts
<1>0. /\ spec \in [Fields -> Nat] /\ copy \in [Writers -> [Fields -> Nat]]
      /\ pc \in [Writers -> ResetPcs \cup {"get", "update"}] /\ pods \in Nat
      /\ ResetUndisturbed /\ ResetHolds
      BY DEF Inv, TypeOK
<1>1. ASSUME spec' = spec, pc'["reset"] = pc["reset"], copy'["reset"] = copy["reset"],
             clean' = clean, pods' = pods
      PROVE  ResetUndisturbed' /\ ResetHolds'
      BY <1>0, <1>1 DEF ResetUndisturbed, ResetHolds
<1>2. CASE ChangeGoal
      BY <1>1, <1>2 DEF ChangeGoal
<1>3. CASE Operator
  <2>1. CASE StatusUpdate BY <1>1, <2>1 DEF StatusUpdate
  <2>2. CASE Revert
    <3>1. spec["maxSync"] \in Nat /\ spec["instances"] > 0 /\ spec["maxSync"] # 0
          BY <1>0, <2>2 DEF Revert, ResetUndisturbed
    <3>2. spec'["instances"] > 0 /\ spec'["maxSync"] = spec["maxSync"]
          BY <1>0, <2>2, <3>1, GoalAssumption DEF Revert
    <3>3. pc["reset"] \in {"idle", "sync", "syncPatch", "failed"} \/ ~clean
          BY <1>0, <3>1 DEF ResetUndisturbed
    <3>4. QED
          BY <1>0, <2>2, <3>2, <3>3 DEF Revert, ResetUndisturbed, ResetHolds
  <2>3. CASE StartPod
    <3>1. ~ (pc["reset"] = "ok" /\ clean)
          BY <1>0, <2>3 DEF StartPod, ResetHolds
    <3>2. QED
          BY <1>0, <2>3, <3>1 DEF StartPod, ResetUndisturbed, ResetHolds
  <2>4. CASE StopPod
    <3>1. ~ (pc["reset"] = "ok" /\ clean)
          BY <1>0, <2>4 DEF StopPod, ResetHolds
    <3>2. QED
          BY <1>0, <2>4, <3>1 DEF StopPod, ResetUndisturbed, ResetHolds
  <2>5. QED BY <1>3, <2>1, <2>2, <2>3, <2>4 DEF Operator
<1>4. ASSUME NEW w \in Controllers, Reconcile(w) PROVE ResetUndisturbed' /\ ResetHolds'
  <2>0. w # "reset"
        OBVIOUS
  <2>1. CASE Decide(w) BY <1>0, <1>1, <2>0, <2>1 DEF Decide
  <2>2. CASE Get(w) BY <1>0, <1>1, <2>0, <2>2 DEF Get
  <2>3. CASE Update(w)
    <3>1. /\ job[w] # <<>> /\ Head(job[w]) \in ChangeRecord /\ Head(job[w]).field \in Owns[w]
          /\ spec' = [spec EXCEPT ![Head(job[w]).field] = Head(job[w]).value]
          BY <2>3, UpdateFacts DEF Inv
    <3>2. Head(job[w]).value > 0
          BY <3>1, JobFacts DEF Inv, PendingChanges, Pending
    <3>3. /\ pc'["reset"] = pc["reset"] /\ copy'["reset"] = copy["reset"] /\ pods' = pods
          /\ clean' = (clean /\ w # "scale")
          BY <1>0, <2>0, <2>3 DEF Update, Advance
    <3>4. spec'["instances"] > 0 /\ spec'["maxSync"] = spec["maxSync"]
          BY <1>0, <3>1, <3>2 DEF ResetUndisturbed
    <3>5. w = "storage" => spec'["instances"] = spec["instances"]
          BY <1>0, <3>1
    <3>6. QED
          BY <1>0, <3>3, <3>4, <3>5 DEF ResetUndisturbed, ResetHolds
  <2>4. CASE Conflict(w) BY <1>0, <1>1, <2>0, <2>4 DEF Conflict, Advance
  <2>5. CASE CallFails(w) BY <1>0, <1>1, <2>0, <2>5 DEF CallFails, Advance
  <2>6. CASE Restart(w) BY <1>0, <1>1, <2>0, <2>6 DEF Restart
  <2>7. QED
        BY <1>4, <2>1, <2>2, <2>3, <2>4, <2>5, <2>6 DEF Reconcile
<1>5. CASE ResetCluster
  <2> USE <1>0 DEF ResetGoto, ResetDone, ResetPcs, ResetUndisturbed, ResetHolds
  <2>1. CASE ResetBegin BY <2>1 DEF ResetBegin
  <2>2. CASE EnsureMaxSyncReplicasZero BY <2>2 DEF EnsureMaxSyncReplicasZero
  <2>3. CASE SyncPatch BY <2>3 DEF SyncPatch, Store
  <2>4. CASE SyncFails BY <2>4 DEF SyncFails
  <2>5. CASE InstancesGet BY <2>5 DEF InstancesGet, NoCopy
  <2>6. CASE InstancesPatch BY <2>6 DEF InstancesPatch, Store, OneInstance
  <2>7. CASE InstancesFail BY <2>7 DEF InstancesFail
  <2>8. CASE PodsReady BY <2>8 DEF PodsReady
  <2>9. CASE WaitTimesOut BY <2>9 DEF WaitTimesOut
  <2>10. CASE ChecklistFixes BY <2>10 DEF ChecklistFixes
  <2>11. QED
        BY <1>5, <2>1, <2>2, <2>3, <2>4, <2>5, <2>6, <2>7, <2>8, <2>9, <2>10 DEF ResetCluster
<1>6. CASE UNCHANGED vars
      BY <1>1, <1>6 DEF vars
<1>7. QED
      BY <1>2, <1>3, <1>4, <1>5, <1>6 DEF Next

(* The invariant of ClusterWriters holds: the types, copies that have the  *)
(* current version are current, pending changes enlarge, and a clean reset *)
(* is undisturbed.                                                         *)
THEOREM InvariantHolds == Spec => []Inv
<1>1. Init => Inv
  <2> SUFFICES ASSUME Init PROVE Inv
      OBVIOUS
  <2> USE SpecAssumption, WriterFacts DEF Init
  <2>1. TypeOK
    <3>1. NoCopy \in [Fields -> Nat] /\ "idle" \in ResetPcs
          BY DEF NoCopy, ResetPcs, ResetDone
    <3>2. spec \in [Fields -> Nat] /\ spec["instances"] \in Nat
          OBVIOUS
    <3>3. job \in [Controllers -> Seq([field : Fields, value : Nat])]
          OBVIOUS
    <3>4. QED
          BY <3>1, <3>2, <3>3 DEF TypeOK
  <2>2. FreshIsCurrent /\ ResetUndisturbed /\ ResetHolds
    <3>1. pc["reset"] = "idle" /\ "idle" \in ResetPcs /\ spec["instances"] > 0 /\ fresh = {}
          BY DEF ResetPcs, ResetDone
    <3>2. QED
          BY <3>1 DEF FreshIsCurrent, ResetUndisturbed, ResetHolds
  <2>3. PendingChanges
        BY DEF PendingChanges, Pending
  <2>4. QED BY <2>1, <2>2, <2>3 DEF Inv
<1>2. Inv /\ [Next]_vars => Inv'
      BY TypeStep, FreshStep, PendingStep, ResetStep DEF Inv
<1>3. QED
      BY <1>1, <1>2, PTL DEF Spec

(* A reset that succeeded cleanly holds: one instance, one pod.            *)
THEOREM CleanResetHolds == Spec => []ResetHolds
<1>1. Inv => ResetHolds
      BY DEF Inv
<1>2. QED
      BY <1>1, InvariantHolds, PTL

-----------------------------------------------------------------------------
(* The refinement.  The change each writer has in mind, under the mapping. *)
None == [field |-> "none", value |-> 0]

IntentsOwned ==
    \A w \in Writers : Intent(w) \in [field : Owns[w], value : Nat] \cup {None}

(* Every writer has a change of its own field in mind, or none.            *)
LEMMA IntentFacts == Inv => IntentsOwned
<1> SUFFICES ASSUME TypeOK, PendingChanges, NEW w \in Writers
             PROVE  Intent(w) \in [field : Owns[w], value : Nat] \cup {None}
    BY DEF Inv, IntentsOwned
<1>1. CASE w = "reset"
      BY <1>1, WriterFacts DEF Intent, None
<1>2. CASE w \in Controllers /\ job[w] = <<>>
      BY <1>2, WriterFacts DEF Intent, None
<1>3. CASE w \in Controllers /\ job[w] # <<>>
  <2>1. Head(job[w]) \in ChangeRecord /\ Head(job[w]).field \in Owns[w]
        BY <1>3, JobFacts DEF PendingChanges, Pending
  <2>2. Intent(w) = Head(job[w])
        BY <1>3, WriterFacts DEF Intent
  <2>3. QED
        BY <2>1, <2>2 DEF ChangeRecord
<1>4. QED
      BY <1>1, <1>2, <1>3 DEF Writers

(* A step of one writer leaves the intents of the others alone.            *)
LEMMA OthersKeepIntent ==
    ASSUME TypeOK, NEW w \in Writers,
           \A u \in Writers \ {w} : pc'[u] = pc[u],
           \A u \in Controllers \ {w} : job'[u] = job[u]
    PROVE  [u \in Writers |-> Intent(u)]'
             = [[u \in Writers |-> Intent(u)] EXCEPT ![w] = Intent(w)']
<1>1. ASSUME NEW u \in Writers, u # w PROVE Intent(u)' = Intent(u)
  <2>1. CASE u = "reset" BY <1>1, <2>1 DEF Intent
  <2>2. CASE u \in Controllers BY <1>1, <2>2, WriterFacts DEF Intent
  <2>3. QED BY <2>1, <2>2 DEF Writers
<1>2. QED
      BY <1>1

(* Such a step is a change of mind if it leaves the spec alone.            *)
LEMMA ChooseStep ==
    ASSUME Inv, Inv', NEW w \in Writers,
           \A u \in Writers \ {w} : pc'[u] = pc[u],
           \A u \in Controllers \ {w} : job'[u] = job[u],
           UNCHANGED spec
    PROVE  Promised!Choose(w)
<1>1. Intent(w)' \in [field : Owns[w], value : Nat] \cup {None}
  <2>1. Inv' => IntentsOwned'
        BY IntentFacts, PTL
  <2>2. QED BY <2>1 DEF IntentsOwned
<1>2. [u \in Writers |-> Intent(u)]'
        = [[u \in Writers |-> Intent(u)] EXCEPT ![w] = Intent(w)']
      BY OthersKeepIntent DEF Inv
<1>3. QED
      BY <1>1, <1>2 DEF Promised!Choose, Promised!Reconsider, Promised!NoIntent, None

(* It is a write if the intended field gets the intended value.            *)
LEMMA WriteStep ==
    ASSUME Inv, Inv', NEW w \in Writers,
           \A u \in Writers \ {w} : pc'[u] = pc[u],
           \A u \in Controllers \ {w} : job'[u] = job[u],
           Intent(w) # None,
           Intent(w).field \in Volumes => Intent(w).value > spec[Intent(w).field],
           spec' = [spec EXCEPT ![Intent(w).field] = Intent(w).value]
    PROVE  Promised!Write(w)
<1>1. Intent(w)' \in [field : Owns[w], value : Nat] \cup {None}
  <2>1. Inv' => IntentsOwned'
        BY IntentFacts, PTL
  <2>2. QED BY <2>1 DEF IntentsOwned
<1>2. [u \in Writers |-> Intent(u)]'
        = [[u \in Writers |-> Intent(u)] EXCEPT ![w] = Intent(w)']
      BY OthersKeepIntent DEF Inv
<1>3. QED
      BY <1>1, <1>2
      DEF Promised!Write, Promised!Reconsider, Promised!NoIntent, Promised!Volumes, Volumes, None

(* Every step of the writers is a step of the abstract specification.      *)
LEMMA RefinementStep ==
    Inv /\ Inv' /\ [Next]_vars
        => [Promised!Next]_<<spec, [w \in Writers |-> Intent(w)]>>
<1> SUFFICES ASSUME Inv, Inv', [Next]_vars
             PROVE  [Promised!Next]_<<spec, [w \in Writers |-> Intent(w)]>>
    OBVIOUS
<1> DEFINE Goal == [Promised!Next]_<<spec, [w \in Writers |-> Intent(w)]>>
<1>0. /\ spec \in [Fields -> Nat] /\ pc \in [Writers -> ResetPcs \cup {"get", "update"}]
      /\ job \in [Controllers -> Seq([field : Fields, value : Nat])]
      BY DEF Inv, TypeOK
<1>1. ASSUME NEW w \in Writers, Promised!Choose(w) \/ Promised!Write(w) PROVE Goal
      BY <1>1 DEF Promised!Next
<1>2. ASSUME pc' = pc, job' = job, spec' = spec PROVE Goal
      BY <1>2 DEF Intent
<1>3. CASE ChangeGoal BY <1>2, <1>3 DEF ChangeGoal
<1>4. CASE Operator
  <2>1. CASE Revert
    <3>1. PICK n \in (spec["maxSync"] + 1)..MaxInstances : spec' = [spec EXCEPT !["instances"] = n]
          BY <2>1 DEF Revert
    <3>2. /\ n \in Nat /\ n > spec["maxSync"] /\ spec'["instances"] = n
          BY <1>0, <3>1, WriterFacts, GoalAssumption
    <3>3. [w \in Writers |-> Intent(w)]' = [w \in Writers |-> Intent(w)]
          BY <2>1 DEF Revert, Intent
    <3>4. Promised!Revert
          BY <2>1, <3>1, <3>2, <3>3 DEF Revert, Promised!Revert
    <3>5. QED BY <3>4 DEF Promised!Next
  <2>2. CASE StatusUpdate \/ StartPod \/ StopPod
        BY <1>2, <2>2 DEF StatusUpdate, StartPod, StopPod
  <2>3. QED BY <1>4, <2>1, <2>2 DEF Operator
<1>5. ASSUME NEW w \in Controllers, Reconcile(w) PROVE Goal
  <2>0. w \in Writers /\ w # "reset"
        BY WriterFacts
  <2>1. /\ \A u \in Writers \ {w} : pc'[u] = pc[u]
        /\ \A u \in Controllers \ {w} : job'[u] = job[u]
        BY <1>0, <1>5 DEF Reconcile, Decide, Get, Update, Conflict, CallFails, Restart, Advance
  <2>2. CASE Update(w)
    <3>1. /\ job[w] # <<>> /\ Head(job[w]) \in ChangeRecord /\ Head(job[w]).field \in Owns[w]
          /\ spec' = [spec EXCEPT ![Head(job[w]).field] = Head(job[w]).value]
          BY <2>2, UpdateFacts DEF Inv
    <3>2. Intent(w) = Head(job[w]) /\ Head(job[w]) # None
      <4>1. Intent(w) = Head(job[w])
            BY <2>0, <3>1 DEF Intent
      <4>2. Head(job[w]).field # "none" /\ None.field = "none"
            BY <3>1, WriterFacts DEF Fields, None
      <4>3. QED BY <4>1, <4>2
    <3>3. Head(job[w]).field \in Volumes => w = "storage"
          BY <3>1, WriterFacts
    <3>4. w = "storage" => Head(job[w]).value > spec[Head(job[w]).field]
          BY <3>1, JobFacts DEF Inv, PendingChanges, Pending
    <3>5. Promised!Write(w)
          BY <2>0, <2>1, <3>1, <3>2, <3>3, <3>4, WriteStep
    <3>6. QED BY <1>1, <2>0, <3>5
  <2>3. CASE ~Update(w)
    <3>1. UNCHANGED spec
          BY <1>5, <2>3 DEF Reconcile, Decide, Get, Conflict, CallFails, Restart
    <3>2. QED BY <1>1, <2>0, <2>1, <3>1, ChooseStep
  <2>4. QED BY <2>2, <2>3
<1>6. CASE ResetCluster
  <2>0. "reset" \in Writers
        BY WriterFacts
  <2>1. /\ \A u \in Writers \ {"reset"} : pc'[u] = pc[u]
        /\ \A u \in Controllers \ {"reset"} : job'[u] = job[u]
        BY <1>0, <1>6
        DEF ResetCluster, ResetGoto, ResetBegin, EnsureMaxSyncReplicasZero, SyncPatch, SyncFails,
            InstancesGet, InstancesPatch, InstancesFail, PodsReady, WaitTimesOut, ChecklistFixes
  <2>2. CASE UNCHANGED spec
        BY <1>1, <2>0, <2>1, <2>2, ChooseStep
  <2>3. CASE SyncPatch
    <3>1. /\ Intent("reset") = [field |-> "maxSync", value |-> 0]
          /\ spec' = [spec EXCEPT !["maxSync"] = 0]
          BY <2>3 DEF SyncPatch, ResetGoto, Store, Intent
    <3>2. Intent("reset") # None /\ Intent("reset").field \notin Volumes
          BY <3>1 DEF None, Volumes
    <3>3. spec' = [spec EXCEPT ![Intent("reset").field] = Intent("reset").value]
      <4> DEFINE i == Intent("reset")
      <4>1. i.field = "maxSync" /\ i.value = 0
            BY <3>1
      <4> HIDE DEF i
      <4>2. spec' = [spec EXCEPT ![i.field] = i.value]
            BY <3>1, <4>1
      <4>3. QED BY <4>2 DEF i
    <3>4. Promised!Write("reset")
          BY <2>0, <2>1, <3>2, <3>3, WriteStep
    <3>5. QED BY <1>1, <2>0, <3>4
  <2>4. CASE InstancesPatch /\ spec' # spec
    <3>1. /\ Intent("reset") = [field |-> "instances", value |-> 1]
          /\ spec' = [spec EXCEPT !["instances"] = 1]
          BY <2>4 DEF InstancesPatch, ResetGoto, Store, OneInstance, Intent
    <3>2. Intent("reset") # None /\ Intent("reset").field \notin Volumes
          BY <3>1 DEF None, Volumes
    <3>3. spec' = [spec EXCEPT ![Intent("reset").field] = Intent("reset").value]
      <4> DEFINE i == Intent("reset")
      <4>1. i.field = "instances" /\ i.value = 1
            BY <3>1
      <4> HIDE DEF i
      <4>2. spec' = [spec EXCEPT ![i.field] = i.value]
            BY <3>1, <4>1
      <4>3. QED BY <4>2 DEF i
    <3>4. Promised!Write("reset")
          BY <2>0, <2>1, <3>2, <3>3, WriteStep
    <3>5. QED BY <1>1, <2>0, <3>4
  <2>5. QED
        BY <1>6, <2>2, <2>3, <2>4
        DEF ResetCluster, ResetBegin, EnsureMaxSyncReplicasZero, SyncFails,
            InstancesGet, InstancesFail, PodsReady, WaitTimesOut, ChecklistFixes
<1>7. CASE UNCHANGED vars
      BY <1>2, <1>7 DEF vars
<1>8. QED
      BY <1>3, <1>4, <1>5, <1>6, <1>7 DEF Next

(* The writers of the Cluster resource implement writes of single fields:  *)
(* no whole-object update of one controller and no patch of the reset step *)
(* puts back what another wrote, and volumes never shrink.                 *)
THEOREM Refinement == Spec => WritesAsPromised
<1>1. Init => Promised!Init
  <2> SUFFICES ASSUME Init PROVE Promised!Init
      OBVIOUS
  <2>1. spec \in [Fields -> Nat]
        BY SpecAssumption DEF Init
  <2>2. ASSUME NEW w \in Writers PROVE Intent(w) = None
        BY WriterFacts DEF Init, Intent, None, Writers
  <2>3. QED
        BY <2>1, <2>2 DEF Promised!Init, Promised!Fields, Fields, Promised!NoIntent, None
<1>2. QED
      BY <1>1, InvariantHolds, RefinementStep, PTL DEF Spec, WritesAsPromised, Promised!Spec
=============================================================================
