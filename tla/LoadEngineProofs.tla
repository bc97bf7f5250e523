-------------------------- MODULE LoadEngineProofs --------------------------
(***************************************************************************)
(* What holds of the load generator for any number of workers, addresses,  *)
(* scenarios and rates.                                                    *)
(***************************************************************************)
EXTENDS LoadEngine, FiniteSetTheorems, TLAPS

(* Any scenario gives an integral number of 1/Scale at any time.           *)
LEMMA RateInt ==
    ASSUME NEW p, IsPattern(p), NEW t
    PROVE  RPS(p, t) \in Int
<1>1. Scale \in Nat /\ p \in Seq(Step) /\ Len(p) \in DOMAIN p
    BY ScaleAssumption DEF IsPattern
<1>2. CASE At(p, t) = {}
  <2>0. p[Len(p)] \in Step
    BY <1>1
  <2>1. p[Len(p)].rps \in Int /\ p[Len(p)].endRps \in Int
    BY <2>0 DEF Step
  <2> QED
    BY <1>1, <1>2, <2>1, SMTT(30) DEF RPS, Held
<1>3. CASE At(p, t) # {}
  <2> DEFINE i == CHOOSE i \in At(p, t) : TRUE
             u == t - Cumul(p)[i - 1]
  <2>1. i \in DOMAIN p /\ u \in 0..(p[i].duration - 1)
    BY <1>3 DEF At
  <2>2. RPS(p, t) = Within(p[i], u)
    BY <1>3 DEF RPS
  <2> HIDE DEF i, u
  <2>3. p[i] \in Step
    BY <1>1, <2>1
  <2>4. p[i].rps \in Int /\ p[i].endRps \in Int /\ p[i].duration \in Int /\ u \in Int
        /\ p[i].duration > 0
    BY <2>1, <2>3 DEF Step
  <2>5. Scale \div p[i].duration \in Int
    BY <1>1, <2>4
  <2> QED
    BY <1>1, <2>2, <2>4, <2>5, SMTT(30) DEF Within
<1> QED
    BY <1>2, <1>3

-----------------------------------------------------------------------------
(* The limit and the burst for an integral rate are integers, and a rate   *)
(* with a finite limit has a burst of at least 1.                          *)
LEMMA BurstType ==
    ASSUME NEW r \in Int
    PROVE  /\ Limit(r) \in Int /\ Burst(r) \in Int
           /\ Burst(r) = 0 => r <= 0
           /\ Limit(r) # 0 => Burst(r) >= 1
<1>1. r \div Scale \in Int
    BY ScaleAssumption
<1> QED
    BY <1>1 DEF Limit, Burst

(* The rates drivePattern sets are integers, and so is the cap.            *)
LEMMA RateType ==
    ASSUME TypeOK, driver = "off" => tick = 0, driver # "off" => config.scenario # <<>>
    PROVE  /\ Before \in Int
           /\ driver # "off" => Rate \in Int
<1>1. config \in Flags /\ tick \in Nat
    BY DEF TypeOK
<1>2. config.maxRPS \in Int
    BY <1>1, FlagsAssumption
<1>3. ASSUME driver # "off" PROVE Rate \in Int /\ RPS(config.scenario, tick - 1) \in Int
  <2>1. IsPattern(config.scenario)
    BY <1>1, <1>3, FlagsAssumption
  <2> QED
    BY <2>1, RateInt DEF Rate
<1> QED
    BY <1>2, <1>3 DEF Before

(* TypeOK in two parts, the records and the rest.                          *)
RecordTypes ==
    /\ limiter \in [limit : Int, burst : Int]
    /\ stats \in [hist : Nat, ops : Nat, errors : Nat, intervalOps : Nat, intervalErr : Nat]
    /\ reported \in [ops : Nat, errors : Nat]
    /\ happened \in [ops : Nat, errors : Nat]
    /\ summary \in [ops : Nat, errors : Nat]

OtherTypes ==
    /\ config \in Flags /\ waves \in Seq(SUBSET Ips) /\ waves # <<>>
    /\ main \in {"start", "starting", "prepare", "preparing", "warm", "warming", "warmed",
                 "working", "close", "closing", "returned", "exited"}
    /\ ctx \in {"live", "timeout", "signal"} /\ failed \in BOOLEAN
    /\ disc \in {"off", "idle", "lock", "locked"}
    /\ lock \in {None, "discover", "close"}
    /\ found \subseteq Ips /\ pods \subseteq Ips \ Unparsable /\ open \subseteq Pools
    /\ closing \subseteq Pools /\ draining \in Pools \cup {None}
    /\ chosen \in [Workers \cup {Main} -> Pools \cup {None, Gone}]
    /\ warm \in Seq(Pools)
    /\ pc \in [Workers -> WorkerPcs]
    /\ err \subseteq Workers /\ started \in Nat
    /\ driver \in {"off", "limit", "burst", "idle"} /\ tick \in Nat
    /\ reporter \in {"off", "idle", "swapOps", "swapErr", "ended"}

(* Whatever is well typed is so in both parts.                             *)
LEMMA TypeParts ==
    ASSUME TypeOK
    PROVE  RecordTypes /\ OtherTypes
BY Zenon DEF TypeOK, RecordTypes, OtherTypes

(* And conversely, for the state a step leads to.                          *)
LEMMA TypeWhole ==
    ASSUME RecordTypes', OtherTypes'
    PROVE  TypeOK'
BY Zenon DEF TypeOK, RecordTypes, OtherTypes

(* Every step keeps the state well typed.                                  *)
LEMMA TypeStep ==
    ASSUME TypeOK, Connected, LimiterFollows, [Next]_vars
    PROVE  TypeOK'
<1>0. RecordTypes /\ OtherTypes
    BY TypeParts
<1>1. ASSUME Start PROVE TypeOK'
  <2>1. failed' \in BOOLEAN
    BY <1>1, Zenon DEF Start, TypeOK
  <2>2. open' \subseteq Pools
    BY <1>1 DEF Start, TypeOK, Pools
  <2> QED
    BY <1>1, <2>1, <2>2 DEF Start, TypeOK, flow, discover, work, rate, counts
<1>2. ASSUME PreparePick PROVE TypeOK'
    BY <1>2 DEF PreparePick, TypeOK, flow, discover, work, rate, counts, Pools
<1>3. ASSUME Prepare PROVE TypeOK'
  <2>1. failed' \in BOOLEAN
    BY <1>3, Zenon DEF Prepare, TypeOK
  <2> QED
    BY <1>3, <2>1 DEF Prepare, TypeOK, flow, discover, work, rate, counts
<1>4. ASSUME WarmPick PROVE TypeOK'
  <2>1. UNCHANGED <<config, waves, failed, ctx, discover, warm, work, rate, counts>>
    BY <1>4 DEF WarmPick
  <2>2. main' \in {"warming", "warmed"}
    BY <1>4 DEF WarmPick
  <2>3. chosen' \in [Workers \cup {Main} -> Pools \cup {None, Gone}]
    BY <1>4 DEF WarmPick, TypeOK, Pools
  <2> QED
    BY <2>1, <2>2, <2>3 DEF TypeOK, flow, discover, work, rate, counts
<1>5. ASSUME WarmAcquire PROVE TypeOK'
  <2>1. UNCHANGED <<config, waves, failed, ctx, discover, work, rate, counts>>
    BY <1>5 DEF WarmAcquire
  <2>2. main' \in {"warm", "warmed"}
    BY <1>5 DEF WarmAcquire
  <2>3. chosen' \in [Workers \cup {Main} -> Pools \cup {None, Gone}]
    BY <1>5 DEF WarmAcquire, TypeOK
  <2>4. chosen[Main] # Gone => chosen[Main] \in Pools
    BY <1>5 DEF WarmAcquire, Connected, TypeOK
  <2>5. warm \in Seq(Pools)
    BY DEF TypeOK
  <2>6. warm' \in Seq(Pools)
    BY <1>5, <2>4, <2>5 DEF WarmAcquire
  <2> QED
    BY <2>1, <2>2, <2>3, <2>4, <2>5, <2>6 DEF TypeOK, flow, discover, work, rate, counts
<1>6. ASSUME Spawn PROVE TypeOK'
    BY <1>6 DEF Spawn, TypeOK, flow, discover, work, rate, counts, WorkerPcs
<1>7. ASSUME Summarise PROVE TypeOK'
    BY <1>7 DEF Summarise, TypeOK, flow, discover, work, rate, counts
<1>8. ASSUME CloseLocks PROVE TypeOK'
    BY <1>8 DEF CloseLocks, TypeOK, flow, discover, work, rate, counts, Pools
<1>9. ASSUME Return PROVE TypeOK'
    BY <1>9 DEF Return, TypeOK, flow, discover, work, rate, counts
<1>10. ASSUME NEW w \in Workers, Top(w) PROVE TypeOK'
    BY <1>10 DEF Top, TypeOK, flow, discover, work, rate, counts, Goto, WorkerPcs, Holding
<1>11. ASSUME NEW w \in Workers, WaitGrants(w) PROVE TypeOK'
    BY <1>11 DEF WaitGrants, TypeOK, flow, discover, work, rate, counts, Goto, WorkerPcs,
       Holding
<1>12. ASSUME NEW w \in Workers, WaitFails(w) PROVE TypeOK'
    BY <1>12 DEF WaitFails, TypeOK, flow, discover, work, rate, counts, Goto, WorkerPcs,
       Holding
<1>13. ASSUME NEW w \in Workers, Pick(w) PROVE TypeOK'
  <2>1. happened' \in [ops : Nat, errors : Nat] /\ err' \subseteq Workers
    <3>1. happened \in [ops : Nat, errors : Nat] /\ err \subseteq Workers
      BY <1>0 DEF RecordTypes, OtherTypes
    <3>2. \/ UNCHANGED <<err, happened>>
          \/ /\ err' = err \cup {w}
             /\ happened' = [ops |-> happened.ops + 1, errors |-> happened.errors + 1]
      BY <1>13 DEF Pick
    <3> QED
      BY <3>1, <3>2
  <2>2. chosen' \in [Workers \cup {Main} -> Pools \cup {None, Gone}]
    BY <1>0, <1>13 DEF Pick, OtherTypes, Pools
  <2>3. pc' \in [Workers -> WorkerPcs]
    BY <1>0, <1>13 DEF Pick, OtherTypes, Goto, WorkerPcs, Holding
  <2>4. UNCHANGED <<config, waves, flow, discover, warm, started, rate, reporter, stats,
     reported, summary>>
    BY <1>13 DEF Pick
  <2>5. RecordTypes'
    BY <1>0, <2>1, <2>4 DEF RecordTypes, rate
  <2>6. OtherTypes'
    BY <1>0, <2>1, <2>2, <2>3, <2>4 DEF OtherTypes, flow, discover, rate
  <2> QED
    BY <2>5, <2>6, TypeWhole
<1>14. ASSUME NEW w \in Workers, Acquire(w) PROVE TypeOK'
    BY <1>14 DEF Acquire, TypeOK, flow, discover, work, rate, counts, Goto, WorkerPcs, Holding
<1>15. ASSUME NEW w \in Workers, AcquireFails(w) PROVE TypeOK'
  <2>1. UNCHANGED <<config, waves, flow, discover, warm, started, rate, reporter, stats,
     reported, summary>>
    BY <1>15 DEF AcquireFails
  <2>2. RecordTypes'
    BY <1>0, <1>15, <2>1 DEF AcquireFails, RecordTypes, rate
  <2>3. OtherTypes'
    BY <1>0, <1>15, <2>1 DEF AcquireFails, OtherTypes, flow, discover, rate, Goto, WorkerPcs, Holding
  <2> QED
    BY <2>2, <2>3, TypeWhole
<1>16. ASSUME NEW w \in Workers, Execute(w) PROVE TypeOK'
  <2>1. UNCHANGED <<config, waves, flow, discover, chosen, warm, started, rate, reporter,
     stats, reported, summary>>
    BY <1>16 DEF Execute
  <2>2. happened \in [ops : Nat, errors : Nat] /\ err \subseteq Workers
    BY <1>0 DEF RecordTypes, OtherTypes
  <2>3. happened' \in [ops : Nat, errors : Nat] /\ err' \subseteq Workers
    BY <1>16, <2>2 DEF Execute
  <2>4. pc' \in [Workers -> WorkerPcs]
    BY <1>16 DEF Execute, TypeOK, Goto, WorkerPcs, Holding
  <2>5. RecordTypes'
    BY <1>0, <2>1, <2>3, <2>4 DEF RecordTypes, rate
  <2>6. OtherTypes'
    BY <1>0, <2>1, <2>3, <2>4 DEF OtherTypes, flow, discover, rate
  <2> QED
    BY <2>5, <2>6, TypeWhole
<1>17. ASSUME NEW w \in Workers, Record(w) PROVE TypeOK'
  <2>1. UNCHANGED <<config, waves, flow, discover, chosen, warm, err, started, rate, reporter,
     reported, happened, summary>>
    BY <1>17 DEF Record
  <2>2. stats \in [hist : Nat, ops : Nat, errors : Nat, intervalOps : Nat, intervalErr : Nat]
    BY <1>0 DEF RecordTypes, OtherTypes
  <2>3. /\ stats.hist + 1 \in Nat /\ stats.ops + 1 \in Nat /\ stats.intervalOps + 1 \in Nat
    BY <2>2
  <2>4. stats' \in [hist : Nat, ops : Nat, errors : Nat, intervalOps : Nat, intervalErr : Nat]
    BY <1>17, <2>2, <2>3 DEF Record
  <2>5. pc' \in [Workers -> WorkerPcs]
    BY <1>17 DEF Record, TypeOK, Goto, WorkerPcs, Holding
  <2>6. RecordTypes'
    BY <1>0, <2>1, <2>4, <2>5 DEF RecordTypes, rate
  <2>7. OtherTypes'
    BY <1>0, <2>1, <2>4, <2>5 DEF OtherTypes, flow, discover, rate
  <2> QED
    BY <2>6, <2>7, TypeWhole
<1>18. ASSUME NEW w \in Workers, RecordError(w) PROVE TypeOK'
  <2>1. UNCHANGED <<config, waves, flow, discover, chosen, warm, err, started, rate, reporter,
     reported, happened, summary>>
    BY <1>18 DEF RecordError
  <2>2. stats \in [hist : Nat, ops : Nat, errors : Nat, intervalOps : Nat, intervalErr : Nat]
    BY <1>0 DEF RecordTypes, OtherTypes
  <2>3. stats.errors + 1 \in Nat /\ stats.intervalErr + 1 \in Nat
    BY <2>2
  <2>4. stats' \in [hist : Nat, ops : Nat, errors : Nat, intervalOps : Nat, intervalErr : Nat]
    BY <1>18, <2>2, <2>3 DEF RecordError
  <2>5. pc' \in [Workers -> WorkerPcs]
    BY <1>18 DEF RecordError, TypeOK, Goto, WorkerPcs, Holding
  <2>6. RecordTypes'
    BY <1>0, <2>1, <2>4, <2>5 DEF RecordTypes, rate
  <2>7. OtherTypes'
    BY <1>0, <2>1, <2>4, <2>5 DEF OtherTypes, flow, discover, rate
  <2> QED
    BY <2>6, <2>7, TypeWhole
<1>19. ASSUME NEW w \in Workers, Release(w) PROVE TypeOK'
    BY <1>19 DEF Release, TypeOK, flow, discover, work, rate, counts, Goto, WorkerPcs, Holding
<1>20. ASSUME NEW b \in {"discover", "close"}, CloseEnds(b) PROVE TypeOK'
    BY <1>20 DEF CloseEnds, TypeOK, flow, discover, work, rate, counts
<1>21. ASSUME NEW b \in {"discover", "close"}, NEW p \in Pools, CloseBegins(b, p) PROVE TypeOK'
    BY <1>21 DEF CloseBegins, TypeOK, flow, discover, work, rate, counts, Refuse
<1>22. ASSUME Lookup PROVE TypeOK'
    BY <1>22 DEF Lookup, TypeOK, flow, discover, work, rate, counts, dns
<1>23. ASSUME LookupFails PROVE TypeOK'
    BY <1>23 DEF LookupFails, TypeOK, flow, discover, work, rate, counts
<1>24. ASSUME DiscoverEnds PROVE TypeOK'
    BY <1>24 DEF DiscoverEnds, TypeOK, flow, discover, work, rate, counts
<1>25. ASSUME DiscoverLocks PROVE TypeOK'
    BY <1>25 DEF DiscoverLocks, TypeOK, flow, discover, work, rate, counts, Pools
<1>26. ASSUME DiscoverUnlocks PROVE TypeOK'
    BY <1>26 DEF DiscoverUnlocks, TypeOK, flow, discover, work, rate, counts
<1>27. ASSUME ReportTick PROVE TypeOK'
    BY <1>27 DEF ReportTick, TypeOK, flow, discover, work, rate, counts
<1>28. ASSUME SwapOps PROVE TypeOK'
  <2>1. UNCHANGED <<config, waves, flow, discover, chosen, warm, work, rate, happened, summary>>
    BY <1>28 DEF SwapOps
  <2>2. stats \in [hist : Nat, ops : Nat, errors : Nat, intervalOps : Nat, intervalErr : Nat] /\ reported \in [ops : Nat, errors : Nat]
    BY <1>0 DEF RecordTypes, OtherTypes
  <2>3. stats' \in [hist : Nat, ops : Nat, errors : Nat, intervalOps : Nat, intervalErr : Nat]
    BY <1>28, <2>2 DEF SwapOps
  <2>4. reported' \in [ops : Nat, errors : Nat] /\ reporter' = "swapErr"
    BY <1>28, <2>2 DEF SwapOps
  <2>5. RecordTypes'
    BY <1>0, <2>1, <2>3, <2>4 DEF RecordTypes, rate
  <2>6. OtherTypes'
    BY <1>0, <2>1, <2>3, <2>4 DEF OtherTypes, flow, discover, work, rate
  <2> QED
    BY <2>5, <2>6, TypeWhole
<1>29. ASSUME SwapErr PROVE TypeOK'
  <2>1. UNCHANGED <<config, waves, flow, discover, chosen, warm, work, rate, happened, summary>>
    BY <1>29 DEF SwapErr
  <2>2. stats \in [hist : Nat, ops : Nat, errors : Nat, intervalOps : Nat, intervalErr : Nat] /\ reported \in [ops : Nat, errors : Nat]
    BY <1>0 DEF RecordTypes, OtherTypes
  <2>3. stats' \in [hist : Nat, ops : Nat, errors : Nat, intervalOps : Nat, intervalErr : Nat]
    BY <1>29, <2>2 DEF SwapErr
  <2>4. reported' \in [ops : Nat, errors : Nat] /\ reporter' = "idle"
    BY <1>29, <2>2 DEF SwapErr
  <2>5. RecordTypes'
    BY <1>0, <2>1, <2>3, <2>4 DEF RecordTypes, rate
  <2>6. OtherTypes'
    BY <1>0, <2>1, <2>3, <2>4 DEF OtherTypes, flow, discover, work, rate
  <2> QED
    BY <2>5, <2>6, TypeWhole
<1>30. ASSUME ReportEnds PROVE TypeOK'
    BY <1>30 DEF ReportEnds, TypeOK, flow, discover, work, rate, counts
<1>31. ASSUME SetLimit PROVE TypeOK'
  <2>1. UNCHANGED <<config, waves, flow, discover, chosen, warm, work, tick, counts>>
    BY <1>31 DEF SetLimit
  <2>2. Limit(Rate) \in Int
    BY <1>31, RateType, BurstType DEF SetLimit, LimiterFollows
  <2>3. limiter \in [limit : Int, burst : Int]
    BY <1>0 DEF RecordTypes, OtherTypes
  <2>4. limiter' \in [limit : Int, burst : Int] /\ driver' = "burst"
    BY <1>31, <2>2, <2>3 DEF SetLimit
  <2>5. RecordTypes'
    BY <1>0, <2>1, <2>4 DEF RecordTypes, counts
  <2>6. OtherTypes'
    BY <1>0, <2>1, <2>4 DEF OtherTypes, flow, discover, work, counts
  <2> QED
    BY <2>5, <2>6, TypeWhole
<1>32. ASSUME SetBurst PROVE TypeOK'
  <2>1. UNCHANGED <<config, waves, flow, discover, chosen, warm, work, tick, counts>>
    BY <1>32 DEF SetBurst
  <2>2. Burst(Rate) \in Int
    BY <1>32, RateType, BurstType DEF SetBurst, LimiterFollows
  <2>3. limiter \in [limit : Int, burst : Int]
    BY <1>0 DEF RecordTypes, OtherTypes
  <2>4. limiter' \in [limit : Int, burst : Int] /\ driver' = "idle"
    BY <1>32, <2>2, <2>3 DEF SetBurst
  <2>5. RecordTypes'
    BY <1>0, <2>1, <2>4 DEF RecordTypes, counts
  <2>6. OtherTypes'
    BY <1>0, <2>1, <2>4 DEF OtherTypes, flow, discover, work, counts
  <2> QED
    BY <2>5, <2>6, TypeWhole
<1>33. ASSUME DriverTick PROVE TypeOK'
    BY <1>33 DEF DriverTick, TypeOK, flow, discover, work, rate, counts
<1>34. ASSUME Timeout PROVE TypeOK'
    BY <1>34 DEF Timeout, TypeOK, flow, discover, work, rate, counts
<1>35. ASSUME Signal PROVE TypeOK'
    BY <1>35 DEF Signal, TypeOK, flow, discover, work, rate, counts
<1>36. ASSUME Exit PROVE TypeOK'
    BY <1>36 DEF Exit, TypeOK, flow, discover, work, rate, counts
<1>37. ASSUME AddressesChange PROVE TypeOK'
  <2>1. UNCHANGED <<config, flow, discover, chosen, warm, work, rate, counts>>
    BY <1>37 DEF AddressesChange
  <2>2. waves \in Seq(SUBSET Ips)
    BY DEF TypeOK
  <2>3. waves' \in Seq(SUBSET Ips)
    BY <1>37, <2>2 DEF AddressesChange
  <2>4. Len(waves') = Len(waves) - 1 /\ Len(waves) > 1
    BY <1>37, <2>2 DEF AddressesChange
  <2>5. waves' # <<>>
    BY <2>2, <2>3, <2>4
  <2> QED
    BY <2>1, <2>2, <2>3, <2>4, <2>5 DEF TypeOK, flow, discover, work, rate, counts
<1>38. ASSUME UNCHANGED vars PROVE TypeOK'
    BY <1>38 DEF vars, TypeOK, flow, discover, work, rate, counts
<1> QED
    BY <1>1, <1>2, <1>3, <1>4, <1>5, <1>6, <1>7, <1>8, <1>9, <1>10, <1>11, <1>12, <1>13, <1>14,
       <1>15, <1>16, <1>17, <1>18, <1>19, <1>20, <1>21, <1>22, <1>23, <1>24, <1>25, <1>26,
       <1>27, <1>28, <1>29, <1>30, <1>31, <1>32, <1>33, <1>34, <1>35, <1>36, <1>37, <1>38 DEF
       Next, MainStep, Worker, Closing

(* Every step keeps the lock with the step that took it.                   *)
LEMMA LockStep ==
    ASSUME TypeOK, LockHeld, [Next]_vars
    PROVE  LockHeld'
<1>1. ASSUME Start PROVE LockHeld'
    BY <1>1 DEF Start, LockHeld, TypeOK, Discovery, None, flow, discover, work, rate, counts
<1>2. ASSUME PreparePick PROVE LockHeld'
    BY <1>2 DEF PreparePick, LockHeld, TypeOK, Discovery, None, flow, discover, work, rate,
       counts
<1>3. ASSUME Prepare PROVE LockHeld'
    BY <1>3 DEF Prepare, LockHeld, TypeOK, Discovery, None, flow, discover, work, rate, counts
<1>4. ASSUME WarmPick PROVE LockHeld'
    BY <1>4 DEF WarmPick, LockHeld, TypeOK, Discovery, None, flow, discover, work, rate, counts
<1>5. ASSUME WarmAcquire PROVE LockHeld'
    BY <1>5 DEF WarmAcquire, LockHeld, TypeOK, Discovery, None, flow, discover, work, rate,
       counts
<1>6. ASSUME Spawn PROVE LockHeld'
    BY <1>6 DEF Spawn, LockHeld, TypeOK, Discovery, None, flow, discover, work, rate, counts
<1>7. ASSUME Summarise PROVE LockHeld'
    BY <1>7 DEF Summarise, LockHeld, TypeOK, Discovery, None, flow, discover, work, rate,
       counts
<1>8. ASSUME CloseLocks PROVE LockHeld'
    BY <1>8 DEF CloseLocks, LockHeld, TypeOK, Discovery, None, flow, discover, work, rate,
       counts
<1>9. ASSUME Return PROVE LockHeld'
    BY <1>9 DEF Return, LockHeld, TypeOK, Discovery, None, flow, discover, work, rate, counts
<1>10. ASSUME NEW w \in Workers, Top(w) PROVE LockHeld'
    BY <1>10 DEF Top, LockHeld, TypeOK, Discovery, None, flow, discover, work, rate, counts,
       Goto
<1>11. ASSUME NEW w \in Workers, WaitGrants(w) PROVE LockHeld'
    BY <1>11 DEF WaitGrants, LockHeld, TypeOK, Discovery, None, flow, discover, work, rate,
       counts, Goto
<1>12. ASSUME NEW w \in Workers, WaitFails(w) PROVE LockHeld'
    BY <1>12 DEF WaitFails, LockHeld, TypeOK, Discovery, None, flow, discover, work, rate,
       counts, Goto
<1>13. ASSUME NEW w \in Workers, Pick(w) PROVE LockHeld'
    BY <1>13 DEF Pick, LockHeld, TypeOK, Discovery, None, flow, discover, work, rate, counts,
       Goto
<1>14. ASSUME NEW w \in Workers, Acquire(w) PROVE LockHeld'
    BY <1>14 DEF Acquire, LockHeld, TypeOK, Discovery, None, flow, discover, work, rate,
       counts, Goto
<1>15. ASSUME NEW w \in Workers, AcquireFails(w) PROVE LockHeld'
    BY <1>15 DEF AcquireFails, LockHeld, TypeOK, Discovery, None, flow, discover, work, rate,
       counts, Goto
<1>16. ASSUME NEW w \in Workers, Execute(w) PROVE LockHeld'
    BY <1>16 DEF Execute, LockHeld, TypeOK, Discovery, None, flow, discover, work, rate,
       counts, Goto
<1>17. ASSUME NEW w \in Workers, Record(w) PROVE LockHeld'
    BY <1>17 DEF Record, LockHeld, TypeOK, Discovery, None, flow, discover, work, rate, counts,
       Goto
<1>18. ASSUME NEW w \in Workers, RecordError(w) PROVE LockHeld'
    BY <1>18 DEF RecordError, LockHeld, TypeOK, Discovery, None, flow, discover, work, rate,
       counts, Goto
<1>19. ASSUME NEW w \in Workers, Release(w) PROVE LockHeld'
    BY <1>19 DEF Release, LockHeld, TypeOK, Discovery, None, flow, discover, work, rate,
       counts, Goto
<1>20. ASSUME NEW b \in {"discover", "close"}, CloseEnds(b) PROVE LockHeld'
    BY <1>20, NamesAssumption DEF CloseEnds, LockHeld, TypeOK, Discovery, None, flow, discover,
       work, rate, counts
<1>21. ASSUME NEW b \in {"discover", "close"}, NEW p \in Pools, CloseBegins(b, p) PROVE LockHeld'
    BY <1>21, NamesAssumption DEF CloseBegins, LockHeld, TypeOK, Discovery, None, flow,
       discover, work, rate, counts
<1>22. ASSUME Lookup PROVE LockHeld'
    BY <1>22 DEF Lookup, LockHeld, TypeOK, Discovery, None, flow, discover, work, rate, counts
<1>23. ASSUME LookupFails PROVE LockHeld'
    BY <1>23 DEF LookupFails, LockHeld, TypeOK, Discovery, None, flow, discover, work, rate,
       counts
<1>24. ASSUME DiscoverEnds PROVE LockHeld'
    BY <1>24 DEF DiscoverEnds, LockHeld, TypeOK, Discovery, None, flow, discover, work, rate,
       counts
<1>25. ASSUME DiscoverLocks PROVE LockHeld'
    BY <1>25 DEF DiscoverLocks, LockHeld, TypeOK, Discovery, None, flow, discover, work, rate,
       counts
<1>26. ASSUME DiscoverUnlocks PROVE LockHeld'
    BY <1>26 DEF DiscoverUnlocks, LockHeld, TypeOK, Discovery, None, flow, discover, work,
       rate, counts
<1>27. ASSUME ReportTick PROVE LockHeld'
    BY <1>27 DEF ReportTick, LockHeld, TypeOK, Discovery, None, flow, discover, work, rate,
       counts
<1>28. ASSUME SwapOps PROVE LockHeld'
    BY <1>28 DEF SwapOps, LockHeld, TypeOK, Discovery, None, flow, discover, work, rate, counts
<1>29. ASSUME SwapErr PROVE LockHeld'
    BY <1>29 DEF SwapErr, LockHeld, TypeOK, Discovery, None, flow, discover, work, rate, counts
<1>30. ASSUME ReportEnds PROVE LockHeld'
    BY <1>30 DEF ReportEnds, LockHeld, TypeOK, Discovery, None, flow, discover, work, rate,
       counts
<1>31. ASSUME SetLimit PROVE LockHeld'
    BY <1>31 DEF SetLimit, LockHeld, TypeOK, Discovery, None, flow, discover, work, rate,
       counts
<1>32. ASSUME SetBurst PROVE LockHeld'
    BY <1>32 DEF SetBurst, LockHeld, TypeOK, Discovery, None, flow, discover, work, rate,
       counts
<1>33. ASSUME DriverTick PROVE LockHeld'
    BY <1>33 DEF DriverTick, LockHeld, TypeOK, Discovery, None, flow, discover, work, rate,
       counts
<1>34. ASSUME Timeout PROVE LockHeld'
    BY <1>34 DEF Timeout, LockHeld, TypeOK, Discovery, None, flow, discover, work, rate, counts
<1>35. ASSUME Signal PROVE LockHeld'
    BY <1>35 DEF Signal, LockHeld, TypeOK, Discovery, None, flow, discover, work, rate, counts
<1>36. ASSUME Exit PROVE LockHeld'
    BY <1>36 DEF Exit, LockHeld, TypeOK, Discovery, None, flow, discover, work, rate,
       counts
<1>37. ASSUME AddressesChange PROVE LockHeld'
    BY <1>37 DEF AddressesChange, LockHeld, TypeOK, Discovery, None, flow, discover, work,
       rate, counts
<1>38. ASSUME UNCHANGED vars PROVE LockHeld'
    BY <1>38 DEF vars, LockHeld, TypeOK, Discovery, None, flow, discover, work, rate, counts
<1> QED
    BY <1>1, <1>2, <1>3, <1>4, <1>5, <1>6, <1>7, <1>8, <1>9, <1>10, <1>11, <1>12, <1>13, <1>14,
       <1>15, <1>16, <1>17, <1>18, <1>19, <1>20, <1>21, <1>22, <1>23, <1>24, <1>25, <1>26,
       <1>27, <1>28, <1>29, <1>30, <1>31, <1>32, <1>33, <1>34, <1>35, <1>36, <1>37, <1>38 DEF
       Next, MainStep, Worker, Closing

(* Every step keeps the open pools accounted for.                          *)
LEMMA OpenStep ==
    ASSUME TypeOK, LockHeld, OpenPools, [Next]_vars
    PROVE  OpenPools'
<1>1. ASSUME Start PROVE OpenPools'
    BY <1>1 DEF Start, OpenPools, LockHeld, TypeOK, Discovery, None, flow, discover, work,
       rate, counts
<1>2. ASSUME PreparePick PROVE OpenPools'
    BY <1>2 DEF PreparePick, OpenPools, LockHeld, TypeOK, Discovery, None, flow, discover,
       work, rate, counts
<1>3. ASSUME Prepare PROVE OpenPools'
    BY <1>3 DEF Prepare, OpenPools, LockHeld, TypeOK, Discovery, None, flow, discover, work,
       rate, counts
<1>4. ASSUME WarmPick PROVE OpenPools'
    BY <1>4 DEF WarmPick, OpenPools, LockHeld, TypeOK, Discovery, None, flow, discover, work,
       rate, counts
<1>5. ASSUME WarmAcquire PROVE OpenPools'
    BY <1>5 DEF WarmAcquire, OpenPools, LockHeld, TypeOK, Discovery, None, flow, discover,
       work, rate, counts
<1>6. ASSUME Spawn PROVE OpenPools'
    BY <1>6 DEF Spawn, OpenPools, LockHeld, TypeOK, Discovery, None, flow, discover, work,
       rate, counts, None
<1>7. ASSUME Summarise PROVE OpenPools'
    BY <1>7 DEF Summarise, OpenPools, LockHeld, TypeOK, Discovery, None, flow, discover, work,
       rate, counts
<1>8. ASSUME CloseLocks PROVE OpenPools'
    BY <1>8 DEF CloseLocks, OpenPools, LockHeld, TypeOK, Discovery, None, flow, discover, work,
       rate, counts
<1>9. ASSUME Return PROVE OpenPools'
    BY <1>9 DEF Return, OpenPools, LockHeld, TypeOK, Discovery, None, flow, discover, work,
       rate, counts
<1>10. ASSUME NEW w \in Workers, Top(w) PROVE OpenPools'
    BY <1>10 DEF Top, OpenPools, LockHeld, TypeOK, Discovery, None, flow, discover, work, rate,
       counts
<1>11. ASSUME NEW w \in Workers, WaitGrants(w) PROVE OpenPools'
    BY <1>11 DEF WaitGrants, OpenPools, LockHeld, TypeOK, Discovery, None, flow, discover,
       work, rate, counts
<1>12. ASSUME NEW w \in Workers, WaitFails(w) PROVE OpenPools'
    BY <1>12 DEF WaitFails, OpenPools, LockHeld, TypeOK, Discovery, None, flow, discover, work,
       rate, counts
<1>13. ASSUME NEW w \in Workers, Pick(w) PROVE OpenPools'
    BY <1>13 DEF Pick, OpenPools, LockHeld, TypeOK, Discovery, None, flow, discover, work,
       rate, counts
<1>14. ASSUME NEW w \in Workers, Acquire(w) PROVE OpenPools'
    BY <1>14 DEF Acquire, OpenPools, LockHeld, TypeOK, Discovery, None, flow, discover, work,
       rate, counts
<1>15. ASSUME NEW w \in Workers, AcquireFails(w) PROVE OpenPools'
    BY <1>15 DEF AcquireFails, OpenPools, LockHeld, TypeOK, Discovery, None, flow, discover,
       work, rate, counts
<1>16. ASSUME NEW w \in Workers, Execute(w) PROVE OpenPools'
    BY <1>16 DEF Execute, OpenPools, LockHeld, TypeOK, Discovery, None, flow, discover, work,
       rate, counts
<1>17. ASSUME NEW w \in Workers, Record(w) PROVE OpenPools'
    BY <1>17 DEF Record, OpenPools, LockHeld, TypeOK, Discovery, None, flow, discover, work,
       rate, counts
<1>18. ASSUME NEW w \in Workers, RecordError(w) PROVE OpenPools'
    BY <1>18 DEF RecordError, OpenPools, LockHeld, TypeOK, Discovery, None, flow, discover,
       work, rate, counts
<1>19. ASSUME NEW w \in Workers, Release(w) PROVE OpenPools'
    BY <1>19 DEF Release, OpenPools, LockHeld, TypeOK, Discovery, None, flow, discover, work,
       rate, counts
<1>20. ASSUME NEW b \in {"discover", "close"}, CloseEnds(b) PROVE OpenPools'
    BY <1>20 DEF CloseEnds, OpenPools, LockHeld, TypeOK, Discovery, None, flow, discover, work,
       rate, counts
<1>21. ASSUME NEW b \in {"discover", "close"}, NEW p \in Pools, CloseBegins(b, p) PROVE OpenPools'
    BY <1>21 DEF CloseBegins, OpenPools, LockHeld, TypeOK, Discovery, None, flow, discover,
       work, rate, counts
<1>22. ASSUME Lookup PROVE OpenPools'
    BY <1>22 DEF Lookup, OpenPools, LockHeld, TypeOK, Discovery, None, flow, discover, work,
       rate, counts
<1>23. ASSUME LookupFails PROVE OpenPools'
    BY <1>23 DEF LookupFails, OpenPools, LockHeld, TypeOK, Discovery, None, flow, discover,
       work, rate, counts
<1>24. ASSUME DiscoverEnds PROVE OpenPools'
    BY <1>24 DEF DiscoverEnds, OpenPools, LockHeld, TypeOK, Discovery, None, flow, discover,
       work, rate, counts
<1>25. ASSUME DiscoverLocks PROVE OpenPools'
    BY <1>25 DEF DiscoverLocks, OpenPools, LockHeld, TypeOK, Discovery, None, flow, discover,
       work, rate, counts
<1>26. ASSUME DiscoverUnlocks PROVE OpenPools'
    BY <1>26 DEF DiscoverUnlocks, OpenPools, LockHeld, TypeOK, Discovery, None, flow, discover,
       work, rate, counts
<1>27. ASSUME ReportTick PROVE OpenPools'
    BY <1>27 DEF ReportTick, OpenPools, LockHeld, TypeOK, Discovery, None, flow, discover,
       work, rate, counts
<1>28. ASSUME SwapOps PROVE OpenPools'
    BY <1>28 DEF SwapOps, OpenPools, LockHeld, TypeOK, Discovery, None, flow, discover, work,
       rate, counts
<1>29. ASSUME SwapErr PROVE OpenPools'
    BY <1>29 DEF SwapErr, OpenPools, LockHeld, TypeOK, Discovery, None, flow, discover, work,
       rate, counts
<1>30. ASSUME ReportEnds PROVE OpenPools'
    BY <1>30 DEF ReportEnds, OpenPools, LockHeld, TypeOK, Discovery, None, flow, discover,
       work, rate, counts
<1>31. ASSUME SetLimit PROVE OpenPools'
    BY <1>31 DEF SetLimit, OpenPools, LockHeld, TypeOK, Discovery, None, flow, discover, work,
       rate, counts
<1>32. ASSUME SetBurst PROVE OpenPools'
    BY <1>32 DEF SetBurst, OpenPools, LockHeld, TypeOK, Discovery, None, flow, discover, work,
       rate, counts
<1>33. ASSUME DriverTick PROVE OpenPools'
    BY <1>33 DEF DriverTick, OpenPools, LockHeld, TypeOK, Discovery, None, flow, discover,
       work, rate, counts
<1>34. ASSUME Timeout PROVE OpenPools'
    BY <1>34 DEF Timeout, OpenPools, LockHeld, TypeOK, Discovery, None, flow, discover, work,
       rate, counts
<1>35. ASSUME Signal PROVE OpenPools'
    BY <1>35 DEF Signal, OpenPools, LockHeld, TypeOK, Discovery, None, flow, discover, work,
       rate, counts
<1>36. ASSUME Exit PROVE OpenPools'
    BY <1>36 DEF Exit, OpenPools, LockHeld, TypeOK, Discovery, None, flow, discover,
       work, rate, counts
<1>37. ASSUME AddressesChange PROVE OpenPools'
    BY <1>37 DEF AddressesChange, OpenPools, LockHeld, TypeOK, Discovery, None, flow, discover,
       work, rate, counts
<1>38. ASSUME UNCHANGED vars PROVE OpenPools'
    BY <1>38 DEF vars, OpenPools, LockHeld, TypeOK, Discovery, None, flow, discover, work,
       rate, counts
<1> QED
    BY <1>1, <1>2, <1>3, <1>4, <1>5, <1>6, <1>7, <1>8, <1>9, <1>10, <1>11, <1>12, <1>13, <1>14,
       <1>15, <1>16, <1>17, <1>18, <1>19, <1>20, <1>21, <1>22, <1>23, <1>24, <1>25, <1>26,
       <1>27, <1>28, <1>29, <1>30, <1>31, <1>32, <1>33, <1>34, <1>35, <1>36, <1>37, <1>38 DEF
       Next, MainStep, Worker, Closing

(* A pool with no connection out is held by no worker.                     *)
LEMMA NoneOut ==
    ASSUME TypeOK, NEW p, Out(p) = 0
    PROVE  \A w \in Workers : pc[w] \in Holding => chosen[w] # p
<1> DEFINE A == {w \in Workers : pc[w] \in Holding /\ chosen[w] = p}
           B == {i \in DOMAIN warm : warm[i] = p}
<1>1. IsFiniteSet(A)
    BY WorkersAssumption, FS_Subset
<1>2. IsFiniteSet(B)
  <2>1. DOMAIN warm = 1..Len(warm) /\ Len(warm) \in Nat
    BY DEF TypeOK
  <2>2. IsFiniteSet(1..Len(warm))
    BY <2>1, FS_Interval
  <2> QED
    BY <2>1, <2>2, FS_Subset
<1>3. Cardinality(A) \in Nat /\ Cardinality(B) \in Nat
    BY <1>1, <1>2, FS_CardinalityType
<1>4. Cardinality(A) + Cardinality(B) = 0
    BY DEF Out
<1>5. Cardinality(A) = 0
    BY <1>3, <1>4
<1>6. A = {}
    BY <1>1, <1>5, FS_EmptySet
<1> QED
    BY <1>6

(* Every step keeps the pools of the connections out open.                 *)
LEMMA ConnectedStep ==
    ASSUME TypeOK, LockHeld, OpenPools, Connected, [Next]_vars
    PROVE  Connected'
<1>1. ASSUME Start PROVE Connected'
    BY <1>1, NamesAssumption DEF Start, Connected, TypeOK, LockHeld, OpenPools, Discovery,
       flow, discover, work, rate, counts, Holding
<1>2. ASSUME PreparePick PROVE Connected'
    BY <1>2, NamesAssumption DEF PreparePick, Connected, TypeOK, LockHeld, OpenPools,
       Discovery, flow, discover, work, rate, counts, Holding, Pools, Main
<1>3. ASSUME Prepare PROVE Connected'
    BY <1>3, NamesAssumption DEF Prepare, Connected, TypeOK, LockHeld, OpenPools, Discovery,
       flow, discover, work, rate, counts
<1>4. ASSUME WarmPick PROVE Connected'
    BY <1>4, NamesAssumption DEF WarmPick, Connected, TypeOK, LockHeld, OpenPools, Discovery,
       flow, discover, work, rate, counts, Holding, Pools, None, DB, Main
<1>5. ASSUME WarmAcquire PROVE Connected'
    BY <1>5, NamesAssumption DEF WarmAcquire, Connected, TypeOK, LockHeld, OpenPools,
       Discovery, flow, discover, work, rate, counts
<1>6. ASSUME Spawn PROVE Connected'
    BY <1>6, NamesAssumption DEF Spawn, Connected, TypeOK, LockHeld, OpenPools, Discovery,
       flow, discover, work, rate, counts, Holding
<1>7. ASSUME Summarise PROVE Connected'
    BY <1>7, NamesAssumption DEF Summarise, Connected, TypeOK, LockHeld, OpenPools, Discovery,
       flow, discover, work, rate, counts
<1>8. ASSUME CloseLocks PROVE Connected'
    BY <1>8, NamesAssumption DEF CloseLocks, Connected, TypeOK, LockHeld, OpenPools, Discovery,
       flow, discover, work, rate, counts
<1>9. ASSUME Return PROVE Connected'
    BY <1>9, NamesAssumption DEF Return, Connected, TypeOK, LockHeld, OpenPools, Discovery,
       flow, discover, work, rate, counts
<1>10. ASSUME NEW w \in Workers, Top(w) PROVE Connected'
    BY <1>10, NamesAssumption DEF Top, Connected, TypeOK, LockHeld, OpenPools, Discovery, flow,
       discover, work, rate, counts, Goto, Holding, Pools
<1>11. ASSUME NEW w \in Workers, WaitGrants(w) PROVE Connected'
    BY <1>11, NamesAssumption DEF WaitGrants, Connected, TypeOK, LockHeld, OpenPools,
       Discovery, flow, discover, work, rate, counts, Goto, Holding, Pools
<1>12. ASSUME NEW w \in Workers, WaitFails(w) PROVE Connected'
    BY <1>12, NamesAssumption DEF WaitFails, Connected, TypeOK, LockHeld, OpenPools, Discovery,
       flow, discover, work, rate, counts, Goto, Holding, Pools
<1>13. ASSUME NEW w \in Workers, Pick(w) PROVE Connected'
  <2>1. main = "working" /\ pc[w] = "pick"
    BY <1>13 DEF Pick, LockHeld
  <2>2. Discovery => lock = None /\ open = pods
    BY <1>13 DEF Pick, Readable, OpenPools
  <2>3. ~Discovery => open = {DB} /\ lock = None
    BY <2>1 DEF OpenPools, LockHeld, TypeOK
  <2>4. draining \notin Pools
    BY <2>2, <2>3, NamesAssumption DEF LockHeld, TypeOK, Pools, None, DB
  <2>5. \A p \in (IF Discovery THEN pods ELSE {DB}) : p \in open \ {draining}
    BY <2>2, <2>3, <2>4 DEF TypeOK
  <2>6. UNCHANGED <<main, open, draining>> /\ w # Main
    BY <1>13, NamesAssumption DEF Pick, flow, discover, Main
  <2>7. CASE \E p \in (IF Discovery THEN pods ELSE {DB}) :
               chosen' = [chosen EXCEPT ![w] = p] /\ Goto(w, "acquire")
    BY <2>5, <2>6, <2>7 DEF Connected, TypeOK, Goto, Holding
  <2>8. CASE Goto(w, "record") /\ UNCHANGED chosen
    <3>1. chosen[w] = None
        BY <2>1 DEF Connected
    <3> QED
        BY <2>6, <2>8, <3>1 DEF Connected, TypeOK, Goto, Holding
  <2> QED
    BY <1>13, <2>7, <2>8 DEF Pick
<1>14. ASSUME NEW w \in Workers, Acquire(w) PROVE Connected'
    BY <1>14, NamesAssumption DEF Acquire, Connected, TypeOK, LockHeld, OpenPools, Discovery,
       flow, discover, work, rate, counts, Goto, Holding, Pools
<1>15. ASSUME NEW w \in Workers, AcquireFails(w) PROVE Connected'
    BY <1>15, NamesAssumption DEF AcquireFails, Connected, TypeOK, LockHeld, OpenPools,
       Discovery, flow, discover, work, rate, counts, Goto, Holding, Pools
<1>16. ASSUME NEW w \in Workers, Execute(w) PROVE Connected'
    BY <1>16, NamesAssumption DEF Execute, Connected, TypeOK, LockHeld, OpenPools, Discovery,
       flow, discover, work, rate, counts, Goto, Holding, Pools
<1>17. ASSUME NEW w \in Workers, Record(w) PROVE Connected'
    BY <1>17, NamesAssumption DEF Record, Connected, TypeOK, LockHeld, OpenPools, Discovery,
       flow, discover, work, rate, counts, Goto, Holding, Pools
<1>18. ASSUME NEW w \in Workers, RecordError(w) PROVE Connected'
    BY <1>18, NamesAssumption DEF RecordError, Connected, TypeOK, LockHeld, OpenPools,
       Discovery, flow, discover, work, rate, counts, Goto, Holding, Pools
<1>19. ASSUME NEW w \in Workers, Release(w) PROVE Connected'
    BY <1>19, NamesAssumption DEF Release, Connected, TypeOK, LockHeld, OpenPools, Discovery,
       flow, discover, work, rate, counts, Goto, Holding, Pools
<1>20. ASSUME NEW b \in {"discover", "close"}, CloseEnds(b) PROVE Connected'
  <2>1. \A w \in Workers : pc[w] \in Holding => chosen[w] # draining
    BY <1>20, NoneOut DEF CloseEnds
  <2>2. open' = open \ {draining} /\ draining' = None /\ None \notin open
    BY <1>20, NamesAssumption DEF CloseEnds, TypeOK, Pools, None, DB
  <2>3. UNCHANGED <<main, pc, chosen>>
    BY <1>20 DEF CloseEnds, flow, work
  <2> QED
    BY <2>1, <2>2, <2>3 DEF Connected, Holding
<1>21. ASSUME NEW b \in {"discover", "close"}, NEW p \in Pools, CloseBegins(b, p) PROVE Connected'
  <2>1. draining = None /\ draining' = p /\ p # None /\ p # Gone
    BY <1>21, NamesAssumption DEF CloseBegins, Pools, None, Gone, DB
  <2>2. UNCHANGED <<main, pc, open>>
    BY <1>21 DEF CloseBegins, flow, work
  <2>3. chosen' = [q \in Workers \cup {Main} |->
                    IF chosen[q] = p /\ ~(q \in Workers /\ pc[q] \in Holding)
                    THEN Gone ELSE chosen[q]]
    BY <1>21 DEF CloseBegins, Refuse, TypeOK
  <2>4. Gone # None /\ "acquire" \notin Holding /\ "exec" \in Holding
    BY DEF Gone, None, Holding
  <2>5. main' = "warming" => chosen'[Main] # None
    BY <2>2, <2>3, <2>4 DEF Connected
  <2>6. ASSUME NEW w \in Workers, pc[w] = "acquire"
        PROVE  chosen'[w] \in (open \ {p}) \cup {Gone}
    BY <2>1, <2>3, <2>4, <2>6 DEF Connected
  <2>7. ASSUME NEW w \in Workers, pc[w] \in Holding PROVE chosen'[w] = chosen[w]
    BY <2>3, <2>7
  <2>8. ASSUME NEW w \in Workers, chosen[w] = None PROVE chosen'[w] = None
    BY <2>1, <2>3, <2>8
  <2> QED
    BY <2>1, <2>2, <2>4, <2>5, <2>6, <2>7, <2>8 DEF Connected
<1>22. ASSUME Lookup PROVE Connected'
    BY <1>22, NamesAssumption DEF Lookup, Connected, TypeOK, LockHeld, OpenPools, Discovery,
       flow, discover, work, rate, counts
<1>23. ASSUME LookupFails PROVE Connected'
    BY <1>23, NamesAssumption DEF LookupFails, Connected, TypeOK, LockHeld, OpenPools,
       Discovery, flow, discover, work, rate, counts
<1>24. ASSUME DiscoverEnds PROVE Connected'
    BY <1>24, NamesAssumption DEF DiscoverEnds, Connected, TypeOK, LockHeld, OpenPools,
       Discovery, flow, discover, work, rate, counts
<1>25. ASSUME DiscoverLocks PROVE Connected'
    BY <1>25, NamesAssumption DEF DiscoverLocks, Connected, TypeOK, LockHeld, OpenPools,
       Discovery, flow, discover, work, rate, counts
<1>26. ASSUME DiscoverUnlocks PROVE Connected'
    BY <1>26, NamesAssumption DEF DiscoverUnlocks, Connected, TypeOK, LockHeld, OpenPools,
       Discovery, flow, discover, work, rate, counts
<1>27. ASSUME ReportTick PROVE Connected'
    BY <1>27, NamesAssumption DEF ReportTick, Connected, TypeOK, LockHeld, OpenPools,
       Discovery, flow, discover, work, rate, counts
<1>28. ASSUME SwapOps PROVE Connected'
    BY <1>28, NamesAssumption DEF SwapOps, Connected, TypeOK, LockHeld, OpenPools, Discovery,
       flow, discover, work, rate, counts
<1>29. ASSUME SwapErr PROVE Connected'
    BY <1>29, NamesAssumption DEF SwapErr, Connected, TypeOK, LockHeld, OpenPools, Discovery,
       flow, discover, work, rate, counts
<1>30. ASSUME ReportEnds PROVE Connected'
    BY <1>30, NamesAssumption DEF ReportEnds, Connected, TypeOK, LockHeld, OpenPools,
       Discovery, flow, discover, work, rate, counts
<1>31. ASSUME SetLimit PROVE Connected'
    BY <1>31, NamesAssumption DEF SetLimit, Connected, TypeOK, LockHeld, OpenPools, Discovery,
       flow, discover, work, rate, counts
<1>32. ASSUME SetBurst PROVE Connected'
    BY <1>32, NamesAssumption DEF SetBurst, Connected, TypeOK, LockHeld, OpenPools, Discovery,
       flow, discover, work, rate, counts
<1>33. ASSUME DriverTick PROVE Connected'
    BY <1>33, NamesAssumption DEF DriverTick, Connected, TypeOK, LockHeld, OpenPools,
       Discovery, flow, discover, work, rate, counts
<1>34. ASSUME Timeout PROVE Connected'
    BY <1>34, NamesAssumption DEF Timeout, Connected, TypeOK, LockHeld, OpenPools, Discovery,
       flow, discover, work, rate, counts
<1>35. ASSUME Signal PROVE Connected'
    BY <1>35, NamesAssumption DEF Signal, Connected, TypeOK, LockHeld, OpenPools, Discovery,
       flow, discover, work, rate, counts
<1>36. ASSUME Exit PROVE Connected'
    BY <1>36, NamesAssumption DEF Exit, Connected, TypeOK, LockHeld, OpenPools,
       Discovery, flow, discover, work, rate, counts
<1>37. ASSUME AddressesChange PROVE Connected'
    BY <1>37, NamesAssumption DEF AddressesChange, Connected, TypeOK, LockHeld, OpenPools,
       Discovery, flow, discover, work, rate, counts
<1>38. ASSUME UNCHANGED vars PROVE Connected'
    BY <1>38, NamesAssumption DEF vars, Connected, TypeOK, LockHeld, OpenPools, Discovery,
       flow, discover, work, rate, counts
<1> QED
    BY <1>1, <1>2, <1>3, <1>4, <1>5, <1>6, <1>7, <1>8, <1>9, <1>10, <1>11, <1>12, <1>13, <1>14,
       <1>15, <1>16, <1>17, <1>18, <1>19, <1>20, <1>21, <1>22, <1>23, <1>24, <1>25, <1>26,
       <1>27, <1>28, <1>29, <1>30, <1>31, <1>32, <1>33, <1>34, <1>35, <1>36, <1>37, <1>38 DEF
       Next, MainStep, Worker, Closing

(* Only drivePattern moves the limiter.                                    *)
LEMMA OnlyDriver ==
    ASSUME [Next]_vars
    PROVE  /\ config' = config
           /\ UNCHANGED rate \/ SetLimit \/ SetBurst \/ DriverTick
<1>1. MainStep => UNCHANGED <<config, rate>>
    BY DEF MainStep, Start, PreparePick, Prepare, WarmPick, WarmAcquire, Spawn, Summarise,
       CloseLocks, Return, Exit
<1>2. ASSUME NEW w \in Workers PROVE Worker(w) => UNCHANGED <<config, rate>>
    BY DEF Worker, Top, WaitGrants, WaitFails, Pick, Acquire, AcquireFails, Execute, Record,
       RecordError, Release
<1>3. Closing => UNCHANGED <<config, rate>>
    BY DEF Closing, CloseBegins, CloseEnds
<1>4. Lookup \/ LookupFails \/ DiscoverEnds \/ DiscoverLocks \/ DiscoverUnlocks =>
        UNCHANGED <<config, rate>>
    BY DEF Lookup, LookupFails, DiscoverEnds, DiscoverLocks, DiscoverUnlocks
<1>5. ReportTick \/ SwapOps \/ SwapErr \/ ReportEnds => UNCHANGED <<config, rate>>
    BY DEF ReportTick, SwapOps, SwapErr, ReportEnds
<1>6. Timeout \/ Signal \/ AddressesChange => UNCHANGED <<config, rate>>
    BY DEF Timeout, Signal, AddressesChange
<1>7. SetLimit \/ SetBurst \/ DriverTick => config' = config
    BY DEF SetLimit, SetBurst, DriverTick
<1>8. UNCHANGED vars => UNCHANGED <<config, rate>>
    BY DEF vars
<1> QED
    BY <1>1, <1>2, <1>3, <1>4, <1>5, <1>6, <1>7, <1>8 DEF Next

(* Every step keeps limit and burst those of the rates last set.           *)
LEMMA LimiterStep ==
    ASSUME TypeOK, LimiterFollows, [Next]_vars
    PROVE  LimiterFollows'
<1>1. config' = config /\ tick \in Nat /\ limiter \in [limit : Int, burst : Int]
    BY OnlyDriver DEF TypeOK
<1>2. CASE UNCHANGED rate
    BY <1>1, <1>2 DEF rate, LimiterFollows, Before, Rate
<1>3. CASE SetLimit
  <2>1. Rate' = Rate /\ Before' = Before
    BY <1>1, <1>3 DEF SetLimit, Rate, Before
  <2> QED
    BY <1>1, <1>3, <2>1 DEF SetLimit, LimiterFollows
<1>4. CASE SetBurst
  <2>1. Rate' = Rate /\ Before' = Before
    BY <1>1, <1>4 DEF SetBurst, Rate, Before
  <2> QED
    BY <1>1, <1>4, <2>1 DEF SetBurst, LimiterFollows
<1>5. CASE DriverTick
  <2>1. tick' # 0 /\ tick' - 1 = tick
    BY <1>1, <1>5 DEF DriverTick
  <2>2. Before' = Rate
    BY <1>1, <2>1 DEF Rate, Before
  <2> QED
    BY <1>1, <1>5, <2>2 DEF DriverTick, LimiterFollows
<1> QED
    BY <1>2, <1>3, <1>4, <1>5, OnlyDriver

-----------------------------------------------------------------------------
(* The workers with an operation to record, and those with an error.       *)
ToRecord == {w \in Workers : pc[w] = "record"}
ErrToRecord == {w \in err : pc[w] \in {"record", "recordErr"}}

(* Both sets are finite.                                                   *)
LEMMA PendingFinite ==
    ASSUME TypeOK
    PROVE  /\ IsFiniteSet(ToRecord) /\ Cardinality(ToRecord) \in Nat
           /\ IsFiniteSet(ErrToRecord) /\ Cardinality(ErrToRecord) \in Nat
<1>1. ToRecord \subseteq Workers /\ ErrToRecord \subseteq Workers
    BY DEF TypeOK, ToRecord, ErrToRecord
<1> QED
    BY <1>1, WorkersAssumption, FS_Subset, FS_CardinalityType

(* Counted in terms of the two sets.                                       *)
LEMMA CountedSets ==
    Counted <=>
        /\ stats.hist = stats.ops
        /\ happened.ops = stats.ops + Cardinality(ToRecord)
        /\ happened.errors = stats.errors + Cardinality(ErrToRecord)
        /\ reported.ops + stats.intervalOps = stats.ops
        /\ reported.errors + stats.intervalErr = stats.errors
        /\ \A w \in err : pc[w] \in {"record", "recordErr", "release"}
        /\ \A w \in Workers : pc[w] = "recordErr" => w \in err
        /\ main \in {"close", "closing", "returned", "exited"} /\ ~failed =>
             summary = [ops |-> stats.ops, errors |-> stats.errors]
    BY DEF Counted, ToRecord, ErrToRecord

(* A worker's step that neither ends nor records an operation.             *)
LEMMA OtherStep ==
    ASSUME TypeOK, LockHeld, Counted, NEW w \in Workers, NEW l \in WorkerPcs,
           pc[w] \notin {"off", "ended", "record", "recordErr"}, l \notin {"record", "recordErr"},
           pc' = [pc EXCEPT ![w] = l], err' = err \ {w},
           UNCHANGED <<main, failed, stats, reported, happened, summary>>
    PROVE  Counted'
<1>1. ToRecord' = ToRecord
    BY DEF ToRecord, TypeOK
<1>2. ErrToRecord' = ErrToRecord
    BY DEF ErrToRecord, TypeOK, Counted
<1>3. \A v \in err' : pc'[v] \in {"record", "recordErr", "release"}
    BY DEF TypeOK, Counted
<1>4. \A v \in Workers : pc'[v] = "recordErr" => v \in err'
    BY DEF TypeOK, Counted
<1> QED
    BY <1>1, <1>2, <1>3, <1>4 DEF Counted, ToRecord, ErrToRecord

(* A worker's operation ends, and fails or not.                            *)
LEMMA EndedStep ==
    ASSUME TypeOK, LockHeld, Counted, NEW w \in Workers, pc[w] \in {"pick", "acquire", "exec"},
           pc' = [pc EXCEPT ![w] = "record"],
           happened'.ops = happened.ops + 1,
           \/ err' = err /\ happened'.errors = happened.errors
           \/ err' = err \cup {w} /\ happened'.errors = happened.errors + 1,
           UNCHANGED <<main, failed, stats, reported, summary>>
    PROVE  Counted'
<1>1. w \notin err /\ w \notin ToRecord /\ w \notin ErrToRecord
    BY DEF Counted, ToRecord, ErrToRecord
<1>2. ToRecord' = ToRecord \cup {w}
    BY DEF ToRecord, TypeOK
<1>3. Cardinality(ToRecord') = Cardinality(ToRecord) + 1
    BY <1>1, <1>2, PendingFinite, FS_AddElement
<1>4. Cardinality(ErrToRecord') - Cardinality(ErrToRecord) = happened'.errors - happened.errors
  <2>1. CASE err' = err /\ happened'.errors = happened.errors
    <3>1. ErrToRecord' = ErrToRecord
        BY <1>1, <2>1 DEF ErrToRecord, TypeOK
    <3>2. happened.errors \in Nat
        BY TypeParts DEF RecordTypes
    <3> QED
        BY <2>1, <3>1, <3>2, PendingFinite
  <2>2. CASE err' = err \cup {w} /\ happened'.errors = happened.errors + 1
    <3>1. ErrToRecord' = ErrToRecord \cup {w}
        BY <2>2 DEF ErrToRecord, TypeOK
    <3>2. Cardinality(ErrToRecord') = Cardinality(ErrToRecord) + 1
        BY <1>1, <3>1, PendingFinite, FS_AddElement
    <3>3. happened.errors \in Nat /\ Cardinality(ErrToRecord) \in Nat
        BY TypeParts, PendingFinite DEF RecordTypes
    <3> QED
        BY <2>2, <3>2, <3>3
  <2> QED
    BY <2>1, <2>2
<1>5. \A v \in err' : pc'[v] \in {"record", "recordErr", "release"}
    BY DEF TypeOK, Counted
<1>6. \A v \in Workers : pc'[v] = "recordErr" => v \in err'
    BY DEF TypeOK, Counted
<1>7. main \notin {"close", "closing", "returned", "exited"}
    BY DEF LockHeld
<1>8. happened'.ops = stats.ops + Cardinality(ToRecord')
  <2>1. happened.ops = stats.ops + Cardinality(ToRecord)
    BY CountedSets
  <2>2. stats.ops \in Nat /\ Cardinality(ToRecord) \in Nat
    BY PendingFinite DEF TypeOK
  <2> QED
    BY <1>3, <2>1, <2>2
<1>9. /\ happened'.errors = stats.errors + Cardinality(ErrToRecord')
      /\ Cardinality(ErrToRecord') \in Nat
  <2>1. Cardinality(ErrToRecord') \in Nat
    BY <1>1, FS_AddElement, PendingFinite, FS_Subset, FS_CardinalityType, WorkersAssumption
       DEF ErrToRecord, TypeOK
  <2>2. happened.errors = stats.errors + Cardinality(ErrToRecord)
    BY CountedSets
  <2>3. /\ happened.errors \in Nat /\ stats.errors \in Nat /\ Cardinality(ErrToRecord) \in Nat
        /\ happened'.errors \in Nat
    <3>1. happened.errors \in Nat /\ stats.errors \in Nat
        BY TypeParts DEF RecordTypes
    <3>2. happened'.errors \in Nat
        BY <3>1
    <3> QED
        BY <3>1, <3>2, PendingFinite
  <2> QED
    BY <1>4, <2>1, <2>2, <2>3
<1> QED
    BY <1>5, <1>6, <1>7, <1>8, <1>9 DEF Counted, ToRecord, ErrToRecord

(* Every step keeps the counters in line with what happened.               *)
LEMMA CountedStep ==
    ASSUME TypeOK, LockHeld, Counted, [Next]_vars
    PROVE  Counted'
<1>1. ASSUME Start PROVE Counted'
  <2>1. UNCHANGED <<pc, err, stats, reported, happened, summary>>
    BY <1>1 DEF Start, work, counts
  <2>2. main' \in {"close", "closing", "returned", "exited"} /\ ~failed' =>
          main \in {"close", "closing", "returned", "exited"} /\ ~failed
    BY <1>1 DEF Start, flow
  <2> QED
    BY <2>1, <2>2 DEF Counted
<1>2. ASSUME PreparePick PROVE Counted'
  <2>1. UNCHANGED <<pc, err, stats, reported, happened, summary>>
    BY <1>2 DEF PreparePick, work, counts
  <2>2. main' \in {"close", "closing", "returned", "exited"} /\ ~failed' =>
          main \in {"close", "closing", "returned", "exited"} /\ ~failed
    BY <1>2 DEF PreparePick, flow
  <2> QED
    BY <2>1, <2>2 DEF Counted
<1>3. ASSUME Prepare PROVE Counted'
  <2>1. UNCHANGED <<pc, err, stats, reported, happened, summary>>
    BY <1>3 DEF Prepare, work, counts
  <2>2. main' \in {"close", "closing", "returned", "exited"} /\ ~failed' =>
          main \in {"close", "closing", "returned", "exited"} /\ ~failed
    BY <1>3 DEF Prepare, flow
  <2> QED
    BY <2>1, <2>2 DEF Counted
<1>4. ASSUME WarmPick PROVE Counted'
  <2>1. UNCHANGED <<pc, err, stats, reported, happened, summary>>
    BY <1>4 DEF WarmPick, work, counts
  <2>2. main' \in {"close", "closing", "returned", "exited"} /\ ~failed' =>
          main \in {"close", "closing", "returned", "exited"} /\ ~failed
    BY <1>4 DEF WarmPick, flow
  <2> QED
    BY <2>1, <2>2 DEF Counted
<1>5. ASSUME WarmAcquire PROVE Counted'
  <2>1. UNCHANGED <<pc, err, stats, reported, happened, summary>>
    BY <1>5 DEF WarmAcquire, work, counts
  <2>2. main' \in {"close", "closing", "returned", "exited"} /\ ~failed' =>
          main \in {"close", "closing", "returned", "exited"} /\ ~failed
    BY <1>5 DEF WarmAcquire, flow
  <2> QED
    BY <2>1, <2>2 DEF Counted
<1>6. ASSUME Spawn PROVE Counted'
  <2>1. \A w \in Workers : pc[w] \in {"off", "ended"} /\ pc'[w] = "top"
    BY <1>6 DEF Spawn, LockHeld
  <2>2. err = {} /\ UNCHANGED <<err, stats, reported, happened, summary>> /\ main' = "working"
    BY <1>6, <2>1 DEF Spawn, Counted, TypeOK
  <2>3. ToRecord' = ToRecord /\ ErrToRecord' = ErrToRecord
    BY <2>1, <2>2 DEF ToRecord, ErrToRecord
  <2> QED
    BY <2>1, <2>2, <2>3 DEF Counted, ToRecord, ErrToRecord
<1>7. ASSUME Summarise PROVE Counted'
  <2>1. UNCHANGED <<pc, err, stats, reported, happened>>
    BY <1>7 DEF Summarise, work
  <2>2. summary' = [ops |-> stats.ops, errors |-> stats.errors]
    BY <1>7 DEF Summarise
  <2> QED
    BY <2>1, <2>2 DEF Counted
<1>8. ASSUME CloseLocks PROVE Counted'
  <2>1. UNCHANGED <<pc, err, stats, reported, happened, summary>>
    BY <1>8 DEF CloseLocks, work, counts
  <2>2. main' \in {"close", "closing", "returned", "exited"} /\ ~failed' =>
          main \in {"close", "closing", "returned", "exited"} /\ ~failed
    BY <1>8 DEF CloseLocks, flow
  <2> QED
    BY <2>1, <2>2 DEF Counted
<1>9. ASSUME Return PROVE Counted'
  <2>1. UNCHANGED <<pc, err, stats, reported, happened, summary>>
    BY <1>9 DEF Return, work, counts
  <2>2. main' \in {"close", "closing", "returned", "exited"} /\ ~failed' =>
          main \in {"close", "closing", "returned", "exited"} /\ ~failed
    BY <1>9 DEF Return, flow
  <2> QED
    BY <2>1, <2>2 DEF Counted
<1>10. ASSUME NEW w \in Workers, Top(w) PROVE Counted'
  <2>1. /\ \E l \in WorkerPcs \ {"record", "recordErr"} : pc' = [pc EXCEPT ![w] = l]
        /\ pc[w] \notin {"off", "ended", "record", "recordErr"}
    BY <1>10 DEF Top, Goto, WorkerPcs, Holding
  <2>2. UNCHANGED <<main, failed, stats, reported, happened, summary>>
    BY <1>10 DEF Top, flow, counts
  <2>3. err' = err \ {w}
    BY <1>10 DEF Top, Counted
  <2> QED
    BY <2>1, <2>2, <2>3, OtherStep
<1>11. ASSUME NEW w \in Workers, WaitGrants(w) PROVE Counted'
  <2>1. /\ \E l \in WorkerPcs \ {"record", "recordErr"} : pc' = [pc EXCEPT ![w] = l]
        /\ pc[w] \notin {"off", "ended", "record", "recordErr"}
    BY <1>11 DEF WaitGrants, Goto, WorkerPcs, Holding
  <2>2. UNCHANGED <<main, failed, stats, reported, happened, summary>>
    BY <1>11 DEF WaitGrants, flow, counts
  <2>3. err' = err \ {w}
    BY <1>11 DEF WaitGrants, Counted
  <2> QED
    BY <2>1, <2>2, <2>3, OtherStep
<1>12. ASSUME NEW w \in Workers, WaitFails(w) PROVE Counted'
  <2>1. /\ \E l \in WorkerPcs \ {"record", "recordErr"} : pc' = [pc EXCEPT ![w] = l]
        /\ pc[w] \notin {"off", "ended", "record", "recordErr"}
    BY <1>12 DEF WaitFails, Goto, WorkerPcs, Holding
  <2>2. UNCHANGED <<main, failed, stats, reported, happened, summary>>
    BY <1>12 DEF WaitFails, flow, counts
  <2>3. err' = err \ {w}
    BY <1>12 DEF WaitFails, Counted
  <2> QED
    BY <2>1, <2>2, <2>3, OtherStep
<1>13. ASSUME NEW w \in Workers, Pick(w) PROVE Counted'
  <2>1. CASE pc' = [pc EXCEPT ![w] = "acquire"] /\ UNCHANGED <<err, happened>>
    <3>1. UNCHANGED <<main, failed, stats, reported, happened, summary>> /\ pc[w] = "pick"
        BY <1>13, <2>1 DEF Pick, flow
    <3>2. err' = err \ {w}
        BY <2>1, <3>1 DEF Counted
    <3> QED
        BY <2>1, <3>1, <3>2, OtherStep DEF WorkerPcs
  <2>2. CASE /\ pc' = [pc EXCEPT ![w] = "record"] /\ err' = err \cup {w}
             /\ happened' = [ops |-> happened.ops + 1, errors |-> happened.errors + 1]
    <3>1. UNCHANGED <<main, failed, stats, reported, summary>> /\ pc[w] = "pick"
        BY <1>13 DEF Pick, flow
    <3> QED
        BY <2>2, <3>1, EndedStep
  <2> QED
    BY <1>13, <2>1, <2>2 DEF Pick, Goto
<1>14. ASSUME NEW w \in Workers, Acquire(w) PROVE Counted'
  <2>1. /\ \E l \in WorkerPcs \ {"record", "recordErr"} : pc' = [pc EXCEPT ![w] = l]
        /\ pc[w] \notin {"off", "ended", "record", "recordErr"}
    BY <1>14 DEF Acquire, Goto, WorkerPcs, Holding
  <2>2. UNCHANGED <<main, failed, stats, reported, happened, summary>>
    BY <1>14 DEF Acquire, flow, counts
  <2>3. err' = err \ {w}
    BY <1>14 DEF Acquire, Counted
  <2> QED
    BY <2>1, <2>2, <2>3, OtherStep
<1>15. ASSUME NEW w \in Workers, AcquireFails(w) PROVE Counted'
  <2>1. /\ pc[w] \in {"pick", "acquire", "exec"} /\ pc' = [pc EXCEPT ![w] = "record"]
        /\ UNCHANGED <<main, failed, stats, reported, summary>>
    BY <1>15 DEF AcquireFails, Goto, flow
  <2>2. happened \in [ops : Nat, errors : Nat]
    BY DEF TypeOK
  <2>3. /\ happened'.ops = happened.ops + 1
        /\ \/ err' = err /\ happened'.errors = happened.errors
           \/ err' = err \cup {w} /\ happened'.errors = happened.errors + 1
    BY <1>15, <2>2 DEF AcquireFails
  <2> QED
    BY <2>1, <2>2, <2>3, EndedStep
<1>16. ASSUME NEW w \in Workers, Execute(w) PROVE Counted'
  <2>1. /\ pc[w] \in {"pick", "acquire", "exec"} /\ pc' = [pc EXCEPT ![w] = "record"]
        /\ UNCHANGED <<main, failed, stats, reported, summary>>
    BY <1>16 DEF Execute, Goto, flow
  <2>2. happened \in [ops : Nat, errors : Nat]
    BY DEF TypeOK
  <2>3. /\ happened'.ops = happened.ops + 1
        /\ \/ err' = err /\ happened'.errors = happened.errors
           \/ err' = err \cup {w} /\ happened'.errors = happened.errors + 1
    BY <1>16, <2>2 DEF Execute
  <2> QED
    BY <2>1, <2>2, <2>3, EndedStep
<1>17. ASSUME NEW w \in Workers, Record(w) PROVE Counted'
  <2>1. /\ pc[w] = "record" /\ UNCHANGED <<main, failed, err, reported, happened, summary>>
        /\ pc' = [pc EXCEPT ![w] = IF w \in err THEN "recordErr" ELSE "release"]
    BY <1>17 DEF Record, Goto, flow
  <2>2. stats \in [hist : Nat, ops : Nat, errors : Nat, intervalOps : Nat, intervalErr : Nat]
    BY DEF TypeOK
  <2>3. /\ stats'.hist = stats.hist + 1 /\ stats'.ops = stats.ops + 1
        /\ stats'.intervalOps = stats.intervalOps + 1
        /\ stats'.errors = stats.errors /\ stats'.intervalErr = stats.intervalErr
    BY <1>17, <2>2 DEF Record
  <2>4. ToRecord' = ToRecord \ {w} /\ w \in ToRecord
    BY <2>1 DEF ToRecord, TypeOK
  <2>5. Cardinality(ToRecord') = Cardinality(ToRecord) - 1
    BY <2>4, PendingFinite, FS_RemoveElement
  <2>6. ErrToRecord' = ErrToRecord
    BY <2>1 DEF ErrToRecord, TypeOK
  <2>7. \A v \in err' : pc'[v] \in {"record", "recordErr", "release"}
    BY <2>1 DEF TypeOK, Counted
  <2>8. \A v \in Workers : pc'[v] = "recordErr" => v \in err'
    BY <2>1 DEF TypeOK, Counted
  <2>9. main \notin {"close", "closing", "returned", "exited"}
    BY <2>1 DEF LockHeld
  <2>10. /\ happened.ops \in Nat /\ reported.ops \in Nat /\ stats.ops \in Nat
         /\ stats.intervalOps \in Nat /\ stats.hist \in Nat
    BY DEF TypeOK
  <2>11. /\ stats'.hist = stats'.ops /\ happened'.ops = stats'.ops + Cardinality(ToRecord')
         /\ reported'.ops + stats'.intervalOps = stats'.ops
    BY <2>1, <2>3, <2>5, <2>10, PendingFinite, CountedSets
  <2>12. /\ happened'.errors = stats'.errors + Cardinality(ErrToRecord')
         /\ reported'.errors + stats'.intervalErr = stats'.errors
    BY <2>1, <2>3, <2>6, CountedSets
  <2> QED
    BY <2>1, <2>7, <2>8, <2>9, <2>11, <2>12 DEF Counted, ToRecord, ErrToRecord
<1>18. ASSUME NEW w \in Workers, RecordError(w) PROVE Counted'
  <2>1. /\ pc[w] = "recordErr" /\ UNCHANGED <<main, failed, err, reported, happened, summary>>
        /\ pc' = [pc EXCEPT ![w] = "release"]
    BY <1>18 DEF RecordError, Goto, flow
  <2>2. stats \in [hist : Nat, ops : Nat, errors : Nat, intervalOps : Nat, intervalErr : Nat]
    BY DEF TypeOK
  <2>3. /\ stats'.hist = stats.hist /\ stats'.ops = stats.ops
        /\ stats'.intervalOps = stats.intervalOps
        /\ stats'.errors = stats.errors + 1 /\ stats'.intervalErr = stats.intervalErr + 1
    BY <1>18, <2>2 DEF RecordError
  <2>4. ErrToRecord' = ErrToRecord \ {w} /\ w \in ErrToRecord
    BY <2>1 DEF ErrToRecord, TypeOK, Counted
  <2>5. Cardinality(ErrToRecord') = Cardinality(ErrToRecord) - 1
    BY <2>4, PendingFinite, FS_RemoveElement
  <2>6. ToRecord' = ToRecord
    BY <2>1 DEF ToRecord, TypeOK
  <2>7. \A v \in err' : pc'[v] \in {"record", "recordErr", "release"}
    BY <2>1 DEF TypeOK, Counted
  <2>8. \A v \in Workers : pc'[v] = "recordErr" => v \in err'
    BY <2>1 DEF TypeOK, Counted
  <2>9. main \notin {"close", "closing", "returned", "exited"}
    BY <2>1 DEF LockHeld
  <2>10. /\ happened.errors \in Nat /\ reported.errors \in Nat /\ stats.errors \in Nat
         /\ stats.intervalErr \in Nat
    BY DEF TypeOK
  <2>11. /\ stats'.hist = stats'.ops /\ happened'.ops = stats'.ops + Cardinality(ToRecord')
         /\ reported'.ops + stats'.intervalOps = stats'.ops
    BY <2>1, <2>3, <2>6, CountedSets
  <2>12. /\ happened'.errors = stats'.errors + Cardinality(ErrToRecord')
         /\ reported'.errors + stats'.intervalErr = stats'.errors
    BY <2>1, <2>3, <2>5, <2>10, PendingFinite, CountedSets
  <2> QED
    BY <2>1, <2>7, <2>8, <2>9, <2>11, <2>12 DEF Counted, ToRecord, ErrToRecord
<1>19. ASSUME NEW w \in Workers, Release(w) PROVE Counted'
  <2>1. /\ \E l \in WorkerPcs \ {"record", "recordErr"} : pc' = [pc EXCEPT ![w] = l]
        /\ pc[w] \notin {"off", "ended", "record", "recordErr"}
    BY <1>19 DEF Release, Goto, WorkerPcs, Holding
  <2>2. UNCHANGED <<main, failed, stats, reported, happened, summary>>
    BY <1>19 DEF Release, flow, counts
  <2>3. err' = err \ {w}
    BY <1>19 DEF Release, Counted
  <2> QED
    BY <2>1, <2>2, <2>3, OtherStep
<1>20. ASSUME NEW b \in {"discover", "close"}, CloseEnds(b) PROVE Counted'
  <2>1. UNCHANGED <<pc, err, stats, reported, happened, summary>>
    BY <1>20 DEF CloseEnds, work, counts
  <2>2. main' \in {"close", "closing", "returned", "exited"} /\ ~failed' =>
          main \in {"close", "closing", "returned", "exited"} /\ ~failed
    BY <1>20 DEF CloseEnds, flow
  <2> QED
    BY <2>1, <2>2 DEF Counted
<1>21. ASSUME NEW b \in {"discover", "close"}, NEW p \in Pools, CloseBegins(b, p) PROVE Counted'
  <2>1. UNCHANGED <<pc, err, stats, reported, happened, summary>>
    BY <1>21 DEF CloseBegins, work, counts
  <2>2. main' \in {"close", "closing", "returned", "exited"} /\ ~failed' =>
          main \in {"close", "closing", "returned", "exited"} /\ ~failed
    BY <1>21 DEF CloseBegins, flow
  <2> QED
    BY <2>1, <2>2 DEF Counted
<1>22. ASSUME Lookup PROVE Counted'
  <2>1. UNCHANGED <<pc, err, stats, reported, happened, summary>>
    BY <1>22 DEF Lookup, work, counts
  <2>2. main' \in {"close", "closing", "returned", "exited"} /\ ~failed' =>
          main \in {"close", "closing", "returned", "exited"} /\ ~failed
    BY <1>22 DEF Lookup, flow
  <2> QED
    BY <2>1, <2>2 DEF Counted
<1>23. ASSUME LookupFails PROVE Counted'
  <2>1. UNCHANGED <<pc, err, stats, reported, happened, summary>>
    BY <1>23 DEF LookupFails, work, counts
  <2>2. main' \in {"close", "closing", "returned", "exited"} /\ ~failed' =>
          main \in {"close", "closing", "returned", "exited"} /\ ~failed
    BY <1>23 DEF LookupFails, flow
  <2> QED
    BY <2>1, <2>2 DEF Counted
<1>24. ASSUME DiscoverEnds PROVE Counted'
  <2>1. UNCHANGED <<pc, err, stats, reported, happened, summary>>
    BY <1>24 DEF DiscoverEnds, work, counts
  <2>2. main' \in {"close", "closing", "returned", "exited"} /\ ~failed' =>
          main \in {"close", "closing", "returned", "exited"} /\ ~failed
    BY <1>24 DEF DiscoverEnds, flow
  <2> QED
    BY <2>1, <2>2 DEF Counted
<1>25. ASSUME DiscoverLocks PROVE Counted'
  <2>1. UNCHANGED <<pc, err, stats, reported, happened, summary>>
    BY <1>25 DEF DiscoverLocks, work, counts
  <2>2. main' \in {"close", "closing", "returned", "exited"} /\ ~failed' =>
          main \in {"close", "closing", "returned", "exited"} /\ ~failed
    BY <1>25 DEF DiscoverLocks, flow
  <2> QED
    BY <2>1, <2>2 DEF Counted
<1>26. ASSUME DiscoverUnlocks PROVE Counted'
  <2>1. UNCHANGED <<pc, err, stats, reported, happened, summary>>
    BY <1>26 DEF DiscoverUnlocks, work, counts
  <2>2. main' \in {"close", "closing", "returned", "exited"} /\ ~failed' =>
          main \in {"close", "closing", "returned", "exited"} /\ ~failed
    BY <1>26 DEF DiscoverUnlocks, flow
  <2> QED
    BY <2>1, <2>2 DEF Counted
<1>27. ASSUME ReportTick PROVE Counted'
  <2>1. UNCHANGED <<pc, err, stats, reported, happened, summary>>
    BY <1>27 DEF ReportTick, work, counts
  <2>2. main' \in {"close", "closing", "returned", "exited"} /\ ~failed' =>
          main \in {"close", "closing", "returned", "exited"} /\ ~failed
    BY <1>27 DEF ReportTick, flow
  <2> QED
    BY <2>1, <2>2 DEF Counted
<1>28. ASSUME SwapOps PROVE Counted'
  <2>1. UNCHANGED <<pc, err, happened, summary, main, failed>>
    BY <1>28 DEF SwapOps, work, flow
  <2>2. /\ stats \in [hist : Nat, ops : Nat, errors : Nat, intervalOps : Nat, intervalErr : Nat]
        /\ reported \in [ops : Nat, errors : Nat]
    BY DEF TypeOK
  <2>3. /\ stats'.hist = stats.hist /\ stats'.ops = stats.ops /\ stats'.errors = stats.errors
        /\ stats'.intervalOps = 0 /\ stats'.intervalErr = stats.intervalErr
        /\ reported'.ops = reported.ops + stats.intervalOps /\ reported'.errors = reported.errors
    BY <1>28, <2>2 DEF SwapOps
  <2>4. reported'.ops + stats'.intervalOps = stats'.ops
    BY <2>2, <2>3 DEF Counted
  <2> QED
    BY <2>1, <2>3, <2>4 DEF Counted
<1>29. ASSUME SwapErr PROVE Counted'
  <2>1. UNCHANGED <<pc, err, happened, summary, main, failed>>
    BY <1>29 DEF SwapErr, work, flow
  <2>2. /\ stats \in [hist : Nat, ops : Nat, errors : Nat, intervalOps : Nat, intervalErr : Nat]
        /\ reported \in [ops : Nat, errors : Nat]
    BY DEF TypeOK
  <2>3. /\ stats'.hist = stats.hist /\ stats'.ops = stats.ops /\ stats'.errors = stats.errors
        /\ stats'.intervalErr = 0 /\ stats'.intervalOps = stats.intervalOps
        /\ reported'.errors = reported.errors + stats.intervalErr /\ reported'.ops = reported.ops
    BY <1>29, <2>2 DEF SwapErr
  <2>4. reported'.errors + stats'.intervalErr = stats'.errors
    BY <2>2, <2>3 DEF Counted
  <2> QED
    BY <2>1, <2>3, <2>4 DEF Counted
<1>30. ASSUME ReportEnds PROVE Counted'
  <2>1. UNCHANGED <<pc, err, stats, reported, happened, summary>>
    BY <1>30 DEF ReportEnds, work, counts
  <2>2. main' \in {"close", "closing", "returned", "exited"} /\ ~failed' =>
          main \in {"close", "closing", "returned", "exited"} /\ ~failed
    BY <1>30 DEF ReportEnds, flow
  <2> QED
    BY <2>1, <2>2 DEF Counted
<1>31. ASSUME SetLimit PROVE Counted'
  <2>1. UNCHANGED <<pc, err, stats, reported, happened, summary>>
    BY <1>31 DEF SetLimit, work, counts
  <2>2. main' \in {"close", "closing", "returned", "exited"} /\ ~failed' =>
          main \in {"close", "closing", "returned", "exited"} /\ ~failed
    BY <1>31 DEF SetLimit, flow
  <2> QED
    BY <2>1, <2>2 DEF Counted
<1>32. ASSUME SetBurst PROVE Counted'
  <2>1. UNCHANGED <<pc, err, stats, reported, happened, summary>>
    BY <1>32 DEF SetBurst, work, counts
  <2>2. main' \in {"close", "closing", "returned", "exited"} /\ ~failed' =>
          main \in {"close", "closing", "returned", "exited"} /\ ~failed
    BY <1>32 DEF SetBurst, flow
  <2> QED
    BY <2>1, <2>2 DEF Counted
<1>33. ASSUME DriverTick PROVE Counted'
  <2>1. UNCHANGED <<pc, err, stats, reported, happened, summary>>
    BY <1>33 DEF DriverTick, work, counts
  <2>2. main' \in {"close", "closing", "returned", "exited"} /\ ~failed' =>
          main \in {"close", "closing", "returned", "exited"} /\ ~failed
    BY <1>33 DEF DriverTick, flow
  <2> QED
    BY <2>1, <2>2 DEF Counted
<1>34. ASSUME Timeout PROVE Counted'
  <2>1. UNCHANGED <<pc, err, stats, reported, happened, summary>>
    BY <1>34 DEF Timeout, work, counts
  <2>2. main' \in {"close", "closing", "returned", "exited"} /\ ~failed' =>
          main \in {"close", "closing", "returned", "exited"} /\ ~failed
    BY <1>34 DEF Timeout, flow
  <2> QED
    BY <2>1, <2>2 DEF Counted
<1>35. ASSUME Signal PROVE Counted'
  <2>1. UNCHANGED <<pc, err, stats, reported, happened, summary>>
    BY <1>35 DEF Signal, work, counts
  <2>2. main' \in {"close", "closing", "returned", "exited"} /\ ~failed' =>
          main \in {"close", "closing", "returned", "exited"} /\ ~failed
    BY <1>35 DEF Signal, flow
  <2> QED
    BY <2>1, <2>2 DEF Counted
<1>36. ASSUME Exit PROVE Counted'
  <2>1. UNCHANGED <<pc, err, stats, reported, happened, summary>>
    BY <1>36 DEF Exit, work, counts
  <2>2. main' \in {"close", "closing", "returned", "exited"} /\ ~failed' =>
          main \in {"close", "closing", "returned", "exited"} /\ ~failed
    BY <1>36 DEF Exit, flow
  <2> QED
    BY <2>1, <2>2 DEF Counted
<1>37. ASSUME AddressesChange PROVE Counted'
  <2>1. UNCHANGED <<pc, err, stats, reported, happened, summary>>
    BY <1>37 DEF AddressesChange, work, counts
  <2>2. main' \in {"close", "closing", "returned", "exited"} /\ ~failed' =>
          main \in {"close", "closing", "returned", "exited"} /\ ~failed
    BY <1>37 DEF AddressesChange, flow
  <2> QED
    BY <2>1, <2>2 DEF Counted
<1>38. ASSUME UNCHANGED vars PROVE Counted'
    BY <1>38 DEF vars, Counted, flow, discover, work, rate, counts
<1> QED
    BY <1>1, <1>2, <1>3, <1>4, <1>5, <1>6, <1>7, <1>8, <1>9, <1>10, <1>11, <1>12, <1>13, <1>14,
       <1>15, <1>16, <1>17, <1>18, <1>19, <1>20, <1>21, <1>22, <1>23, <1>24, <1>25, <1>26,
       <1>27, <1>28, <1>29, <1>30, <1>31, <1>32, <1>33, <1>34, <1>35, <1>36, <1>37, <1>38 DEF
       Next, MainStep, Worker, Closing

-----------------------------------------------------------------------------
(* The invariant holds when the program starts.                            *)
LEMMA InitInv == Init => Inv
<1> SUFFICES ASSUME Init PROVE Inv
    OBVIOUS
<1>1. config \in Flags /\ config.maxRPS \in Int
    BY FlagsAssumption DEF Init
<1>2. waves \in Seq(SUBSET Ips) /\ waves # <<>>
  <2>1. CASE waves \in Waves
    BY <2>1, WavesAssumption
  <2>2. CASE waves = <<{}>>
    BY <2>2
  <2> QED
    BY <2>1, <2>2 DEF Init
<1>3. limiter \in [limit : Int, burst : Int]
    BY <1>1, BurstType DEF Init
<1>4. TypeOK
  <2>1. /\ chosen \in [Workers \cup {Main} -> Pools \cup {None, Gone}]
        /\ warm \in Seq(Pools) /\ pc \in [Workers -> WorkerPcs]
    BY DEF Init, WorkerPcs
  <2>2. /\ stats \in [hist : Nat, ops : Nat, errors : Nat, intervalOps : Nat, intervalErr : Nat]
        /\ reported \in [ops : Nat, errors : Nat] /\ happened \in [ops : Nat, errors : Nat]
        /\ summary \in [ops : Nat, errors : Nat]
    BY DEF Init, Zero
  <2>3. /\ driver \in {"off", "limit", "burst", "idle"} /\ tick \in Nat /\ started \in Nat
        /\ reporter = "off" /\ main = "start" /\ ctx = "live" /\ disc = "off" /\ lock = None
    BY DEF Init
  <2>4. failed \in BOOLEAN
    BY DEF Init
  <2>5. found = {} /\ pods = {} /\ open = {} /\ closing = {} /\ draining = None /\ err = {}
    BY DEF Init
  <2> QED
    BY <1>1, <1>2, <1>3, <2>1, <2>2, <2>3, <2>4, <2>5 DEF TypeOK
<1>5. LockHeld /\ OpenPools
    BY DEF Init, LockHeld, OpenPools, Discovery, None
<1>6. Connected
    BY DEF Init, Connected, Holding
<1>7. Counted
  <2>1. ToRecord = {} /\ ErrToRecord = {}
    BY DEF Init, ToRecord, ErrToRecord
  <2>2. Cardinality(ToRecord) = 0 /\ Cardinality(ErrToRecord) = 0
    BY <2>1, FS_EmptySet
  <2> QED
    BY <2>2, CountedSets DEF Init, Zero
<1>8. LimiterFollows
    BY DEF Init, LimiterFollows, Before
<1> QED
    BY <1>4, <1>5, <1>6, <1>7, <1>8 DEF Inv

(* The invariant is inductive: whatever the number of workers, addresses   *)
(* and steps of the scenario, every state of Engine.Run satisfies it.      *)
THEOREM InvariantHolds == Spec => []Inv
<1>1. Inv /\ [Next]_vars => Inv'
    BY TypeStep, LockStep, OpenStep, ConnectedStep, CountedStep, LimiterStep DEF Inv
<1> QED
    BY <1>1, InitInv, PTL DEF Spec

(* Whenever DiscoveryPool.mu is free every open pool is in the list, also  *)
(* when a discover that waited for the lock gets it after Close.           *)
THEOREM PoolsListedHolds == Spec => []PoolsListed
<1>1. Inv => PoolsListed
    BY DEF Inv, OpenPools, PoolsListed
<1> QED
    BY <1>1, InvariantHolds, PTL

(* FinalSummary counts every operation of every worker once, whatever      *)
(* Snapshot resets meanwhile.                                              *)
THEOREM SummaryHolds == Spec => []SummaryCountsAll
<1>1. Inv => SummaryCountsAll
  <2> SUFFICES ASSUME Inv, main \in {"close", "closing", "returned", "exited"}, ~failed
               PROVE  /\ summary = happened /\ stats.hist = happened.ops
                      /\ reported.ops + stats.intervalOps = summary.ops
                      /\ reported.errors + stats.intervalErr = summary.errors
    BY DEF SummaryCountsAll
  <2>1. \A w \in Workers : pc[w] \in {"off", "ended"}
    BY DEF Inv, LockHeld
  <2>2. ToRecord = {} /\ ErrToRecord = {}
    BY <2>1 DEF Inv, TypeOK, ToRecord, ErrToRecord
  <2>3. Cardinality(ToRecord) = 0 /\ Cardinality(ErrToRecord) = 0
    BY <2>2, FS_EmptySet
  <2>4. /\ stats.ops \in Nat /\ stats.errors \in Nat
        /\ happened \in [ops : Nat, errors : Nat]
    BY DEF Inv, TypeOK
  <2>5. happened.ops = stats.ops /\ happened.errors = stats.errors
    BY <2>3, <2>4, CountedSets DEF Inv
  <2>6. happened = [ops |-> stats.ops, errors |-> stats.errors]
    BY <2>4, <2>5
  <2> QED
    BY <2>5, <2>6 DEF Inv, Counted
<1> QED
    BY <1>1, InvariantHolds, PTL

(* Whatever the cap and the scenario, the limiter has a finite limit and   *)
(* no burst only inside the SetRate that ends an unlimited rate.           *)
THEOREM BurstlessHolds == Spec => []BurstlessOnlyAfterUnlimited
<1>1. Inv => BurstlessOnlyAfterUnlimited
  <2> SUFFICES ASSUME Inv, limiter.limit # 0, limiter.burst = 0
               PROVE  driver = "burst" /\ Before <= 0
    BY DEF BurstlessOnlyAfterUnlimited, Burstless
  <2>1. Before \in Int /\ (driver # "off" => Rate \in Int)
    BY RateType DEF Inv, LimiterFollows
  <2>2. CASE driver \in {"off", "limit"}
    <3>1. limiter.limit = Limit(Before) /\ limiter.burst = Burst(Before)
        BY <2>2 DEF Inv, LimiterFollows
    <3>2. Burst(Before) >= 1
        BY <2>1, <3>1, BurstType
    <3> QED
        BY <3>1, <3>2
  <2>3. CASE driver = "idle"
    <3>1. limiter.limit = Limit(Rate) /\ limiter.burst = Burst(Rate) /\ Rate \in Int
        BY <2>1, <2>3 DEF Inv, LimiterFollows
    <3>2. Burst(Rate) >= 1
        BY <3>1, BurstType
    <3> QED
        BY <3>1, <3>2
  <2>4. CASE driver = "burst"
    BY <2>1, <2>4, BurstType DEF Inv, LimiterFollows
  <2> QED
    BY <2>2, <2>3, <2>4 DEF Inv, TypeOK
<1> QED
    BY <1>1, InvariantHolds, PTL
=============================================================================
