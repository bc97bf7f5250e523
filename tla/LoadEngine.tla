----------------------------- MODULE LoadEngine -----------------------------
(***************************************************************************)
(* One run of the load generator (loadgen run): Engine.Run with its warm-  *)
(* up, its workers and its reporter, the rate limiter that drivePattern    *)
(* moves under them, the statistics they share, and the connection pools:  *)
(* one fixed pool (--db-url), or one pool for each address the service     *)
(* name resolves to (--discovery-host), which a goroutine opens and closes *)
(* as the addresses change.                                                *)
(*                                                                         *)
(* pgxpool and x/time/rate are external: a pool hands out at most MaxConns *)
(* connections, its Close refuses new ones and waits for the ones out, and *)
(* Limiter.Wait refuses under a finite limit, always when the burst is 0   *)
(* and otherwise when the token would come after the deadline.             *)
(***************************************************************************)
EXTENDS LoadPattern, FiniteSets

CONSTANTS
    Workers,        \* the --concurrency worker goroutines
    Ips,            \* addresses the service name may resolve to
    Unparsable,     \* addresses no pool can be built for
    Flags,          \* the command lines: mode, MaxConns, --max-rps (in 1/Scale) and
                    \* scenario; and tokens, a bound on what the limiter grants
    Waves,          \* address sets the service name resolves to, one after another
    MaxTicks        \* bound: ticks of drivePattern

ASSUME WorkersAssumption == IsFiniteSet(Workers) /\ Workers # {}
ASSUME FlagsAssumption ==
    \A f \in Flags :
        /\ f.mode \in {"discovery", "fixed"}
        /\ f.conns \in Nat \ {0}
        /\ f.mode = "discovery" => f.conns = Cardinality(Workers) + 2
        /\ f.maxRPS \in Int
        /\ f.scenario = <<>> \/ IsPattern(f.scenario)
        /\ f.tokens \in Nat
ASSUME WavesAssumption ==
    Unparsable \subseteq Ips /\ \A s \in Waves : s \in Seq(SUBSET Ips) /\ Len(s) > 0
ASSUME NamesAssumption == {"db", "none", "gone"} \cap Ips = {} /\ "main" \notin Workers
ASSUME BoundAssumption == MaxTicks \in Nat

Main == "main"
DB   == "db"                    \* the fixed pool
None == "none"
Gone == "gone"                  \* the pool chosen was closed since

Pools == Ips \cup {DB}

VARIABLES
    config,     \* the flags of this run
    waves,      \* what the service name resolves to, now and later
    main,       \* where Engine.Run is
    failed,     \* it is about to return an error
    ctx,        \* "live", "timeout" when the duration has passed, "signal"
    disc,       \* where discover is
    found,      \* the addresses its lookup returned
    lock,       \* who holds DiscoveryPool.mu for writing
    pods,       \* DiscoveryPool.pods
    open,       \* pools open, or closing with connections still out
    closing,    \* pools the holder of the lock still has to close
    draining,   \* the one it waits for
    chosen,     \* the pool main or a worker takes a connection from
    warm,       \* the warm-up's connections, as the sequence of their pools
    pc,         \* where each worker is
    err,        \* workers whose operation failed
    started,    \* tokens granted
    limiter,    \* its limit (0 for Inf) and its burst
    driver,     \* where drivePattern is
    tick,       \* and its elapsed time
    reporter,   \* where the reporter is
    stats,      \* the counters of Stats
    reported,   \* what the snapshots said so far
    happened,   \* operations that ended, and how many of them failed
    summary     \* FinalSummary

flow     == <<main, failed, ctx>>
discover == <<disc, found, lock, pods, open, closing, draining>>
work     == <<pc, err, started>>
rate     == <<limiter, driver, tick>>
counts   == <<reporter, stats, reported, happened, summary>>
vars     == <<config, waves, flow, discover, chosen, warm, work, rate, counts>>

Discovery == config.mode = "discovery"
dns       == Head(waves)
Zero      == [ops |-> 0, errors |-> 0]

(* The limiter for a rate: unlimited and without a burst for a rate that   *)
(* is not positive; else the burst is the whole part, at least 1.          *)
Limit(rps) == IF rps <= 0 THEN 0 ELSE rps

(* Faulty variant: the whole part, even if it is 0.                        *)
BurstTruncated(rps) == IF rps <= 0 THEN 0 ELSE rps \div Scale

Burst(rps) ==
    IF rps <= 0 THEN 0
    ELSE IF rps \div Scale < 1 THEN 1 ELSE rps \div Scale

Init ==
    /\ config \in Flags
    /\ waves \in IF config.mode = "discovery" THEN Waves ELSE {<<{}>>}
    /\ main = "start" /\ failed = FALSE /\ ctx = "live"
    /\ disc = "off" /\ found = {} /\ lock = None
    /\ pods = {} /\ open = {} /\ closing = {} /\ draining = None
    /\ chosen = [p \in Workers \cup {Main} |-> None]
    /\ warm = <<>>
    /\ pc = [w \in Workers |-> "off"] /\ err = {} /\ started = 0
    /\ limiter = [limit |-> Limit(config.maxRPS), burst |-> Burst(config.maxRPS)]
    /\ driver = IF config.scenario = <<>> THEN "off" ELSE "limit"
    /\ tick = 0
    /\ reporter = "off"
    /\ stats = [hist |-> 0, ops |-> 0, errors |-> 0, intervalOps |-> 0, intervalErr |-> 0]
    /\ reported = Zero /\ happened = Zero /\ summary = Zero

Returned == main \in {"returned", "exited"}
Exited   == main = "exited"
runDone  == ctx # "live"        \* runCtx is done; the outer context is at a signal

-----------------------------------------------------------------------------
(* Pools.                                                                  *)

Holding == {"exec", "record", "recordErr", "release"}

(* Connections of pool p that are out.                                     *)
Out(p) ==
    Cardinality({w \in Workers : pc[w] \in Holding /\ chosen[w] = p})
      + Cardinality({i \in DOMAIN warm : warm[i] = p})

(* Whoever chose the pool and holds no connection of it gets an error.     *)
Refuse(p) ==
    chosen' = [q \in DOMAIN chosen |->
                 IF chosen[q] = p /\ ~(q \in Workers /\ pc[q] \in Holding)
                 THEN Gone ELSE chosen[q]]

(* pool.Close: no new connection, then wait for the ones out.              *)
CloseBegins(by, p) ==
    /\ lock = by /\ draining = None /\ p \in closing
    /\ draining' = p
    /\ Refuse(p)
    /\ UNCHANGED <<config, waves, flow, disc, found, lock, pods, open, closing,
                   warm, work, rate, counts>>

CloseEnds(by) ==
    /\ lock = by /\ draining # None /\ Out(draining) = 0
    /\ open' = open \ {draining} /\ closing' = closing \ {draining}
    /\ draining' = None
    /\ UNCHANGED <<config, waves, flow, disc, found, lock, pods, chosen,
                   warm, work, rate, counts>>

-----------------------------------------------------------------------------
(* DiscoveryPool.discover, called by Start and then at every tick of the   *)
(* goroutine Start leaves behind, which Close does not stop: it ends with  *)
(* the outer context or with the process.                                  *)

Lookup ==
    /\ disc = "idle" /\ dns # {}
    /\ found' = dns
    /\ disc' = "lock"
    /\ UNCHANGED <<config, waves, flow, lock, pods, open, closing, draining,
                   chosen, warm, work, rate, counts>>

(* The lookup fails, as it also does for a name without addresses: the     *)
(* goroutine ignores that and tries again, Start returns the error.        *)
LookupFails ==
    /\ main = "starting" /\ disc = "idle"
    /\ disc' = "off"
    /\ main' = "returned" /\ failed' = TRUE
    /\ UNCHANGED <<config, waves, ctx, found, lock, pods, open, closing,
                   draining, chosen, warm, work, rate, counts>>

DiscoverEnds ==
    /\ main # "starting" /\ disc = "idle" /\ ctx = "signal"
    /\ disc' = "off"
    /\ UNCHANGED <<config, waves, flow, found, lock, pods, open, closing, draining,
                   chosen, warm, work, rate, counts>>

(* Faulty variant: a lookup of as many addresses as there are pools        *)
(* changes nothing.                                                        *)
DiscoverLocksOnCount ==
    /\ disc = "lock" /\ lock = None
    /\ lock' = "discover"
    /\ found' = IF Cardinality(found) = Cardinality(pods) THEN pods ELSE found
    /\ open' = open \cup (found' \ Unparsable)
    /\ closing' = pods \ found'
    /\ disc' = "locked"
    /\ UNCHANGED <<config, waves, flow, pods, draining, chosen, warm, work,
                   rate, counts>>

(* Faulty variant: the pools of vanished addresses stay open.              *)
DiscoverLocksOnly ==
    /\ disc = "lock" /\ lock = None
    /\ lock' = "discover"
    /\ open' = open \cup (found \ Unparsable)
    /\ closing' = {}
    /\ disc' = "locked"
    /\ UNCHANGED <<config, waves, flow, found, pods, draining, chosen, warm, work,
                   rate, counts>>

(* Under the lock: pools for the new addresses, where one can be built,    *)
(* and the pools of the vanished ones to close.                            *)
DiscoverLocks ==
    /\ disc = "lock" /\ lock = None
    /\ lock' = "discover"
    /\ open' = open \cup (found \ Unparsable)
    /\ closing' = pods \ found
    /\ disc' = "locked"
    /\ UNCHANGED <<config, waves, flow, found, pods, draining, chosen, warm, work,
                   rate, counts>>

DiscoverUnlocks ==
    /\ disc = "locked" /\ closing = {}
    /\ pods' = found \ Unparsable
    /\ lock' = None
    /\ found' = {}
    /\ disc' = "idle"
    /\ main' = IF main = "starting" THEN "prepare" ELSE main
    /\ UNCHANGED <<config, waves, failed, ctx, open, closing, draining,
                   chosen, warm, work, rate, counts>>

-----------------------------------------------------------------------------
(* Engine.Run and Engine.run.                                              *)

Readable == lock = None

Start ==
    /\ main = "start"
    /\ \/ Discovery /\ main' = "starting" /\ disc' = "idle" /\ UNCHANGED <<failed, open>>
       \/ ~Discovery /\ main' = "prepare" /\ open' = {DB} /\ UNCHANGED <<disc, failed>>
       \/ ~Discovery /\ main' = "returned" /\ failed' = TRUE /\ UNCHANGED <<disc, open>>
    /\ UNCHANGED <<config, waves, ctx, found, lock, pods, closing, draining,
                   chosen, warm, work, rate, counts>>

(* AnyPool; a workload without Prepare, or no pool, goes on to the warm-up. *)
PreparePick ==
    /\ main = "prepare" /\ Readable
    /\ \/ main' = "warm" /\ UNCHANGED chosen
       \/ \E p \in IF Discovery THEN pods ELSE {DB} :
             main' = "preparing" /\ chosen' = [chosen EXCEPT ![Main] = p]
    /\ UNCHANGED <<config, waves, failed, ctx, discover, warm, work, rate,
                   counts>>

Prepare ==
    /\ main = "preparing"
    /\ \/ chosen[Main] # Gone /\ ~runDone /\ main' = "warm" /\ UNCHANGED failed
       \/ main' = "close" /\ failed' = TRUE
    /\ chosen' = [chosen EXCEPT ![Main] = None]
    /\ UNCHANGED <<config, waves, ctx, discover, warm, work, rate, counts>>

(* The warm-up takes a connection for every worker before it releases one. *)
WarmPick ==
    /\ main = "warm" /\ Len(warm) < Cardinality(Workers)
    /\ Discovery => Readable
    /\ \/ \E p \in IF Discovery THEN pods ELSE {DB} :
             main' = "warming" /\ chosen' = [chosen EXCEPT ![Main] = p]
       \/ Discovery /\ pods = {} /\ main' = "warmed" /\ UNCHANGED chosen
    /\ UNCHANGED <<config, waves, failed, ctx, discover, warm, work, rate,
                   counts>>

WarmAcquire ==
    /\ main = "warming"
    /\ \/ /\ chosen[Main] # Gone /\ ~runDone /\ Out(chosen[Main]) < config.conns
          /\ warm' = Append(warm, chosen[Main])
          /\ main' = IF Len(warm') = Cardinality(Workers) THEN "warmed" ELSE "warm"
       \/ chosen[Main] = Gone /\ main' = "warmed" /\ UNCHANGED warm
       \/ runDone /\ main' = "warmed" /\ UNCHANGED warm
       \/ Out(chosen[Main]) < config.conns /\ main' = "warmed" /\ UNCHANGED warm
    /\ chosen' = [chosen EXCEPT ![Main] = None]
    /\ UNCHANGED <<config, waves, failed, ctx, discover, work, rate, counts>>

(* Faulty variant: the warm-up's connections are not released.             *)
SpawnKeeping ==
    /\ main = "warmed"
    /\ pc' = [w \in Workers |-> "top"]
    /\ reporter' = "idle"
    /\ main' = "working"
    /\ UNCHANGED <<config, waves, failed, ctx, discover, chosen, warm, err, started,
                   rate, stats, reported, happened, summary>>

(* Everything back, fresh statistics, workers and reporter started.        *)
Spawn ==
    /\ main = "warmed"
    /\ warm' = <<>>
    /\ pc' = [w \in Workers |-> "top"]
    /\ reporter' = "idle"
    /\ main' = "working"
    /\ UNCHANGED <<config, waves, failed, ctx, discover, chosen, err, started,
                   rate, stats, reported, happened, summary>>

(* Faulty variant: the summary does not wait for the workers.              *)
SummaryEarly ==
    /\ main = "working" /\ reporter = "ended"
    /\ summary' = [ops |-> stats.ops, errors |-> stats.errors]
    /\ main' = "close"
    /\ UNCHANGED <<config, waves, failed, ctx, discover, chosen, warm, work,
                   rate, reporter, stats, reported, happened>>

(* wg.Wait, then the reporter, then FinalSummary.                          *)
Summarise ==
    /\ main = "working" /\ reporter = "ended"
    /\ \A w \in Workers : pc[w] = "ended"
    /\ summary' = [ops |-> stats.ops, errors |-> stats.errors]
    /\ main' = "close"
    /\ UNCHANGED <<config, waves, failed, ctx, discover, chosen, warm, work,
                   rate, reporter, stats, reported, happened>>

(* The deferred Close of the discovery pool or of the fixed one.  It waits *)
(* for the lock like anyone else, and a discover that waits for it         *)
(* meanwhile gets it after Return.                                         *)
CloseLocks ==
    /\ main = "close" /\ lock = None
    /\ lock' = "close" /\ closing' = IF Discovery THEN pods ELSE {DB}
    /\ main' = "closing"
    /\ UNCHANGED <<config, waves, failed, ctx, disc, found, pods, open,
                   draining, chosen, warm, work, rate, counts>>

Return ==
    /\ main = "closing" /\ closing = {}
    /\ lock' = None /\ pods' = {}
    /\ main' = "returned"
    /\ UNCHANGED <<config, waves, failed, ctx, disc, found, open, closing,
                   draining, chosen, warm, work, rate, counts>>

(* The command prints the summary, or the error, and the process ends with *)
(* every goroutine that is left.                                           *)
Exit ==
    /\ main = "returned"
    /\ main' = "exited"
    /\ UNCHANGED <<config, waves, failed, ctx, discover, chosen, warm, work, rate, counts>>

-----------------------------------------------------------------------------
(* workerLoop.                                                             *)

Goto(w, l) == pc' = [pc EXCEPT ![w] = l]

Top(w) ==
    /\ pc[w] = "top"
    /\ Goto(w, IF runDone THEN "ended" ELSE "wait")
    /\ UNCHANGED <<config, waves, flow, discover, chosen, warm, err, started, rate, counts>>

(* Limiter.Wait: a finite limit grants nothing without a burst.            *)
Burstless == limiter.limit # 0 /\ limiter.burst = 0

WaitGrants(w) ==
    /\ pc[w] = "wait" /\ ~runDone /\ ~Burstless /\ started < config.tokens
    /\ started' = started + 1
    /\ Goto(w, "pick")
    /\ UNCHANGED <<config, waves, flow, discover, chosen, warm, err, rate, counts>>

(* It refuses at once, and the worker leaves for good, when the token that *)
(* is free after those already reserved comes after the deadline: near the *)
(* end of the run, or at any time with a low rate and many workers.        *)
WaitFails(w) ==
    /\ pc[w] = "wait" /\ (runDone \/ limiter.limit # 0)
    /\ Goto(w, "ended")
    /\ UNCHANGED <<config, waves, flow, discover, chosen, warm, err, started, rate, counts>>

(* AcquireForWorker chooses the pod; LookupHost gives no order to rely on. *)
Pick(w) ==
    /\ pc[w] = "pick"
    /\ Discovery => Readable
    /\ \/ \E p \in IF Discovery THEN pods ELSE {DB} :
             /\ chosen' = [chosen EXCEPT ![w] = p]
             /\ Goto(w, "acquire")
             /\ UNCHANGED <<err, happened>>
       \/ /\ Discovery /\ pods = {}
          /\ Goto(w, "record") /\ err' = err \cup {w}
          /\ happened' = [ops |-> happened.ops + 1, errors |-> happened.errors + 1]
          /\ UNCHANGED chosen
    /\ UNCHANGED <<config, waves, flow, discover, warm, started, rate, reporter, stats,
                   reported, summary>>

Acquire(w) ==
    /\ pc[w] = "acquire" /\ chosen[w] # Gone /\ ~runDone /\ Out(chosen[w]) < config.conns
    /\ Goto(w, "exec")
    /\ UNCHANGED <<config, waves, flow, discover, chosen, warm, err, started, rate, counts>>

(* The pool is closed, the run is over, or no connection can be made.      *)
AcquireFails(w) ==
    /\ pc[w] = "acquire"
    /\ chosen[w] = Gone \/ runDone \/ Out(chosen[w]) < config.conns
    /\ chosen' = [chosen EXCEPT ![w] = None]
    /\ Goto(w, "record") /\ err' = err \cup {w}
    /\ happened' = [ops |-> happened.ops + 1, errors |-> happened.errors + 1]
    /\ UNCHANGED <<config, waves, flow, discover, warm, started, rate, reporter, stats,
                   reported, summary>>

Execute(w) ==
    /\ pc[w] = "exec"
    /\ \/ err' = err /\ happened' = [happened EXCEPT !.ops = @ + 1]
       \/ /\ err' = err \cup {w}
          /\ happened' = [ops |-> happened.ops + 1, errors |-> happened.errors + 1]
    /\ Goto(w, "record")
    /\ UNCHANGED <<config, waves, flow, discover, chosen, warm, started, rate, reporter,
                   stats, reported, summary>>

(* Stats.Record: the histogram, totalOps and intervalOps, taken as one     *)
(* step, then the errors.  Of the first three only intervalOps enters a    *)
(* sum that is read before the workers have ended; the TotalOps and the    *)
(* quantiles that a snapshot prints (intervalHist) are left out.           *)
Record(w) ==
    /\ pc[w] = "record"
    /\ stats' = [stats EXCEPT !.hist = @ + 1, !.ops = @ + 1, !.intervalOps = @ + 1]
    /\ Goto(w, IF w \in err THEN "recordErr" ELSE "release")
    /\ UNCHANGED <<config, waves, flow, discover, chosen, warm, err, started, rate,
                   reporter, reported, happened, summary>>

RecordError(w) ==
    /\ pc[w] = "recordErr"
    /\ stats' = [stats EXCEPT !.errors = @ + 1, !.intervalErr = @ + 1]
    /\ Goto(w, "release")
    /\ UNCHANGED <<config, waves, flow, discover, chosen, warm, err, started, rate,
                   reporter, reported, happened, summary>>

(* conn.Release, or the pause after an Acquire that failed.                *)
Release(w) ==
    /\ pc[w] = "release"
    /\ Goto(w, IF chosen[w] = None /\ runDone THEN "ended" ELSE "top")
    /\ chosen' = [chosen EXCEPT ![w] = None]
    /\ err' = err \ {w}
    /\ UNCHANGED <<config, waves, flow, discover, warm, started, rate, counts>>

-----------------------------------------------------------------------------
(* The reporter: Stats.Snapshot swaps one counter, then the other.         *)

ReportTick ==
    /\ reporter = "idle"
    /\ stats.intervalOps + stats.intervalErr > 0      \* bound: no empty snapshots
    /\ reporter' = "swapOps"
    /\ UNCHANGED <<config, waves, flow, discover, chosen, warm, work, rate, stats, reported,
                   happened, summary>>

(* Faulty variant: the interval restarts when the snapshot is complete.    *)
SwapOpsLater ==
    /\ reporter = "swapOps"
    /\ reported' = [reported EXCEPT !.ops = @ + stats.intervalOps]
    /\ reporter' = "swapErr"
    /\ UNCHANGED <<config, waves, flow, discover, chosen, warm, work, rate, stats, happened,
                   summary>>

SwapOps ==
    /\ reporter = "swapOps"
    /\ reported' = [reported EXCEPT !.ops = @ + stats.intervalOps]
    /\ stats' = [stats EXCEPT !.intervalOps = 0]
    /\ reporter' = "swapErr"
    /\ UNCHANGED <<config, waves, flow, discover, chosen, warm, work, rate, happened, summary>>

SwapErr ==
    /\ reporter = "swapErr"
    /\ reported' = [reported EXCEPT !.errors = @ + stats.intervalErr]
    /\ stats' = [stats EXCEPT !.intervalErr = 0]
    /\ reporter' = "idle"
    /\ UNCHANGED <<config, waves, flow, discover, chosen, warm, work, rate, happened, summary>>

ReportEnds ==
    /\ reporter = "idle" /\ runDone
    /\ reporter' = "ended"
    /\ UNCHANGED <<config, waves, flow, discover, chosen, warm, work, rate, stats, reported,
                   happened, summary>>

-----------------------------------------------------------------------------
(* drivePattern: the initial rate at once, then one at every tick.         *)
(* SetRate moves the limit first and the burst after it.                   *)

Rate   == RPS(config.scenario, tick)
Before == IF tick = 0 THEN config.maxRPS ELSE RPS(config.scenario, tick - 1)

SetLimit ==
    /\ driver = "limit"
    /\ limiter' = [limiter EXCEPT !.limit = Limit(Rate)]
    /\ driver' = "burst"
    /\ UNCHANGED <<config, waves, flow, discover, chosen, warm, work, tick, counts>>

SetBurst ==
    /\ driver = "burst"
    /\ limiter' = [limiter EXCEPT !.burst = Burst(Rate)]
    /\ driver' = "idle"
    /\ UNCHANGED <<config, waves, flow, discover, chosen, warm, work, tick, counts>>

DriverTick ==
    /\ driver = "idle" /\ tick < MaxTicks
    /\ tick' = tick + 1
    /\ driver' = "limit"
    /\ UNCHANGED <<config, waves, flow, discover, chosen, warm, work, limiter, counts>>

-----------------------------------------------------------------------------
(* The world: time, a signal, the addresses behind the service name.       *)

Running == main \in {"warm", "warming", "warmed", "working"}

(* Engine.run starts the clock, with a fixed pool before Prepare.          *)
Timeout ==
    /\ Running \/ (main = "preparing" /\ ~Discovery)
    /\ ctx = "live" /\ ctx' = "timeout"
    /\ UNCHANGED <<config, waves, main, failed, discover, chosen, warm, work, rate,
                   counts>>

(* To a run on a fixed pool a signal is a Timeout.                         *)
Signal ==
    /\ Running => Discovery
    /\ ctx = "live" /\ ctx' = "signal"
    /\ UNCHANGED <<config, waves, main, failed, discover, chosen, warm, work, rate,
                   counts>>

AddressesChange ==
    /\ Len(waves) > 1
    /\ waves' = Tail(waves)
    /\ UNCHANGED <<config, flow, discover, chosen, warm, work, rate, counts>>

-----------------------------------------------------------------------------
Worker(w) ==
    \/ Top(w) \/ WaitGrants(w) \/ WaitFails(w) \/ Pick(w) \/ Acquire(w) \/ AcquireFails(w)
    \/ Execute(w) \/ Record(w) \/ RecordError(w) \/ Release(w)

Closing == \E by \in {"discover", "close"} : CloseEnds(by) \/ \E p \in Pools : CloseBegins(by, p)

MainStep ==
    \/ Start \/ PreparePick \/ Prepare \/ WarmPick \/ WarmAcquire \/ Spawn
    \/ Summarise \/ CloseLocks \/ Return \/ Exit

(* Nothing runs once the process has ended.                                *)
Next ==
    /\ ~Exited
    /\ \/ MainStep
       \/ \E w \in Workers : Worker(w)
       \/ Closing
       \/ Lookup \/ LookupFails \/ DiscoverEnds \/ DiscoverLocks \/ DiscoverUnlocks
       \/ ReportTick \/ SwapOps \/ SwapErr \/ ReportEnds
       \/ SetLimit \/ SetBurst \/ DriverTick
       \/ Timeout \/ Signal \/ AddressesChange

Spec == Init /\ [][Next]_vars

(* Go's scheduler runs every goroutine and its mutexes starve nobody; a    *)
(* query ends, or is cancelled with runCtx; a lookup does not fail for     *)
(* ever.  Nothing is assumed of the deadline, signals, the addresses and   *)
(* the ticks of drivePattern.                                              *)
Fairness ==
    /\ SF_vars(MainStep)
    /\ \A w \in Workers : SF_vars(Worker(w))
    /\ WF_vars(~Exited /\ Closing)
    /\ WF_vars(~Exited /\ Lookup) /\ WF_vars(LookupFails)
    /\ SF_vars(~Exited /\ DiscoverLocks) /\ WF_vars(~Exited /\ DiscoverUnlocks)
    /\ WF_vars(SwapOps) /\ WF_vars(SwapErr) /\ WF_vars(ReportEnds)
    /\ WF_vars(~Exited /\ SetLimit) /\ WF_vars(~Exited /\ SetBurst)

FairSpec == Spec /\ Fairness

-----------------------------------------------------------------------------
(* The state of every goroutine is one the code has, and the counters only *)
(* count.                                                                  *)
WorkerPcs == Holding \cup {"off", "top", "wait", "pick", "acquire", "ended"}
TypeOK ==
    /\ config \in Flags /\ waves \in Seq(SUBSET Ips) /\ waves # <<>>
    /\ main \in {"start", "starting", "prepare", "preparing", "warm", "warming", "warmed",
                 "working", "close", "closing", "returned", "exited"}
    /\ ctx \in {"live", "timeout", "signal"} /\ failed \in BOOLEAN
    /\ disc \in {"off", "idle", "lock", "locked"}
    /\ lock \in {None, "discover", "close"}
    /\ found \subseteq Ips /\ pods \subseteq Ips \ Unparsable /\ open \subseteq Pools
    /\ closing \subseteq Pools /\ draining \in Pools \cup {None}
    /\ chosen \in [Workers \cup {Main} -> Pools \cup {None, Gone}]
    /\ warm \in Seq(Pools)
    /\ pc \in [Workers -> WorkerPcs]
    /\ err \subseteq Workers /\ started \in Nat
    /\ limiter \in [limit : Int, burst : Int]
    /\ driver \in {"off", "limit", "burst", "idle"} /\ tick \in Nat
    /\ reporter \in {"off", "idle", "swapOps", "swapErr", "ended"}
    /\ stats \in [hist : Nat, ops : Nat, errors : Nat, intervalOps : Nat, intervalErr : Nat]
    /\ reported \in [ops : Nat, errors : Nat]
    /\ happened \in [ops : Nat, errors : Nat]
    /\ summary \in [ops : Nat, errors : Nat]

(* Who holds the lock is at the step that needs it, and alone has pools to *)
(* close; workers run while Run waits for them.                            *)
LockHeld ==
    /\ lock = "discover" <=> disc = "locked"
    /\ lock = "close" <=> main = "closing"
    /\ lock = None => closing = {}
    /\ draining # None => draining \in closing
    /\ main = "start" \/ ~Discovery => disc = "off" /\ pods = {}
    /\ \A w \in Workers : pc[w] \notin {"off", "ended"} => main = "working"

(* The pools open at each stage.                                           *)
OpenPools ==
    /\ Discovery => /\ lock = None => open = pods
                    /\ lock = "discover" => /\ open = (found \ Unparsable) \cup closing
                                            /\ closing \cap found = {}
                    /\ lock = "close" => open = closing
    /\ ~Discovery /\ main \notin {"start", "closing", "returned", "exited"} => open = {DB}

(* A worker takes connections of open pools only, and keeps them open.     *)
Connected ==
    /\ main = "warming" => chosen[Main] # None
    /\ \A w \in Workers :
        /\ pc[w] \in {"off", "top", "wait", "pick", "ended"} => chosen[w] = None
        /\ pc[w] = "acquire" => chosen[w] \in (open \ {draining}) \cup {Gone}
        /\ pc[w] \in Holding => chosen[w] \in open \cup {None}
        /\ pc[w] = "exec" => chosen[w] \in open

(* What the counters miss is what the workers are still to record; the     *)
(* snapshots and the current interval add up to the totals.                *)
Counted ==
    /\ stats.hist = stats.ops
    /\ happened.ops = stats.ops + Cardinality({w \in Workers : pc[w] = "record"})
    /\ happened.errors =
         stats.errors + Cardinality({w \in err : pc[w] \in {"record", "recordErr"}})
    /\ reported.ops + stats.intervalOps = stats.ops
    /\ reported.errors + stats.intervalErr = stats.errors
    /\ \A w \in err : pc[w] \in {"record", "recordErr", "release"}
    /\ \A w \in Workers : pc[w] = "recordErr" => w \in err
    /\ main \in {"close", "closing", "returned", "exited"} /\ ~failed =>
         summary = [ops |-> stats.ops, errors |-> stats.errors]

(* SetRate sets the limit of the new rate, then its burst; between two     *)
(* calls both are those of one rate.                                       *)
LimiterFollows ==
    /\ driver = "off" => tick = 0
    /\ driver # "off" => config.scenario # <<>>
    /\ limiter.limit = Limit(IF driver \in {"off", "limit"} THEN Before ELSE Rate)
    /\ limiter.burst = Burst(IF driver = "idle" THEN Rate ELSE Before)

(* Outside the lock every open pool is listed in pods, so that none is     *)
(* left behind when its address goes, and a Close that has the lock closes *)
(* all there are.  (A discover that waits for the lock while Close holds   *)
(* it opens pools again; they are listed too, and end with the process.)   *)
PoolsListed == Discovery /\ lock = None => open = pods

(* The summary counts every operation that ended, once, whatever the       *)
(* snapshots taken meanwhile reset; and what the snapshots reported, with  *)
(* what was left of the last interval, is the summary.                     *)
SummaryCountsAll ==
    main \in {"close", "closing", "returned", "exited"} /\ ~failed =>
        /\ summary = happened /\ stats.hist = happened.ops
        /\ reported.ops + stats.intervalOps = summary.ops
        /\ reported.errors + stats.intervalErr = summary.errors

(* A finite limit without a burst, which turns every worker that asks away *)
(* for good, exists only between the two calls of the SetRate that ends an *)
(* unlimited rate: whatever the cap and the steps of the scenario, ramps   *)
(* below one request a second and steps at rate 0 included, a SetRate from *)
(* one finite rate to another and a finite cap leave the limiter usable    *)
(* throughout (New, SetRate, drivePattern).                                *)
BurstlessOnlyAfterUnlimited == Burstless => driver = "burst" /\ Before <= 0

(* The inductive invariant: what the three facts above rest on.            *)
Inv == TypeOK /\ LockHeld /\ OpenPools /\ Connected /\ Counted /\ LimiterFollows

(* Discover waits, with the lock, for a connection the warm-up keeps until *)
(* it has read the list of pods.                                           *)
Stuck ==
    /\ lock = "discover" /\ main = "warm"
    /\ \E i \in DOMAIN warm : warm[i] = draining

(* When the duration has passed or a signal arrived, Run returns, unless   *)
(* the warm-up and discover wait for each other.                           *)
RunReturns == runDone ~> (Returned \/ Stuck)

(* While the run lasts, the pods it loads become those the service name    *)
(* resolves to, once these stop changing.                                  *)
PodsFollowDNS ==
    <>[](dns # {} /\ Running /\ ctx # "signal" /\ ~Stuck) => <>[](pods = dns \ Unparsable)
=============================================================================
