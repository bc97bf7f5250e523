# Verification of the CNPG scale and storage controllers and their experiment runner

This directory holds TLA+ models of the repository's own logic, TLC runs that
check them on small instances, and TLAPS proofs of the most important
properties for every value of the constants. `PROJECT.json` lists the parts,
the runs, the source lines behind every definition, the hazards and the
theorems.

    tlc -config scale_reload.cfg MCScale      # one run
    tlapm ScaleControllerProofs.tla           # one proof module

## 1. The system

Two controllers act on one CloudNativePG `Cluster` resource, a load generator
stresses the database behind it, and an experiment runner ties them together.

| Part | Source | State it keeps | Operations |
|---|---|---|---|
| Scale controller, loop | `internal/scale/scale.go`, `cnpg-scaler.go`, `cmd/scale-controller` | config, predictor, target window, metric histories, `lastScaleAt` | `Run`, `reconcileOnce` = Observe, Decide, Act; `UpdateConfig`; `PatchInstances` |
| Scale controller, observer | `internal/scale/metric-observer.go` | last good value per metric | `Observe` |
| Scale controller, config | `internal/scale/config.go`, `models.go` | modification time of the file last applied | `LoadConfig`, `validateConfig`, `WatchConfig` |
| Predictors | `internal/scale/predictor*.go` | fitted parameters | `Predict` |
| Storage controller | `pkg/storage`, `cmd/storage-controller` | last resize of each volume, risk-window timestamps | `Observe`, `DecidePGData`, `DecideWAL`, `ResizePGData`, `ResizeWAL`, `WaitForPVCExpansion` |
| Prometheus querier | `pkg/prometheus-query` | none | `QueryScalar`, `QueryRange` |
| Orchestrator | `auto-run/internal/orchestrator` | running flag, control channel, pause flag, cancel function | `Start`, `Send`, `loop`, `executeRun`, `ApplyControl` |
| Run matrix | `auto-run/internal/matrix` | list of runs, state of every run, copies in a file and a ConfigMap | `NextQueued`, `SetState`, `ResetQueued`, `ReplaceMatrix`, `DeleteRun`, `MoveAfter`, persistence |
| Event bus | `auto-run/internal/bus` | subscriber channels | `Publish`, `Subscribe`, `Unsubscribe` |
| Uploaded files store | `auto-run/internal/filestore` | uploaded configs and scenarios on disk, copies in ConfigMaps | `Save`, `Delete`, `RestoreFromConfigMaps`, `Resolve` |
| HTTP API | `auto-run/internal/api`, `cmd/server` | none of its own | one handler per route, concurrent |
| Run steps | `auto-run/internal/steps` | Kubernetes objects | reset, deploy, load, collect, teardown, backup, upload |
| Load generator | `loadgen` | connection pools, workers, rate, statistics | discovery, `SetRate`, `SetPool`, `Close`, patterns |

Interactions. The two controllers and the runner's reset step update the same
`Cluster` object, guarded only by its resourceVersion. `WatchConfig` hands
configs to the scale loop from another goroutine. The orchestrator is driven by
concurrent HTTP handlers through a mutex, a channel of capacity four and the
context of the run in progress; it deploys one scale controller per run.

What is hard here: values read before an API call and used after it (an
instance count, a size, a config, a queued run); answers that are lost after the
update was applied; in-memory cooldowns and windows that a restart forgets;
metrics that are zero, NaN or stale; capacity metrics that lag behind an
expansion; check-then-act on the running flag; signals that are buffered and
looked at only between runs; cancellation racing a step; edits of a file or of
the matrix in the middle of an operation.

What makes each part correct:

* scale controller: it writes instance counts only within the bounds of one
  config, at most one per cooldown it knows of, scales down only when the window
  and the guard metrics allow it, and does follow sustained demand;
* config watcher: runs only valid configs and loses no edit;
* storage controller: asks only for growth, up to the maximum, does not pile up
  requests while metrics lag, and relieves pressure in the end;
* orchestrator and matrix: one loop, a status that tells what is executed, a
  matrix that stays consistent under concurrent edits, a stop that works;
* uploaded files: what a request reported as stored survives a restart;
* saved matrix: what an editing request saved is what a restart brings back;
* event bus: a slow or vanished reader holds up nobody, and one that keeps up
  sees what the matrix says and how its run ends;
* the `Cluster` resource: a write changes the field it is about and no other,
  and none of the writers keeps another from getting its way;
* load generator: every open pool is in the list that Close goes by, every
  operation is counted once, a change from one finite rate to another never leaves
  the limiter without a burst, and the run ends.

## 2. Modules

| Module | Models | Relation |
|---|---|---|
| `ScaleRules` | every pure function between a snapshot and a decision | used by `ScaleController` |
| `ScaleController` | `Run`, `reconcileOnce`, `UpdateConfig`, observer memory, `PatchInstances`, the `Cluster`, restart | extends `ScaleRules` |
| `ConfigWatcher` | `WatchConfig` against concurrent edits of the file | stands behind `UpdateConfig` |
| `StorageRules`, `StorageController` | pure rules and process of the storage controller | as above |
| `RunMatrix` | operations of `matrix.Store` on the list and the statuses | used by `Orchestrator` |
| `Orchestrator` | control requests, matrix edits, `loop`, `executeRun` | extends `RunMatrix` |
| `RunQueue` | abstract specification: runs that are queued, execute one at a time, and end | implemented by `Orchestrator` |
| `RunnerEvents` | the orchestrator with the event bus and the log streams | extends, and composes, `Orchestrator` |
| `MatrixStore` | edits of the matrix, the goroutines that save it, restart | the contents that `RunMatrix` abstracts from |
| `FileStore` | upload and delete requests, restore at start, crashes | on its own |
| `ClusterFields` | abstract specification: each writer changes one field at a time | implemented by `ClusterWriters` |
| `ClusterWriters` | both controllers, the reset step and the operator on one `Cluster` | composes what `ScaleController`, `StorageController` and the reset step do to the object |
| `LoadPattern` | scenarios: the rate at a given time | used by `LoadEngine` |
| `LoadEngine` | one run of the load generator: main goroutine, workers, discovery, pattern driver, reporter | extends `LoadPattern` |
| `ScaleControllerProofs`, `ConfigWatcherProofs`, `StorageProofs`, `OrchestratorProofs`, `ClusterProofs`, `LoadEngineProofs`, `MatrixStoreProofs`, `FileStoreProofs` | theorems | extend the modules they are about; `OrchestratorProofs` is about `Orchestrator` and `RunnerEvents` |
| `MCScale`, `MCConfigWatcher`, `MCStorage`, `MCOrchestrator`, `MCFileStore`, `MCCluster`, `MCLoadEngine`, `MCMatrixStore` | instances for TLC | |

Operators whose comment says "Faulty variant" are not part of any
specification. Each states a plausible mistake in the definition that follows
it; put in its place, it makes TLC find one of the properties violated.

### Scale controller

`pc` follows `reconcileOnce`: `idle`, `polled` (the ticker fired and `Run` took
the tick), `observe` (the config was read under the lock into `rcfg`), `decide`,
`get`, `update`. `Tick`, `UpdateConfig`, `ForeignWrite` and `Restart` may come
between any two of them. `PatchInstances` is a Get and an Update that fails if
the object moved in between (`moved`); `PatchReplyLost` applies the update and
returns an error. Every instant the code remembers is an age that grows with
`Tick` and saturates at `MaxAge`; an assumption makes `MaxAge` exceed every
duration an age is compared with, so a saturated age compares as the real one
and time needs no bound.

Abstractions: metric values are integers or `NaN` (comparisons with NaN are
false, as in Go); +Inf is left out, and so is floating-point rounding. The
conversion of NaN to `int` is implementation-defined in Go: the constant
`IntOfNaN` stands for its result. What a predictor returns is any value of
`Forecasts`. `MayReload` and `MayRestart` say whether a run has config reloads and
restarts of the process.

### Config watcher

A version of the file is its modification time and its content. `Stat`, `Load`
and `Apply` are the three points at which `WatchConfig` looks at the world; the
file may be replaced, removed or restored as it was between any two. Every
replacement has a modification time of its own.

### Storage controller

`Observe` takes sizes and metrics at once and reduces them, per volume, to the
facts Decide branches on (`Observation`); queries may fail or be empty in any
combination of `Outages`. Decide and Act run on pgdata, then on WAL with the
same snapshot. A volume's capacity follows the requested size only when
`Expand` happens. Sizes are in units of which `GiB` make one Gi, so that
rounding to whole Gi is visible. The several PVCs of a volume are represented
by the worst one, which is what the queries return. The goroutines started by
`WaitForPVCExpansion` only feed exported metrics and are left out.

### Orchestrator

Each goroutine that may execute `loop` is a slot. A slot's `pc` names the next
thing the loop does: `top` (drain one signal), `next` (NextQueued), `spec`,
`claim` (SetState running), `arm` (store the cancel function), `reset`,
`deploy`, `load`, `teardown`, `finish`, `pause`, `paused`, `exit`. Requests to
`/api/control` are processes of their own: IsRunning and Start are separate
critical sections, Send waits for room in the channel. `StopCurrent` reads the
cancel function and calls it; as cancelling a run that is over does nothing,
both are one action. The last two critical sections of `executeRun` (GetState,
SetState) are one action as well: `RunningIffExecuted` says that nobody else
changes that state in between. `deployed` is the set of runs whose controller
Deployment exists. A step of a run never succeeds once its context is cancelled;
it may fail at any time; a failed deploy may or may not have created the
Deployment. The matrix file read at start is assumed to name no run twice,
which the handlers enforce (`validateMatrix`) and `NewStore` does not.

`RunQueue` keeps of all this the status of every run and the one that executes.
`Orchestrator!Current` is the run of the slot between `Claim` and `Finish`; every
step of the orchestrator is then a step of the queue or a stutter (`KeepsQueue`).
That a run may begin although it is "absent" is the code's: a run deleted between
NextQueued and SetState is executed, and listed in the states again.

### Event bus and log streams

`RunnerEvents` adds to every step of the loop what it publishes (`outbox`, in
program order) and does not let the loop go on before Publish is done. Publish
takes the read lock with the list of the run's subscribers (`sending`), visits one
channel at a time and passes over a full one (`missed`); Subscribe and Unsubscribe
need the write lock, that is, nobody sending. A client may hang up at any time,
after which nothing reads its channel until Unsubscribe. Log lines and step events
are all "note"; events without a run id have no subscriber in this program, since
the only caller of Subscribe passes the id of a run. Streams share nothing but the
lock, so one viewer shows what several would.

### Saved matrix

A matrix is the set of its entries. A request edits `mem` in one critical section
and leaves the rest to its goroutine: copy, Get, Update or Create of the
ConfigMap, a second copy, and `os.WriteFile` as truncate and write. The goroutine
uses the context of the request (`live`), so `Cancel` may come before any call. The
goroutines of several requests interleave freely, and a write onto what another
has written may leave a torn file. So may a single write that fails or is cut off by
`Crash` (`Interrupted`: fewer entries, or a text that does not parse). `mounted`
tells the two ways the file is kept apart. As deployed (`auto-run/k8s/deployment.yaml`)
it is a mount of the same ConfigMap: it cannot be opened for writing and follows the
ConfigMap (`SyncMount`), in a new pod at once. Elsewhere it is a plain file. `Start`
reads the file, then the ConfigMap, if there is one. `alone`, `cmSaved` and `fileSaved` are history variables: they record that
whoever wrote last was the only request in flight from its edit to its write.

### One Cluster, three writers

A controller's reconcile is `Decide`, and for each change a `Get` and an `Update`
of the whole object, refused (`Conflict`) unless its copy has the current
resourceVersion (`fresh`). What the controllers decide, and when, is in their own
modules: here a decision is the difference between the spec and a `goal` that may
change at any time. The reset step is followed call by call: its patches are
differences to its Get and are never refused, and a patch computed from one
instance is empty, whatever was written since. The operator (external, as
`steps/reset.go` describes it) restores an instance count that is too small for
maxSyncReplicas, starts and stops pods, may get stuck, and moves the
resourceVersion by writing the status. `clean` is a history variable: this reset
zeroed maxSyncReplicas and the scale controller has not written since it began.

### Load generator

`main` follows Engine.Run and Engine.run, `pc` each worker, `disc` the discovery
goroutine, `driver` drivePattern, `reporter` the periodic snapshot. Steps are cut
where another goroutine can look: SetRate sets the limit, then the burst;
`Stats.Snapshot` swaps the interval's operations, then its errors; `Stats.Record`
counts an operation (histogram, totalOps and intervalOps in one step, since only the
last of them enters a sum that is read before the workers have ended), then an error;
discover holds the write lock while it waits for the connections of the pools it
closes. Close does not end the discovery goroutine: one that waits for the lock
meanwhile gets it after `Return` and opens pools that nobody closes before `Exit`,
the end of the process. The duration and a signal end the run's context at any time.
Under a finite limit the limiter may refuse any waiting worker at any time, which
ends that worker: it does so when the token that is free after those already
reserved comes after the deadline, and with many workers and a low rate that is the
case from the start. Negative durations in a scenario are accepted, as in the code.
pgxpool, the rate limiter and DNS are external.
Rates are counted in 1/`Scale` requests a second, so that interpolation is exact.
`tokens` bounds what the limiter grants, `MaxTicks` the pattern, and an empty
snapshot is left out. Latencies are left out, and with them the quantiles and the
TotalOps that a snapshot prints; a record adds one to the histogram's count.

### Uploaded files

`disk` is the directory of each category, on a volume that a restart of the
container keeps and one of the pod does not (`emptyDir` in `k8s/`); `cm` the Data
of its ConfigMap. A request goes through `os.WriteFile` (truncate, then write) or
`os.Remove`, ReadDir, one ReadFile per entry, and Get with Create or Update; any
other request, a failure or `Crash` may come between two of them. A write that does
not end, in a request or in the restore, leaves the file emptied or cut short, and
`Empty` stands for both. `fresh` stands for the resourceVersion. Two history variables carry the promise: `allowed`, what
a file may durably hold after the answers so far (an unanswered or failed request
leaves the old and the new state possible), and `orderly`, which ends for a
category when requests overlap, a restore leaves a file out, or a file cannot be
read. Load, List and Resolve only read and are left out.

## 3. Runs

| Run | Result | What it shows |
|---|---|---|
| `scale_reload` | pass | With reloads, two metric specs and a guard, NaN readings, restarts, foreign writes and lost answers, every patch lies within the bounds of the reconcile's config and outside the cooldown, scale-downs respect window and guard, window and history stay in order. |
| `scale_demand` | pass | Sustained demand reaches the bound in either direction, whatever the cooldown, the window, a scale-down guard, low forecasts and failing calls do in between; a metric that stays zero is seen as zero even after a NaN was remembered, predictions become ready, and stay so, although the history is capped. |
| `config_watcher` | pass | No edit is lost between Stat, load and apply; the last valid edit takes effect; only valid contents run. |
| `storage_safety` | pass | Resizes grow, stay within the maximum and bypass the cooldown only for critical usage that is not the lag of an expansion. |
| `storage_relief` | pass | Requests do not run more than one step ahead of the capacity; pressure is relieved. |
| `orchestrator` | pass | One loop, statuses that tell what is executed, a consistent matrix; every step is one of `RunQueue`; a stop ends the loop also when it waits in the channel behind another signal. |
| `runner_events` | pass | With a log stream that falls behind, hangs up and comes back, every run ends, nothing is sent on a closed channel, and a stream that was never passed over shows its run's status and sees it end. |
| `file_store` | pass | What an upload or delete answered is durable through crashes, failed calls and lost answers, unless requests of a category overlap, a restore fails or a file cannot be read; a success without overlap makes ConfigMap and directory equal. |
| `matrix_store` | pass | What a lone request saved is the matrix until the next edit and comes back at a restart, on a plain file and on a mount of the ConfigMap, with cancelled contexts, failing calls and writes cut short. |
| `cluster_writers` | pass | Each write changes the one field it is about (`ClusterFields`), both controllers get their way in spite of conflicts, patches and reverts, and a clean reset leaves one instance and one pod. |
| `load_engine` | pass | Every open pool is listed, also those a discovery opens after Close, and connections are of open pools; snapshots and summary count every operation once; the limiter is without a burst only between SetLimit and SetBurst when an unlimited rate ends; the pods follow DNS, and the run returns unless warm-up and discovery wait for each other. |
| `claim_fallback` | violation | `models.go:63`: predictive mode falls back to the current replicas. After a reload that enables prediction there is no predictor and the cluster is scaled to the minimum. |

Disagreements between text and code met on the way that no run is about:

* `README.md:25` replaces a zero by the last known *positive* value; NaN is
  remembered as well (`metric-observer.go:76,96`).
* `models.go:51` says the target must stay below for the whole stabilization
  window; a fresh window has one record, so the first poll after a start may
  scale down.
* `README.md:93` blocks a resize while an expansion propagates; a preemptive one
  passes (`decider.go:39`).
* `docs/auto-run.md:445` says that teardown always runs; a failed deploy goes
  straight to the end of the run (`orchestrator.go:222`), and under a cancelled
  context the teardown deletes nothing.
* `docs/auto-run.md:380,451` and `matrix/store.go:307` let the matrix survive pod
  restarts. `persistMatrix` uses the context of a request that is being answered,
  so the update of the ConfigMap usually fails; at a restart an older ConfigMap
  then replaces a newer file (`cmd/server/main.go:75`), and as deployed
  (`docs/auto-run.md:350`) that file is in a ConfigMap mount, which is read-only. Where
  it is a plain file, two goroutines that write at once, or one whose write fails
  midway, may leave a file that `NewStore` cannot parse, which ends every later start.
* `filestore/store.go:2` says that uploaded files survive restarts, which fails in
  the three cases that `AnsweredIsDurable` sets apart.
* `DeleteRun` (`matrix/store.go:206`) says "only if queued or failed" and also
  deletes runs that succeeded; `MoveAfter` of a run after itself moves it to the
  end; a run whose results directory cannot be created stays queued and is taken
  again at once; `addRun` has no route; nothing subscribes to all events, which
  `bus.go:29` provides for.
* Load generator: a ramp from 0 starts without any limit, since `SetRate(0)` means
  unlimited; `EndRPS` 0 means no ramp, so no step can ramp down to 0; the first
  finite rate after an unlimited one can end workers for good, between SetLimit
  and SetBurst (`engine.go:80`); under a low rate many workers leave at the start,
  as their tokens would come after the deadline (`engine.go:215`); a discovery that
  waits for the lock during Close opens pools that are never closed
  (`discovery.go:106`); with fewer connections than workers the warm-up
  waits until the run is over; and warm-up and discovery can wait for each other
  (`Stuck`: `engine.go:155`, `discovery.go:129`).

### Bounds

* `scale_reload`: three configs (two that load, one that does not), `MaxAge` 2
  with cooldowns and windows up to 2, histories of two points, so that points can be
  out of order and the cap is reached, three readings (low, high, NaN). The
  foreign value 4 lies above the maximum, so the guard can hold a target out of
  bounds.
* `scale_demand`: two configs. One is hybrid, with low and high forecasts. The other
  is reactive with a metric that is a ratio and the scale-down guard: a reading of 2
  asks for two instances and makes the guard keep the third. Readings are zero, 2, 4
  and NaN. Reloads are off (`MayReload`): with them the product of the two configs is
  too large for the liveness check, and the properties speak of one config that
  stays. Low demand is promised in reactive mode only, because in the others a
  forecast may keep the cluster up. `MaxHistory` is 3. With 2 the property about
  predictions fails: two polls may fall into the same unit of time and the capped
  history then spans less than the required duration. In the code the cap is 2880
  points.
* `config_watcher`: three edits, enough for one between each pair of the
  watcher's steps. The file may vanish and come back any number of times.
* `storage_safety`: pgdata may be expanded twice before its maximum, so a
  preemptive resize meets critical usage and an expansion in flight; the WAL
  volume once. `storage_relief` uses steps of 3%, below one Gi, where rounding
  decides whether a request grows at all.
* `orchestrator`: two requests see "not running" at the same time, two slots let
  a second loop exist if it could, two runs let one be edited while the other is
  executed. A channel of capacity 2 fills up and lets a stop wait behind a start
  or another stop. The loop takes one signal per iteration and treats it
  alike wherever it stood, so two places show what the four of the code would.
  There is no symmetry, as the run has a liveness property. `VIEW AllButDeployed`
  leaves out `deployed`, which no action and no property of the run reads.
* `runner_events`: one run, one request, one slot, a control channel of capacity 1
  (signals in a row are the subject of `orchestrator`) and one stream, which can meet
  each other in every way; two places in the stream's channel and one event per
  step let it fill up and drain. The run is retried, deleted and added again any
  number of times.
* `matrix_store`: three requests, so that one can save while two others overlap;
  two entries, one of them installed with the runner, so that old, new, cut-short and
  torn files differ; a plain file, without a ConfigMap at first or with one, and a
  mount. Requests are interchangeable; there is no liveness property. Deadlock is not
  checked, because a server that finds a garbled plain file never starts.
* `cluster_writers`: a cluster with a synchronous replica and a WAL volume, so that
  a revert can happen and a storage reconcile has two updates; two targets, one
  larger size. Goals, conflicts, restarts and resets are not bounded.
* `load_engine`: two workers; four command lines (discovery; one connection for two
  workers under a cap; a ramp down under a cap; a ramp from 0 without one), at most
  two granted operations, two ticks after the initial rate, in which a ramp goes from
  no limit to a fraction and to its end, two sequences of addresses (one goes, one stays, one that no pool can be built for comes; all are
  replaced). A run ends, so deadlock is not checked.
* `file_store`: two files in one category, so that a request can drop or repair
  the file of another, and one in the other, which a failed restore of the first
  leaves out. Besides "truncated" and "no file" the first file takes two contents,
  so that an old one can be told from a new one, the others one
  (`TwoContentsInFirst`; no step compares contents). Overlaps are explored in the first category and while the
  second is untouched (`OverlapInConfigs`): the categories share nothing but the
  order of restore, which is explored with one request at a time.

### Fairness

* `ScaleController!FairSpec`: time passes, `Run`'s goroutine is scheduled (weak
  fairness), and the steps that call out succeed when they are tried again and
  again (strong fairness): the loop retries at every poll and nothing in the
  code gives up. Restarts and config reloads are switched off in `scale_demand`: a
  process that crashes for ever promises nothing, and each property is about demand
  on a config that stays.
* `ConfigWatcher!Spec`: the ticker of `WatchConfig` keeps firing.
* `StorageController!FairSpec`: the same, per volume, plus: the CSI driver
  completes an expansion. Restarts are allowed.
* `Orchestrator!FairSpec`, `RunnerEvents!EventsFairSpec`: every step of the loop ends,
  and so does Publish; a stream whose client is there reads. That a step ends is an
  assumption about what it calls: most steps have a timeout, but the Prometheus
  queries of CollectMetrics (`collect.go:131`) and the uploads (`upload.go:62`) have
  none. Nothing is assumed of requests and clients: a stop has to be in the channel,
  not merely about to be sent, because Send may block while the channel is full.
* `ClusterWriters!FairSpec`: the controllers poll for ever, and a Get and the Update
  of each field are not refused for ever (strong fairness): a conflict is retried at
  the next poll with a new copy. That the retries are not starved by the other writers
  is an assumption, not a result. Nothing is assumed of the operator, of the reset
  step or of demand.
* `LoadEngine!FairSpec`: Go runs every goroutine and its mutexes starve nobody
  (strong fairness for what needs the lock); queries end or are cancelled with the
  run. Nothing is assumed of the deadline, signals, addresses and ticks.

## 4. Proofs

All proofs hold for arbitrary constants that satisfy the named assumptions
(valid configs, saturating ages longer than every duration, a finite set of runs,
a channel of capacity at least one). Each follows the same argument: an invariant
`Inv` stronger than the property, preserved by each action.

* `ScaleControllerProofs` begins with lemmas about the rules: `clamp` lands within
  the bounds, the stabilized target is at least every record of the window that
  has not expired, recording a target keeps the window ordered, decided targets
  lie within the bounds unless the action is none. Its theorems: `TypeCorrect`, `KeepsOrder`, `ScaleDownsJustified`,
  `PatchesWithinBounds`, `CooldownsHonoured`. The bounds and the cooldown are
  properties of a step two actions after the decision, so `Inv` adds
  `PendingDecision` (a pending decision is within the bounds and was taken
  outside the cooldown; time only makes the last scaling older). The order of
  the histories needs `SnapshotIsNewest` (the snapshot being taken is no older
  than any point).
* `ConfigWatcherProofs`: `TypeCorrect`, `NoLostEdit`, `ConfigsGoForward`. `Inv` adds
  the order of versions (applied <= running <= loaded <= on disk) and that equal
  times mean equal contents. `ConfigsGoForward` is what `ScaleController` takes
  from the watcher: `UpdateConfig` receives a valid content, newer than the one
  that runs.
* `StorageProofs`: `StorageTypeCorrect`, `ResizesGrowToMax`,
  `CooldownsUnlessCritical`, with `PendingResize` in the role of
  `PendingDecision` and lemmas about the rounding in `computeNewSize`. And
  `StaysOneStepAhead`, under `Undistorted`, the circumstances that `OneStepAhead`
  speaks of, stated of the constants: no foreign sizes, no horizon, no outage with
  a capacity query. `StepInv` adds `SnapshotHolds`: from Observe to the end of a
  volume's turn the snapshot has the size that is in the spec, and a volume that is
  being resized was within 105% of its capacity when observed; capacity only grows,
  so it still is when the update lands. The cooldown plays no part in the argument,
  which is why restarts and lost replies do no harm.
* `OrchestratorProofs`: `OrchestratorTypeCorrect`, `AtMostOneLoop`,
  `StatusTellsExecution`, `MatrixStaysConsistent`, `EndedRunsStayEnded`, and
  `ImplementsQueue`, the refinement of `RunQueue`. `Inv`
  adds `ChosenNotEnded`: a run chosen by NextQueued can only be deleted before it
  is claimed. Lemmas about removal and insertion in lists without repetition carry
  the matrix; `SoleLoop` and `FromSoleLoop` reduce every step of the loop to the
  one slot that is active. The refinement takes from `Inv` that no slot
  executes when another claims a run.
* `OrchestratorProofs`, with the event bus: `EventsInvariance`,
  `BusLeavesOrchestrator`, `EventsTypeCorrect`, `NeverSendsOnClosed`,
  `StreamsFollow`, for any number of runs, slots, streams and notes and any
  capacity. `BusLeavesOrchestrator` is the composition's refinement of the
  orchestrator: it brings the theorems above to the runner with its bus.
  `EventsInv` adds `BusLocked` (Publish holds the lock only for open channels of
  its own run), `OutboxTells` (a status to be published is the one in the matrix,
  or the run was queued again or deleted since) and `StreamsTell`: unless a status
  is on its way to a stream, the last status in its channel, or the one shown if
  the channel has none, is the run's. That last part is where the order of events
  matters, and it is not inductive without the other two.
* `ClusterProofs`: `InvariantHolds`, `CleanResetHolds` and `Refinement`, for any set
  of initial specs, targets and sizes. The refinement rests on `FreshIsCurrent`
  (whoever holds the current resourceVersion holds the current spec, so sending the
  whole object back changes one field) and `PendingChanges` (a pending resize still
  enlarges its volume); the reset on `ResetUndisturbed` (with maxSyncReplicas at
  zero the operator has no reason to interfere, and the difference the patch sends
  is still the right one).
* `LoadEngineProofs`: `InvariantHolds`, `PoolsListedHolds`, `SummaryHolds`,
  `BurstlessHolds`, for any number of workers, addresses, command lines and waves.
  `Inv` adds who holds the lock and with which pools (`LockHeld`, `OpenPools`), that
  connections are of open pools (`Connected`), and what the counters still miss
  (`Counted`), and which rate the limit and the burst are of while the driver is
  between them (`LimiterFollows`). `PoolsListedHolds` covers the discovery that gets
  the lock after Close: what it opens it also lists.
* `MatrixStoreProofs`: `Invariance`, `SavedStaysCurrent`, `RestartsRestore`, for any set of entries and requests; `Inv` adds
  `AloneUndisturbed`, what an undisturbed goroutine holds at each step.
* `FileStoreProofs`: `InvHolds`, `TypeCorrect`, `Durable`, `Aligns`, for any
  names, contents and requests. `Inv` adds `CleanUndisturbed` (a request that ran
  alone and read every file so far is the only one in flight, its own change is in
  the directory, and what it has gathered is what the directory holds) and
  `DirectoryAllowed` (in an orderly category whatever a request may leave behind at
  any moment, a truncated file included, is allowed, and so is what the directory
  holds, except for files that went with the pod and are not restored yet; nothing
  is served before the restore). The promise is about the ConfigMap; it is kept
  because what goes there is put together from a directory of which this holds.

Type invariants and inductive invariants that are proved this way are not listed
again with the runs of these modules.

Only model-checked: the liveness properties (`scale_demand`, `EditsTakeEffect`,
`PressureRelieved`, `StopTakesEffect`, `RunsEnd`, `EndIsSeen`, `BothSettle`,
`RunReturns`, `PodsFollowDNS`), which need fairness, and the violated claim; with
them the action part of `PredictionBecomesReady`, which holds only for a cap that is
large enough for the polls of the required duration. Every other safety property of
a passing run is a theorem.

## 5. Not modelled

* Predictor arithmetic (floating point): what Predict returns is any value.
* `WaitForPVCExpansion` and the risk-window timestamps that its goroutines share
  with the loop, and the exported self-metrics: the program writes them and
  decides nothing by them.
* The Prometheus HTTP client: what it returns is an input of the observers.
* Kubernetes manifests, metric collection, backup, upload and SQL workloads: calls
  out, of which only success or failure matters here.
* `runMulti` and `aggregateSummaries` (one engine per URL, summaries added up at the
  end), latencies and quantiles, and `SetPool`, which only tests call.
* The shutdown of the runner's server, which sends one more stop before it
  exits; a restart begins again from Init.
* Command lines, logging, dashboards and user interfaces.

The content of a run specification and the status of a run's single steps are data
that nothing branches on. The README describes an option for preemptive resizing
of the WAL volume which the code does not have; the model follows the code.

## 6. Plan

1. An abstract specification of the file store (a durable map per category, changed
   by one request at a time) and its refinement for one request at a time.
2. More lemmas about the rules: the storage sizes that repeated steps go through,
   monotonicity of the scale target in the observed value.
