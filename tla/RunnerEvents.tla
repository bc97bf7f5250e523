---------------------------- MODULE RunnerEvents ----------------------------
(***************************************************************************)
(* The experiment runner with its event bus (auto-run/internal/bus/bus.go) *)
(* and the log streams that read it (streamLogs in                         *)
(* auto-run/internal/api/handler.go): Orchestrator composed with the       *)
(* goroutines on the other side of Publish.                                *)
(*                                                                         *)
(* The orchestrator publishes every change of a run's status and every     *)
(* step and log line from the goroutine that executes the run, after the   *)
(* change itself and in program order.  Publish holds the read lock of the *)
(* bus while it visits the channels of the run one by one, and passes over *)
(* a full one; Subscribe and Unsubscribe take the write lock.              *)
(*                                                                         *)
(* Log lines and step events are all alike here, "note".  The lines a step *)
(* logs on its way are published when it ends: nothing but the contents of *)
(* the channels depends on when.  Events without a run id ("idle",         *)
(* "paused", the orchestrator's own log) go to subscribers of "", and      *)
(* there are none: the only caller of Subscribe passes the id of a run.    *)
(***************************************************************************)
EXTENDS Orchestrator

CONSTANTS
    Viewers,     \* requests to /api/runs/{id}/logs that may be open together
    ChannelCap,  \* capacity of a subscriber's channel, 256 in the code
    MaxNotes     \* bound on the log lines of one step

ASSUME ChannelCapAssumption == ChannelCap \in Nat \ {0}
ASSUME MaxNotesAssumption == MaxNotes \in Nat

VARIABLES
    outbox,      \* what each loop goroutine still has to publish, of its run
    sending,     \* the channels its Publish has still to visit, under the read lock
    subs,        \* b.subs: the viewers whose channel is in the bus
    stream,      \* where each streamLogs request is
    watching,    \* the run id it was called with
    channel,     \* its channel
    shown,       \* the last status it wrote to its client
    missed       \* Publish has passed over its channel (history variable)

publisher == <<outbox, sending>>
streams   == <<subs, stream, watching, channel, shown, missed>>
allVars   == <<vars, publisher, streams>>

PublishedStatuses == {"running", "success", "failed"}
Events == PublishedStatuses \cup {"note"}

EventsInit ==
    /\ Init
    /\ outbox = [s \in Slots |-> <<>>]
    /\ sending = [s \in Slots |-> {}]
    /\ subs = {}
    /\ stream = [v \in Viewers |-> "closed"]
    /\ watching = [v \in Viewers |-> NoRun]
    /\ channel = [v \in Viewers |-> <<>>]
    /\ shown = [v \in Viewers |-> "nothing"]
    /\ missed = [v \in Viewers |-> FALSE]
-----------------------------------------------------------------------------
(* The orchestrator's steps, each with what it publishes before the next.  *)

Emit(s, events) == outbox' = [outbox EXCEPT ![s] = events]

Notes(least) == UNION {[1..n -> {"note"}] : n \in least..(least + MaxNotes)}

(* A step of a run publishes that it starts, its log lines and how it      *)
(* ended; the start of the first step is published with Arm.               *)
StepOfRun(s) ==
    /\ ResetCluster(s) \/ DeployController(s) \/ RunLoadgen(s) \/ TeardownController(s)
    /\ \E notes \in Notes(1) : Emit(s, notes)

(* Faulty variant: the failure of a run is logged and not published.       *)
FinishQuietly(s) ==
    /\ Finish(s)
    /\ Emit(s, IF failed[s] THEN <<"note">> ELSE <<"success">>)

(* Faulty variant: the status is read back before it is set.               *)
FinishPublishesOld(s) ==
    /\ Finish(s)
    /\ Emit(s, <<status[run[s]]>>)

(* The final SetState of executeRun, then PublishStatus.                   *)
FinishPublishes(s) ==
    /\ Finish(s)
    /\ Emit(s, <<IF failed[s] THEN "failed" ELSE "success">>)

(* SetState(running), then PublishStatus.                                  *)
ClaimPublishes(s) == Claim(s) /\ Emit(s, <<"running">>)

ArmPublishes(s) == Arm(s) /\ Emit(s, <<"note">>)

(* The steps between two runs publish nothing that has a reader.           *)
BetweenRuns(s) ==
    /\ Drain(s) \/ TakeNext(s) \/ PauseCheck(s) \/ Paused(s) \/ Exit(s) \/ GetSpec(s)
    /\ UNCHANGED outbox

Loop(s) ==
    /\ outbox[s] = <<>>
    /\ BetweenRuns(s) \/ ClaimPublishes(s) \/ ArmPublishes(s) \/ StepOfRun(s) \/ FinishPublishes(s)
    /\ UNCHANGED <<sending, streams>>
-----------------------------------------------------------------------------
(* Publish.                                                                *)

Readers(s) == {v \in subs : watching[v] = run[s]}

(* The read lock is taken, and with it the list of the run's subscribers.  *)
(* It is held as long as one of them is still to be visited.               *)
PublishLocks(s) ==
    /\ outbox[s] # <<>> /\ sending[s] = {}
    /\ sending' = [sending EXCEPT ![s] = Readers(s)]
    /\ outbox' = [outbox EXCEPT ![s] = IF Readers(s) = {} THEN Tail(@) ELSE @]
    /\ UNCHANGED <<vars, streams>>

(* Publish is done with v, and with the event if v was the last.           *)
Visited(s, v) ==
    /\ v \in sending[s]
    /\ sending' = [sending EXCEPT ![s] = @ \ {v}]
    /\ outbox' = [outbox EXCEPT ![s] = IF sending[s] = {v} THEN Tail(@) ELSE @]

(* Faulty variant: the send waits for room.                                *)
DeliverBlocks(s, v) ==
    /\ Visited(s, v)
    /\ Len(channel[v]) < ChannelCap
    /\ channel' = [channel EXCEPT ![v] = Append(@, Head(outbox[s]))]
    /\ UNCHANGED <<vars, subs, stream, watching, shown, missed>>

(* One channel gets the event, or is passed over because it is full.       *)
Deliver(s, v) ==
    /\ Visited(s, v)
    /\ \/ /\ Len(channel[v]) < ChannelCap
          /\ channel' = [channel EXCEPT ![v] = Append(@, Head(outbox[s]))]
          /\ UNCHANGED missed
       \/ /\ Len(channel[v]) >= ChannelCap
          /\ missed' = [missed EXCEPT ![v] = TRUE]
          /\ UNCHANGED channel
    /\ UNCHANGED <<vars, subs, stream, watching, shown>>

Publish(s) == PublishLocks(s) \/ \E v \in Viewers : Deliver(s, v)
-----------------------------------------------------------------------------
(* streamLogs.                                                             *)

WriteLockFree == \A s \in Slots : sending[s] = {}

(* Any id is accepted, of a run that exists or not.                        *)
Subscribe(v, id) ==
    /\ stream[v] = "closed" /\ WriteLockFree
    /\ stream' = [stream EXCEPT ![v] = "open"]
    /\ subs' = subs \cup {v}
    /\ watching' = [watching EXCEPT ![v] = id]
    /\ UNCHANGED <<vars, publisher, channel, shown, missed>>

(* The select takes an event and writes it out.                            *)
Receive(v) ==
    /\ stream[v] = "open" /\ channel[v] # <<>>
    /\ channel' = [channel EXCEPT ![v] = Tail(@)]
    /\ shown' = [shown EXCEPT ![v] = IF Head(channel[v]) = "note" THEN @ ELSE Head(channel[v])]
    /\ UNCHANGED <<vars, publisher, subs, stream, watching, missed>>

(* The client hangs up: nothing reads the channel any more, and Publish    *)
(* goes on sending into it until Unsubscribe has the lock.                 *)
HangUp(v) ==
    /\ stream[v] = "open"
    /\ stream' = [stream EXCEPT ![v] = "leaving"]
    /\ shown' = [shown EXCEPT ![v] = "nothing"]
    /\ UNCHANGED <<vars, publisher, subs, watching, channel, missed>>

(* Faulty variant: the channel is closed before the lock is taken.         *)
UnsubscribeUnlocked(v) ==
    /\ stream[v] = "leaving"
    /\ stream' = [stream EXCEPT ![v] = "closed"]
    /\ subs' = subs \ {v}
    /\ watching' = [watching EXCEPT ![v] = NoRun]
    /\ channel' = [channel EXCEPT ![v] = <<>>]
    /\ missed' = [missed EXCEPT ![v] = FALSE]
    /\ UNCHANGED <<vars, publisher, shown>>

(* Unsubscribe takes the channel out of the list and closes it.            *)
Unsubscribe(v) ==
    /\ stream[v] = "leaving" /\ WriteLockFree
    /\ stream' = [stream EXCEPT ![v] = "closed"]
    /\ subs' = subs \ {v}
    /\ watching' = [watching EXCEPT ![v] = NoRun]
    /\ channel' = [channel EXCEPT ![v] = <<>>]
    /\ missed' = [missed EXCEPT ![v] = FALSE]
    /\ UNCHANGED <<vars, publisher, shown>>
-----------------------------------------------------------------------------
Request ==
    /\ Edit \/ \E c \in Clients : Control(c)
    /\ UNCHANGED <<publisher, streams>>

StreamLogs(v) == (\E id \in Runs : Subscribe(v, id)) \/ Receive(v) \/ HangUp(v) \/ Unsubscribe(v)

EventsNext ==
    \/ Request
    \/ \E s \in Slots : Loop(s) \/ Publish(s)
    \/ \E v \in Viewers : StreamLogs(v)

EventsSpec == EventsInit /\ [][EventsNext]_allVars

(* The steps of the loop end, as in FairSpec, and Publish waits for        *)
(* nobody.  A stream whose client is there is served; nothing is assumed   *)
(* of clients that hang up, come back or send requests.                    *)
EventsFairSpec ==
    /\ EventsSpec
    /\ \A s \in Slots : WF_allVars(Loop(s) \/ Publish(s))
    /\ \A v \in Viewers : WF_allVars(Receive(v))
-----------------------------------------------------------------------------
(* The type of every variable; a channel holds no more than its capacity.  *)
EventsTypeOK ==
    /\ TypeOK
    /\ outbox \in [Slots -> Seq(Events)]
    /\ sending \in [Slots -> SUBSET Viewers]
    /\ subs \in SUBSET Viewers
    /\ stream \in [Viewers -> {"closed", "open", "leaving"}]
    /\ watching \in [Viewers -> Runs \cup {NoRun}]
    /\ channel \in [Viewers -> Seq(Events)]
    /\ \A v \in Viewers : Len(channel[v]) <= ChannelCap
    /\ shown \in [Viewers -> PublishedStatuses \cup {"nothing"}]
    /\ missed \in [Viewers -> BOOLEAN]

(* Publish never sends on a closed channel, which would panic and take the *)
(* server down: a client that hangs up while an event is being delivered   *)
(* is unsubscribed before or after the delivery to all (Publish,           *)
(* Unsubscribe).                                                           *)
NoSendOnClosed ==
    \A s \in Slots, v \in Viewers : v \in sending[s] => stream[v] # "closed"

(* No event of the run that v watches is on its way to v.                  *)
CaughtUp(v) ==
    /\ channel[v] = <<>>
    /\ \A s \in Slots : outbox[s] = <<>> \/ run[s] # watching[v]

(* A stream that was never passed over and has read everything shows the   *)
(* status that the matrix holds, over retries, deletions and replaced      *)
(* matrices, unless it has shown none yet or the run went back to the      *)
(* queue or out of the matrix, which nobody publishes (executeRun,         *)
(* ResetQueued, DeleteRun).                                                *)
StreamFollowsRun ==
    \A v \in Viewers :
        /\ stream[v] = "open" /\ CaughtUp(v) /\ ~missed[v] /\ shown[v] # "nothing"
        /\ status[watching[v]] \in PublishedStatuses
        => shown[v] = status[watching[v]]

(* What makes the three inductive.  The lock: the bus has exactly the open *)
(* channels, Publish holds the lock for subscribers of its own run only,   *)
(* and only as long as it has an event; a stream begins with nothing.      *)
BusLocked ==
    /\ \A s \in Slots :
          /\ sending[s] # {} => outbox[s] # <<>>
          /\ outbox[s] # <<>> => Active(s)
          /\ \A v \in sending[s] : v \in subs /\ watching[v] = run[s]
    /\ \A v \in Viewers :
          /\ v \in subs <=> stream[v] # "closed"
          /\ v \in subs => watching[v] \in Runs
          /\ v \notin subs => channel[v] = <<>> /\ ~missed[v]
          /\ stream[v] # "open" => shown[v] = "nothing"

(* A status is published alone, and meanwhile the run can only go back to  *)
(* the queue or out of the matrix.                                         *)
OutboxTells ==
    \A s \in Slots : \A i \in DOMAIN outbox[s] : outbox[s][i] # "note" =>
        /\ Len(outbox[s]) = 1 /\ run[s] \in Runs
        /\ status[run[s]] \in PublishedStatuses => status[run[s]] = outbox[s][i]

(* A status of the run that v watches is still to come to v's channel.     *)
OnWay(v, s) ==
    /\ run[s] = watching[v]
    /\ sending[s] = {} \/ v \in sending[s]
    /\ \E i \in DOMAIN outbox[s] : outbox[s][i] # "note"

(* The last status in a channel is `st', and if there is none the last     *)
(* shown is.                                                               *)
Tells(ch, sh, st) ==
    /\ \A i \in DOMAIN ch :
          ch[i] # "note" /\ (\A j \in DOMAIN ch : j > i => ch[j] = "note") => ch[i] = st
    /\ (\A i \in DOMAIN ch : ch[i] = "note") => sh \in {"nothing", st}

Heard(v) ==
    /\ stream[v] = "open" /\ ~missed[v]
    /\ status[watching[v]] \in PublishedStatuses
    /\ \A s \in Slots : ~OnWay(v, s)
    => Tells(channel[v], shown[v], status[watching[v]])

StreamsTell == \A v \in Viewers : Heard(v)

EventsInv == EventsTypeOK /\ Inv /\ BusLocked /\ OutboxTells /\ StreamsTell

(* Whoever watches a run while it executes sees how it ends, unless the    *)
(* channel was full at some time or the client hung up (PublishStatus at   *)
(* the end of executeRun, streamLogs).                                     *)
EndIsSeen ==
    \A v \in Viewers :
        (stream[v] = "open" /\ \E s \in Slots : Executing(s) /\ run[s] = watching[v])
            ~> (shown[v] \in {"success", "failed"} \/ missed[v] \/ stream[v] # "open")
=============================================================================
