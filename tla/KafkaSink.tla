----------------------------- MODULE KafkaSink -----------------------------
(***************************************************************************)
(* KafkaDecisionSink (internal/sink/kafka.go): request goroutines call     *)
(* Enqueue under the mutex, one goroutine runs Run, which publishes from   *)
(* the queue and, once sinkCtx is cancelled, closes the sink and drains    *)
(* what is left within drainTimeout.                                       *)
(*                                                                         *)
(* The buffered channel is a window on the history of the records it took: *)
(* accepted[taken + 1 .. Len(accepted)] are in the channel and             *)
(* accepted[taken] is the one Run received last.  updateQueueDepth reads   *)
(* the channel's length and then sets the gauge: two steps, in Enqueue     *)
(* under the mutex and in Run without it.                                  *)
(***************************************************************************)
EXTENDS Naturals, Sequences

CONSTANTS Records,     \* decisions, each offered by its own request goroutine
          QueueSize    \* capacity of the channel

ASSUME QueueSizeAssumption == QueueSize \in Nat \ {0}

CONSTANT Free          \* the mutex is held by nobody
ASSUME FreeAssumption == Free \notin Records

VARIABLES
  enq,           \* where the call Enqueue(ctx, rec) is
  ctxDone,       \* the request's context is done
  mu,            \* the Enqueue call that holds s.mu
  closed,        \* s.closed
  accepted,      \* every record the channel took, in order
  taken,         \* how many of them Run received
  dropped,       \* s.dropped and pds_kafka_sink_dropped_total
  errors,        \* pds_kafka_sink_publish_errors_total
  topic,         \* positions in accepted of the events in the topic, in order
  gauge,         \* pds_kafka_sink_queue_depth
  enqSeen,       \* the depth read by the Enqueue call that holds s.mu
  run,           \* where Run is
  after,         \* where Run goes when the gauge is set, or the sink closed
  runSeen,       \* the depth Run read
  stray,         \* history: publishes after sinkCtx was cancelled, before close()
  sinkDone,      \* sinkCtx is cancelled
  drainExpired   \* drainTimeout has passed since the drain began

enqVars == <<enq, ctxDone, mu, dropped, enqSeen>>
runVars == <<closed, taken, errors, topic, run, after, runSeen, stray>>
envVars == <<sinkDone, drainExpired>>
vars == <<enq, ctxDone, mu, closed, accepted, taken, dropped, errors, topic, gauge,
          enqSeen, run, after, runSeen, stray, sinkDone, drainExpired>>

Init ==
  /\ enq = [rec \in Records |-> "new"]
  /\ ctxDone = [rec \in Records |-> FALSE]
  /\ mu = Free
  /\ closed = FALSE
  /\ accepted = <<>>
  /\ taken = 0
  /\ dropped = 0
  /\ errors = 0
  /\ topic = <<>>
  /\ gauge = 0
  /\ enqSeen = 0
  /\ run = "select"
  /\ after = "select"
  /\ runSeen = 0
  /\ stray = 0
  /\ sinkDone = FALSE
  /\ drainExpired = FALSE

depth == Len(accepted) - taken     \* len(s.queue)
----------------------------------------------------------------------------
(* The client goes away while the call may still look at its context.      *)
CancelRequest(rec) ==
  /\ enq[rec] \in {"new", "entered"}
  /\ ~ctxDone[rec]
  /\ ctxDone' = [ctxDone EXCEPT ![rec] = TRUE]
  /\ UNCHANGED <<enq, mu, dropped, enqSeen, accepted, gauge, runVars, envVars>>

(* The test of ctx.Err() before the mutex.                                 *)
Enter(rec) ==
  /\ enq[rec] = "new"
  /\ enq' = [enq EXCEPT ![rec] = IF ctxDone[rec] THEN "returned" ELSE "entered"]
  /\ UNCHANGED <<ctxDone, mu, dropped, enqSeen, accepted, gauge, runVars, envVars>>

(* s.closed, or the select took ctx.Done().                                *)
Ignore(rec) ==
  /\ enq[rec] = "entered"
  /\ mu = Free
  /\ closed \/ ctxDone[rec]
  /\ enq' = [enq EXCEPT ![rec] = "returned"]
  /\ UNCHANGED <<ctxDone, mu, dropped, enqSeen, accepted, gauge, runVars, envVars>>

(* Enqueue forgets to look at s.closed.                                    *)
Send_WhenClosed(rec) ==
  /\ enq[rec] = "entered"
  /\ mu = Free
  /\ depth < QueueSize
  /\ accepted' = Append(accepted, rec)
  /\ enq' = [enq EXCEPT ![rec] = "measure"]
  /\ mu' = rec
  /\ UNCHANGED <<ctxDone, dropped, enqSeen, gauge, runVars, envVars>>

(* Room for one record too many.                                           *)
Send_OffByOne(rec) ==
  /\ enq[rec] = "entered"
  /\ mu = Free
  /\ ~closed
  /\ depth <= QueueSize
  /\ accepted' = Append(accepted, rec)
  /\ enq' = [enq EXCEPT ![rec] = "measure"]
  /\ mu' = rec
  /\ UNCHANGED <<ctxDone, dropped, enqSeen, gauge, runVars, envVars>>

(* The select sent the record; the call still holds the mutex.             *)
Send(rec) ==
  /\ enq[rec] = "entered"
  /\ mu = Free
  /\ ~closed
  /\ depth < QueueSize
  /\ accepted' = Append(accepted, rec)
  /\ enq' = [enq EXCEPT ![rec] = "measure"]
  /\ mu' = rec
  /\ UNCHANGED <<ctxDone, dropped, enqSeen, gauge, runVars, envVars>>

(* The default returns without unlocking.                                  *)
Drop_KeepsLock(rec) ==
  /\ enq[rec] = "entered"
  /\ mu = Free
  /\ ~closed
  /\ ~ctxDone[rec]
  /\ depth = QueueSize
  /\ dropped' = dropped + 1
  /\ enq' = [enq EXCEPT ![rec] = "returned"]
  /\ mu' = rec
  /\ UNCHANGED <<ctxDone, enqSeen, accepted, gauge, runVars, envVars>>

(* The default of the select: neither room nor a done context.             *)
Drop(rec) ==
  /\ enq[rec] = "entered"
  /\ mu = Free
  /\ ~closed
  /\ ~ctxDone[rec]
  /\ depth = QueueSize
  /\ dropped' = dropped + 1
  /\ enq' = [enq EXCEPT ![rec] = "measure"]
  /\ mu' = rec
  /\ UNCHANGED <<ctxDone, enqSeen, accepted, gauge, runVars, envVars>>

EnqMeasure(rec) ==
  /\ enq[rec] = "measure"
  /\ enqSeen' = depth
  /\ enq' = [enq EXCEPT ![rec] = "set"]
  /\ UNCHANGED <<ctxDone, mu, dropped, accepted, gauge, runVars, envVars>>

(* Enqueue returns without unlocking.                                      *)
EnqSet_KeepsLock(rec) ==
  /\ enq[rec] = "set"
  /\ gauge' = enqSeen
  /\ enq' = [enq EXCEPT ![rec] = "returned"]
  /\ UNCHANGED <<ctxDone, mu, dropped, enqSeen, accepted, runVars, envVars>>

EnqSet(rec) ==
  /\ enq[rec] = "set"
  /\ gauge' = enqSeen
  /\ enq' = [enq EXCEPT ![rec] = "returned"]
  /\ mu' = Free
  /\ UNCHANGED <<ctxDone, dropped, enqSeen, accepted, runVars, envVars>>

Enqueue(rec) ==
  Enter(rec) \/ Ignore(rec) \/ Send(rec) \/ Drop(rec) \/ EnqMeasure(rec) \/ EnqSet(rec)
----------------------------------------------------------------------------
(* Run's select: with both channels ready Go picks either.                 *)
Receive ==
  /\ run = "select"
  /\ depth > 0
  /\ taken' = taken + 1
  /\ run' = "measure"
  /\ after' = "check"
  /\ UNCHANGED <<closed, errors, topic, runSeen, stray, accepted, gauge, enqVars, envVars>>

Cancelled ==
  /\ run = "select"
  /\ sinkDone
  /\ run' = "close"
  /\ after' = "drain"
  /\ UNCHANGED <<closed, taken, errors, topic, runSeen, stray, accepted, gauge, enqVars, envVars>>

(* Run leaves it to the select to notice that sinkCtx is cancelled.        *)
Check_NoTest ==
  /\ run = "check"
  /\ run' = "publish"
  /\ after' = "publish"
  /\ UNCHANGED <<closed, taken, errors, topic, runSeen, stray, accepted, gauge, enqVars, envVars>>

(* ctx.Err() after a receive: publish, or close and drain(record).         *)
Check ==
  /\ run = "check"
  /\ run' = IF sinkDone THEN "close" ELSE "publish"
  /\ after' = "publish"
  /\ UNCHANGED <<closed, taken, errors, topic, runSeen, stray, accepted, gauge, enqVars, envVars>>

(* close() that does not take the mutex.                                   *)
CloseSink_Unlocked ==
  /\ run = "close"
  /\ closed' = TRUE
  /\ run' = after
  /\ UNCHANGED <<taken, errors, topic, after, runSeen, stray, accepted, gauge, enqVars, envVars>>

(* close() needs the mutex; drain's timeout starts when it returns.        *)
CloseSink ==
  /\ run = "close"
  /\ mu = Free
  /\ closed' = TRUE
  /\ run' = after
  /\ UNCHANGED <<taken, errors, topic, after, runSeen, stray, accepted, gauge, enqVars, envVars>>

(* A publish that failed is tried a second time.                           *)
Publish_Retries ==
  /\ run = "publish"
  /\ \E ok, first, second \in BOOLEAN :
       /\ ok => second /\ ~drainExpired
       /\ topic' = topic \o (IF first THEN <<taken>> ELSE <<>>)
                        \o (IF second THEN <<taken>> ELSE <<>>)
       /\ errors' = IF ok THEN errors ELSE errors + 1
  /\ run' = "measure"
  /\ after' = IF closed THEN "drain" ELSE "select"
  /\ stray' = IF sinkDone /\ ~closed THEN stray + 1 ELSE stray
  /\ UNCHANGED <<closed, taken, runSeen, accepted, gauge, enqVars, envVars>>

(* publishAndCount returns within its timeout, with an error or without.   *)
(* A publish that fails may have reached the broker all the same.          *)
Publish ==
  /\ run = "publish"
  /\ \E ok, delivered \in BOOLEAN :
       /\ ok => delivered /\ ~drainExpired
       /\ topic' = IF delivered THEN Append(topic, taken) ELSE topic
       /\ errors' = IF ok THEN errors ELSE errors + 1
  /\ run' = "measure"
  /\ after' = IF closed THEN "drain" ELSE "select"
  /\ stray' = IF sinkDone /\ ~closed THEN stray + 1 ELSE stray
  /\ UNCHANGED <<closed, taken, runSeen, accepted, gauge, enqVars, envVars>>

(* drain's select: receive, leave when the timeout passed, and by default  *)
(* leave when nothing is queued.                                           *)
DrainReceive ==
  /\ run = "drain"
  /\ depth > 0
  /\ taken' = taken + 1
  /\ run' = "measure"
  /\ after' = "publish"
  /\ UNCHANGED <<closed, errors, topic, runSeen, stray, accepted, gauge, enqVars, envVars>>

DrainReturn ==
  /\ run = "drain"
  /\ depth = 0 \/ drainExpired
  /\ run' = "measure"
  /\ after' = "stopped"
  /\ UNCHANGED <<closed, taken, errors, topic, runSeen, stray, accepted, gauge, enqVars, envVars>>

RunMeasure ==
  /\ run = "measure"
  /\ runSeen' = depth
  /\ run' = "set"
  /\ UNCHANGED <<closed, taken, errors, topic, after, stray, accepted, gauge, enqVars, envVars>>

RunSet ==
  /\ run = "set"
  /\ gauge' = runSeen
  /\ run' = after
  /\ UNCHANGED <<closed, taken, errors, topic, after, runSeen, stray, accepted, enqVars, envVars>>

Run ==
  \/ Receive \/ Cancelled \/ Check \/ CloseSink \/ Publish
  \/ DrainReceive \/ DrainReturn \/ RunMeasure \/ RunSet
----------------------------------------------------------------------------
StopSinks ==
  /\ ~sinkDone
  /\ sinkDone' = TRUE
  /\ UNCHANGED <<drainExpired, accepted, gauge, enqVars, runVars>>

DrainTimeout ==
  /\ closed
  /\ run # "stopped"
  /\ ~drainExpired
  /\ drainExpired' = TRUE
  /\ UNCHANGED <<sinkDone, accepted, gauge, enqVars, runVars>>

Next ==
  \/ \E rec \in Records : CancelRequest(rec) \/ Enqueue(rec)
  \/ Run
  \/ StopSinks
  \/ DrainTimeout

Spec == Init /\ [][Next]_vars

(* The scheduler runs every goroutine, and each publish returns within     *)
(* publishTimeout (drainTimeout while draining): that the Kafka client     *)
(* returns when its context is done is assumed of the library.             *)
Fairness == WF_vars(Run) /\ \A rec \in Records : WF_vars(Enqueue(rec))

FairSpec == Spec /\ Fairness
----------------------------------------------------------------------------
EnqPCs == {"new", "entered", "measure", "set", "returned"}
RunPCs == {"select", "measure", "set", "check", "close", "publish", "drain", "stopped"}

(* Every variable of the sink has its type, and the channel never holds    *)
(* more than its capacity.                                                 *)
TypeOK ==
  /\ enq \in [Records -> EnqPCs]
  /\ ctxDone \in [Records -> BOOLEAN]
  /\ mu \in Records \cup {Free}
  /\ closed \in BOOLEAN
  /\ accepted \in Seq(Records)
  /\ taken \in Nat
  /\ dropped \in Nat
  /\ errors \in Nat
  /\ topic \in Seq(Nat)
  /\ gauge \in Nat
  /\ enqSeen \in Nat
  /\ run \in RunPCs
  /\ after \in RunPCs
  /\ runSeen \in Nat
  /\ stray \in Nat
  /\ sinkDone \in BOOLEAN
  /\ drainExpired \in BOOLEAN
  /\ depth \in 0..QueueSize

(* Stopping loses nothing unseen: once Run has returned, each record taken *)
(* over is in the topic, was counted as a publish error, or is left in the *)
(* queue and shown by the depth gauge; only drainTimeout leaves any, no    *)
(* Enqueue that raced close() does.                                        *)
DrainComplete ==
  run = "stopped" =>
    /\ Len(accepted) <= Len(topic) + errors + gauge
    /\ ~drainExpired => depth = 0

(* The gauge is set from a length read earlier, by Enqueue calls and Run   *)
(* concurrently, so it may be stale while the sink runs; but it is right   *)
(* when the sink has stopped: no late Enqueue overwrites Run's last value. *)
GaugeSettled == run = "stopped" => gauge = depth

(* Requests that keep the queue from running empty cannot put the shutdown *)
(* off, though the select may always take a record instead of ctx.Done():  *)
(* once sinkCtx is cancelled, Run ends at most the one publish it was      *)
(* about to make before it closes the sink and drainTimeout begins.        *)
StopIsPrompt == stray <= 1

(* The sink is a lossy DecisionSink: at most once and in order.            *)
Abstract == INSTANCE DecisionSink WITH Lossy <- TRUE, out <- topic
ImplementsDecisionSink == Abstract!Spec

(* Enqueue never holds a request up: the call returns even when the queue  *)
(* is full, the broker slow or the sink closing.                           *)
EnqueueReturns == \A rec \in Records : enq[rec] = "entered" ~> enq[rec] = "returned"

(* Shutdown ends: once sinkCtx is cancelled Run returns, drainTimeout or   *)
(* not, whatever requests are still enqueueing.                            *)
RunReturns == sinkDone ~> run = "stopped"
=============================================================================
