---------------------------- MODULE AuditWriter ----------------------------
(***************************************************************************)
(* AuditWriter (internal/store/audit.go): request goroutines call Enqueue, *)
(* one goroutine runs Run, which collects a batch and flushes it to        *)
(* Postgres when it is large enough or the ticker fires, keeps the batch   *)
(* when the flush fails, and on cancellation of sinkCtx closes the writer, *)
(* drains the queue into the batch and flushes once more.                  *)
(*                                                                         *)
(* The channel and the batch are windows on the history of the records the *)
(* writer took over: accepted[cleared + 1 .. taken] is the batch and       *)
(* accepted[taken + 1 .. Len(accepted)] the channel.  flush executes one   *)
(* INSERT ... ON CONFLICT (id) DO NOTHING per record of the batch, from    *)
(* its first record on.                                                    *)
(***************************************************************************)
EXTENDS Naturals, Sequences

CONSTANTS Records,     \* decisions, each offered by its own request goroutine
          Poison,      \* the ones every attempt to encode or insert rejects
          QueueSize,   \* capacity of the channel
          BatchSize    \* w.batchSize

ASSUME SizesAssumption == QueueSize \in Nat \ {0} /\ BatchSize \in Nat \ {0}
ASSUME PoisonAssumption == Poison \subseteq Records

VARIABLES
  enq,           \* where the call Enqueue(ctx, rec) is
  ctxDone,       \* the request's context is done
  closed,        \* w.closed
  accepted,      \* every record the channel took, in order
  dropped,       \* w.dropped
  taken,         \* how many records Run received
  cleared,       \* how many records left the batch after a flush
  next,          \* position of the record flush writes next
  table,         \* positions in accepted of the rows inserted, in order
  run,           \* where Run is
  sinkDone,      \* sinkCtx is cancelled
  dbUp,          \* Postgres answers
  flushExpired   \* auditFinalFlushTimeout has passed in the final flush

enqVars == <<enq, ctxDone, dropped>>
envVars == <<sinkDone, dbUp, flushExpired>>
vars == <<enq, ctxDone, closed, accepted, dropped, taken, cleared, next, table,
          run, sinkDone, dbUp, flushExpired>>

Init ==
  /\ enq = [rec \in Records |-> "new"]
  /\ ctxDone = [rec \in Records |-> FALSE]
  /\ closed = FALSE
  /\ accepted = <<>>
  /\ dropped = 0
  /\ taken = 0
  /\ cleared = 0
  /\ next = 1
  /\ table = <<>>
  /\ run = "select"
  /\ sinkDone = FALSE
  /\ dbUp = TRUE
  /\ flushExpired = FALSE

depth == Len(accepted) - taken        \* len(w.queue)
batch == cleared + 1 .. taken         \* the positions of the batch
Inserted(k) == \E i \in DOMAIN table : table[i] = k
----------------------------------------------------------------------------
(* The client goes away before Enqueue looked at its context.              *)
CancelRequest(rec) ==
  /\ enq[rec] = "new"
  /\ ~ctxDone[rec]
  /\ ctxDone' = [ctxDone EXCEPT ![rec] = TRUE]
  /\ UNCHANGED <<enq, closed, accepted, dropped, taken, cleared, next, table, run, envVars>>

(* The test of ctx.Err() before the mutex.                                 *)
Enter(rec) ==
  /\ enq[rec] = "new"
  /\ enq' = [enq EXCEPT ![rec] = IF ctxDone[rec] THEN "returned" ELSE "entered"]
  /\ UNCHANGED <<ctxDone, closed, accepted, dropped, taken, cleared, next, table, run, envVars>>

(* Under the mutex: the writer is closed.                                  *)
Ignore(rec) ==
  /\ enq[rec] = "entered"
  /\ closed
  /\ enq' = [enq EXCEPT ![rec] = "returned"]
  /\ UNCHANGED <<ctxDone, closed, accepted, dropped, taken, cleared, next, table, run, envVars>>

(* Enqueue forgets to look at w.closed.                                    *)
Send_WhenClosed(rec) ==
  /\ enq[rec] = "entered"
  /\ depth < QueueSize
  /\ accepted' = Append(accepted, rec)
  /\ enq' = [enq EXCEPT ![rec] = "returned"]
  /\ UNCHANGED <<ctxDone, closed, dropped, taken, cleared, next, table, run, envVars>>

(* Room for one record too many.                                           *)
Send_OffByOne(rec) ==
  /\ enq[rec] = "entered"
  /\ ~closed
  /\ depth <= QueueSize
  /\ accepted' = Append(accepted, rec)
  /\ enq' = [enq EXCEPT ![rec] = "returned"]
  /\ UNCHANGED <<ctxDone, closed, dropped, taken, cleared, next, table, run, envVars>>

(* Under the mutex: the select sent the record.                            *)
Send(rec) ==
  /\ enq[rec] = "entered"
  /\ ~closed
  /\ depth < QueueSize
  /\ accepted' = Append(accepted, rec)
  /\ enq' = [enq EXCEPT ![rec] = "returned"]
  /\ UNCHANGED <<ctxDone, closed, dropped, taken, cleared, next, table, run, envVars>>

(* Under the mutex: the select took its default.                           *)
Drop(rec) ==
  /\ enq[rec] = "entered"
  /\ ~closed
  /\ depth = QueueSize
  /\ dropped' = dropped + 1
  /\ enq' = [enq EXCEPT ![rec] = "returned"]
  /\ UNCHANGED <<ctxDone, closed, accepted, taken, cleared, next, table, run, envVars>>

Enqueue(rec) == Enter(rec) \/ Ignore(rec) \/ Send(rec) \/ Drop(rec)
----------------------------------------------------------------------------
(* Run's select: a record, the ticker or the cancellation, whichever is    *)
(* ready.  A tick over an empty batch changes nothing.                     *)
Receive ==
  /\ run = "select"
  /\ depth > 0
  /\ taken' = taken + 1
  /\ run' = "check"
  /\ UNCHANGED <<closed, accepted, cleared, next, table, enqVars, envVars>>

Tick ==
  /\ run = "select"
  /\ batch # {}
  /\ run' = "flush"
  /\ next' = cleared + 1
  /\ UNCHANGED <<closed, accepted, taken, cleared, table, enqVars, envVars>>

Cancelled ==
  /\ run = "select"
  /\ sinkDone
  /\ run' = "close"
  /\ UNCHANGED <<closed, accepted, taken, cleared, next, table, enqVars, envVars>>

(* After a receive: ctx.Err(), then the size of the batch.                 *)
Check ==
  /\ run = "check"
  /\ run' = IF sinkDone THEN "close"
            ELSE IF taken - cleared >= BatchSize THEN "flush" ELSE "select"
  /\ next' = cleared + 1
  /\ UNCHANGED <<closed, accepted, taken, cleared, table, enqVars, envVars>>

CloseWriter ==
  /\ run = "close"
  /\ closed' = TRUE
  /\ run' = "drain"
  /\ UNCHANGED <<accepted, taken, cleared, next, table, enqVars, envVars>>

(* drainQueued.                                                            *)
DrainReceive ==
  /\ run = "drain"
  /\ depth > 0
  /\ taken' = taken + 1
  /\ UNCHANGED <<closed, accepted, cleared, next, table, run, enqVars, envVars>>

DrainReturn ==
  /\ run = "drain"
  /\ depth = 0
  /\ run' = "final"
  /\ next' = cleared + 1
  /\ UNCHANGED <<closed, accepted, taken, cleared, table, enqVars, envVars>>

(* The context flush runs under: sinkCtx, or flushCtx in the final flush.  *)
FlushCtxDone == IF run = "final" THEN flushExpired ELSE sinkDone

(* A plain INSERT, without the ON CONFLICT clause.                         *)
Insert_Twice == table' = Append(table, next)

(* INSERT ... ON CONFLICT (id) DO NOTHING.                                 *)
Insert == table' = IF Inserted(next) THEN table ELSE Append(table, next)

(* One record of the batch is marshalled and inserted.                     *)
WriteOk ==
  /\ run \in {"flush", "final"}
  /\ next <= taken
  /\ dbUp
  /\ ~FlushCtxDone
  /\ accepted[next] \notin Poison
  /\ Insert
  /\ next' = next + 1
  /\ UNCHANGED <<closed, accepted, taken, cleared, run, enqVars, envVars>>

(* flush leaves the bad record out and goes on with the next one.          *)
WriteFails_Skips ==
  /\ run \in {"flush", "final"}
  /\ next <= taken
  /\ ~dbUp \/ FlushCtxDone \/ accepted[next] \in Poison
  /\ next' = next + 1
  /\ UNCHANGED <<closed, accepted, taken, cleared, table, run, enqVars, envVars>>

(* A failed flush clears the batch like a successful one.                  *)
WriteFails_Clears ==
  /\ run \in {"flush", "final"}
  /\ next <= taken
  /\ ~dbUp \/ FlushCtxDone \/ accepted[next] \in Poison
  /\ run' = IF run = "final" THEN "stopped" ELSE "select"
  /\ cleared' = taken
  /\ UNCHANGED <<closed, accepted, taken, next, table, enqVars, envVars>>

(* The final flush is repeated until it succeeds.                          *)
WriteFails_RetriesFinal ==
  /\ run \in {"flush", "final"}
  /\ next <= taken
  /\ ~dbUp \/ FlushCtxDone \/ accepted[next] \in Poison
  /\ run' = IF run = "final" THEN "close" ELSE "select"
  /\ UNCHANGED <<closed, accepted, taken, cleared, next, table, enqVars, envVars>>

(* flush returns the error and the batch is kept, or Run returns without a *)
(* look at the error of the final flush.  An INSERT whose answer was lost  *)
(* may have been applied.                                                  *)
WriteFails ==
  /\ run \in {"flush", "final"}
  /\ next <= taken
  /\ ~dbUp \/ FlushCtxDone \/ accepted[next] \in Poison
  /\ \/ UNCHANGED table
     \/ accepted[next] \notin Poison /\ Insert
  /\ run' = IF run = "final" THEN "stopped" ELSE "select"
  /\ UNCHANGED <<closed, accepted, taken, cleared, next, enqVars, envVars>>

(* flush returns nil: the batch is emptied, or Run returns.                *)
Flushed ==
  /\ run \in {"flush", "final"}
  /\ next > taken
  /\ cleared' = IF run = "final" THEN cleared ELSE taken
  /\ run' = IF run = "final" THEN "stopped" ELSE "select"
  /\ UNCHANGED <<closed, accepted, taken, next, table, enqVars, envVars>>

Run ==
  \/ Receive \/ Tick \/ Cancelled \/ Check \/ CloseWriter \/ DrainReceive \/ DrainReturn
  \/ WriteOk \/ WriteFails \/ Flushed
----------------------------------------------------------------------------
StopSinks ==
  /\ ~sinkDone
  /\ sinkDone' = TRUE
  /\ UNCHANGED <<closed, accepted, taken, cleared, next, table, run, dbUp, flushExpired, enqVars>>

(* Postgres, or the way to it, fails and recovers.                         *)
DatabaseChange ==
  /\ run # "stopped"
  /\ dbUp' = ~dbUp
  /\ UNCHANGED <<closed, accepted, taken, cleared, next, table, run, sinkDone, flushExpired, enqVars>>

FinalFlushTimeout ==
  /\ run = "final"
  /\ ~flushExpired
  /\ flushExpired' = TRUE
  /\ UNCHANGED <<closed, accepted, taken, cleared, next, table, run, sinkDone, dbUp, enqVars>>

Next ==
  \/ \E rec \in Records : CancelRequest(rec) \/ Enqueue(rec)
  \/ Run
  \/ StopSinks
  \/ DatabaseChange
  \/ FinalFlushTimeout

Spec == Init /\ [][Next]_vars

(* The scheduler runs every goroutine, the ticker ticks, an INSERT returns *)
(* or fails, and a select that finds ctx.Done() ready time and again, with *)
(* other channels ready too, does not pass it over forever.                *)
Fairness == WF_vars(Run) /\ SF_vars(Cancelled) /\ \A rec \in Records : WF_vars(Enqueue(rec))

FairSpec == Spec /\ Fairness
----------------------------------------------------------------------------
Types ==
  /\ enq \in [Records -> {"new", "entered", "returned"}]
  /\ ctxDone \in [Records -> BOOLEAN]
  /\ closed \in BOOLEAN
  /\ accepted \in Seq(Records)
  /\ dropped \in Nat
  /\ taken \in Nat /\ depth \in 0..QueueSize
  /\ cleared \in 0..taken
  /\ next \in Nat
  /\ table \in Seq(Nat)
  /\ run \in {"select", "check", "flush", "close", "drain", "final", "stopped"}
  /\ sinkDone \in BOOLEAN
  /\ dbUp \in BOOLEAN
  /\ flushExpired \in BOOLEAN

(* Run waits with a batch of batchSize or more only behind a record of it  *)
(* that the last flush could not write.                                    *)
BatchFits == run = "select" /\ taken - cleared >= BatchSize => next \in batch

(* Every variable of the writer has its type, and memory is bounded: the   *)
(* channel never holds more than its capacity, and the batch outgrows      *)
(* batchSize only while writes fail.                                       *)
TypeOK == Types /\ BatchFits

(* A record leaves memory only for the table: whatever flush failed, was   *)
(* retried or was cut short by the cancellation, every record cleared from *)
(* the batch has its row.                                                  *)
ClearedIsDurable == \A k \in 1..cleared : Inserted(k)

(* A clean stop is complete: when the final flush met no error, the queue  *)
(* is empty for good and every record the writer ever took over has its    *)
(* row, the ones of batches that failed before included.                   *)
StopIsDurable ==
  run = "stopped" => /\ depth = 0
                     /\ next > taken => \A k \in DOMAIN accepted : Inserted(k)

(* The writer is a lossless DecisionSink: rows appear once each, in order  *)
(* and without a gap, although a failed batch is written again from its    *)
(* start and an INSERT that failed may have been applied.                  *)
Abstract == INSTANCE DecisionSink WITH Lossy <- FALSE, out <- table
ImplementsDecisionSink == Abstract!Spec

(* Shutdown ends: once sinkCtx is cancelled Run returns, database or not.  *)
RunReturns == sinkDone ~> run = "stopped"

TakenOver(rec) == \E k \in DOMAIN accepted : accepted[k] = rec
Durable(rec) == \E k \in DOMAIN accepted : accepted[k] = rec /\ Inserted(k)

(* rec was taken over, and neither it nor a record before it is rejected.  *)
Writable(rec) ==
  \E k \in DOMAIN accepted : accepted[k] = rec /\ \A j \in 1..k : accepted[j] \notin Poison

(* An outage delays rows and loses none: if Postgres is reachable from     *)
(* some point on, each record taken over is written, unless the process    *)
(* stops first or a record before it is rejected for good.                 *)
OutageOnlyDelays ==
  <>[]dbUp => \A rec \in Records : Writable(rec) ~> Durable(rec) \/ run = "stopped"

(* "Durable audit writes use Postgres when PDS_DATABASE_URL is reachable"  *)
(* (README.md): with Postgres reachable from some point on, each record    *)
(* taken over that Postgres would accept is written, unless the process    *)
(* stops first.                                                            *)
DurableWhenReachable ==
  <>[]dbUp => \A rec \in Records :
                TakenOver(rec) /\ rec \notin Poison ~> Durable(rec) \/ run = "stopped"
=============================================================================
