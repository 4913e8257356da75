------------------------- MODULE AuditWriter_proofs -------------------------
(***************************************************************************)
(* Proofs about AuditWriter, for every set of records, queue size and      *)
(* batch size: the type invariant, durability of what leaves the batch and *)
(* of a clean stop, and that the writer implements DecisionSink.           *)
(***************************************************************************)
EXTENDS AuditWriter, TLAPS

(* The rows are the first records taken over, in order; a flush never gets *)
(* ahead of the first record without a row by more than that record.       *)
InvTable ==
  /\ \A n \in DOMAIN table : table[n] = n
  /\ cleared <= Len(table)
  /\ Len(table) <= taken
  /\ next >= 1
  /\ next <= Len(table) + 1

(* A record in the channel's history was sent by a call that has returned. *)
InvAccepted == \A n \in DOMAIN accepted : enq[accepted[n]] = "returned"

(* Where Run is tells whether the writer is closed, and drained.           *)
InvControl ==
  /\ closed <=> run \in {"drain", "final", "stopped"}
  /\ run \in {"final", "stopped"} => depth = 0

(* A flush is past what was cleared, so that a record it stops at is one   *)
(* of the batch.                                                           *)
InvBatch == BatchFits /\ (run = "flush" => next > cleared)

IInv == Types /\ InvTable /\ InvAccepted /\ InvControl /\ InvBatch
-----------------------------------------------------------------------------
(* The writer starts in the invariant.                                     *)
LEMMA InitInv == Init => IInv
<1> SUFFICES ASSUME Init
             PROVE  IInv
  OBVIOUS
<1>1. Types
  <2>1. enq \in [Records -> {"new", "entered", "returned"}]
    BY DEF Init
  <2>2. ctxDone \in [Records -> BOOLEAN]
    BY DEF Init
  <2>3. depth \in 0..QueueSize /\ taken \in Nat /\ cleared \in 0..taken /\ next \in Nat
    BY SizesAssumption DEF Init, depth
  <2>4. closed \in BOOLEAN /\ sinkDone \in BOOLEAN /\ dbUp \in BOOLEAN /\ flushExpired \in BOOLEAN
    BY DEF Init
  <2>5. accepted \in Seq(Records) /\ table \in Seq(Nat) /\ dropped \in Nat
    BY DEF Init
  <2>6. QED
    BY <2>1, <2>2, <2>3, <2>4, <2>5 DEF Init, Types
<1>2. InvTable /\ InvAccepted /\ InvControl
  BY DEF Init, InvTable, InvAccepted, InvControl
<1>3. InvBatch
  BY SizesAssumption DEF Init, InvBatch, BatchFits
<1>4. QED
  BY <1>1, <1>2, <1>3 DEF IInv

(* Enqueue and the cancellation of requests keep the invariant.            *)
LEMMA EnqueueKeeps ==
  ASSUME IInv, NEW rec \in Records, CancelRequest(rec) \/ Enqueue(rec)
  PROVE  IInv'
<1>1. UNCHANGED <<closed, taken, cleared, next, table, run, sinkDone, dbUp, flushExpired>>
  BY DEF CancelRequest, Enqueue, Enter, Ignore, Send, Drop, envVars
<1>2. InvTable' /\ InvBatch'
  BY <1>1 DEF IInv, InvTable, InvBatch, BatchFits, batch
<1>3. CASE CancelRequest(rec) \/ Enter(rec) \/ Ignore(rec) \/ Drop(rec)
  <2>1. enq' \in [Records -> {"new", "entered", "returned"}]
    BY <1>3 DEF IInv, Types, CancelRequest, Enter, Ignore, Drop
  <2>2. ctxDone' \in [Records -> BOOLEAN]
    BY <1>3 DEF IInv, Types, CancelRequest, Enter, Ignore, Drop
  <2>3. accepted' = accepted /\ dropped' \in Nat
    BY <1>3 DEF IInv, Types, CancelRequest, Enter, Ignore, Drop
  <2>4. Types'
    BY <1>1, <2>1, <2>2, <2>3 DEF IInv, Types, depth
  <2>5. InvAccepted'
    <3>1. \A r \in Records : enq[r] = "returned" => enq'[r] = "returned"
      BY <1>3 DEF IInv, Types, CancelRequest, Enter, Ignore, Drop
    <3>2. \A n \in DOMAIN accepted : accepted[n] \in Records
      BY DEF IInv, Types
    <3>3. QED
      BY <2>3, <3>1, <3>2 DEF IInv, InvAccepted
  <2>6. InvControl'
    BY <1>1, <2>3 DEF IInv, InvControl, depth
  <2>7. QED
    BY <1>2, <2>4, <2>5, <2>6 DEF IInv
<1>4. CASE Send(rec)
  <2>1. /\ enq' \in [Records -> {"new", "entered", "returned"}]
        /\ enq'[rec] = "returned"
        /\ \A r \in Records : r # rec => enq'[r] = enq[r]
    BY <1>4 DEF IInv, Types, Send
  <2>2. UNCHANGED <<ctxDone, dropped>> /\ ~closed
    BY <1>4 DEF Send
  <2>3. accepted \in Seq(Records) /\ accepted' = Append(accepted, rec) /\ accepted' \in Seq(Records)
    BY <1>4 DEF IInv, Types, Send
  <2>4. depth' \in 0..QueueSize
    BY <1>1, <1>4, <2>3, SizesAssumption DEF IInv, Types, Send, depth
  <2>5. Types'
    BY <1>1, <2>1, <2>2, <2>3, <2>4 DEF IInv, Types
  <2>6. InvAccepted'
    <3>1. \A n \in DOMAIN accepted' :
            \/ accepted'[n] = rec
            \/ n \in DOMAIN accepted /\ accepted'[n] = accepted[n] /\ accepted[n] \in Records
      BY <2>3
    <3>2. QED
      BY <2>1, <3>1 DEF IInv, InvAccepted
  <2>7. InvControl'
    BY <1>1, <2>2 DEF IInv, InvControl
  <2>8. QED
    BY <1>2, <2>5, <2>6, <2>7 DEF IInv
<1>5. QED
  BY <1>3, <1>4 DEF Enqueue

(* Inserting the record flush is at adds a row at the end or none.         *)
LEMMA InsertRow ==
  ASSUME Types, InvTable, Insert, next <= taken
  PROVE  /\ \/ table' = table /\ next <= Len(table)
            \/ table' = Append(table, next) /\ next = Len(table) + 1
         /\ table' \in Seq(Nat)
         /\ Len(table) <= Len(table') /\ next <= Len(table') /\ Len(table') <= taken
         /\ \A n \in DOMAIN table' : table'[n] = n
<1>1. table \in Seq(Nat) /\ next \in Nat /\ taken \in Nat /\ Len(table) \in Nat
  BY DEF Types
<1>2. Inserted(next) <=> next <= Len(table)
  BY <1>1 DEF Inserted, InvTable
<1>3. CASE next <= Len(table)
  BY <1>1, <1>2, <1>3 DEF Insert, InvTable
<1>4. CASE next = Len(table) + 1
  <2>1. table' = Append(table, next)
    BY <1>1, <1>2, <1>4 DEF Insert
  <2>2. table' \in Seq(Nat) /\ Len(table') = Len(table) + 1
    BY <1>1, <2>1
  <2>3. \A n \in DOMAIN table' : table'[n] = n
    BY <1>1, <1>4, <2>1 DEF InvTable
  <2>4. QED
    BY <1>1, <1>4, <2>1, <2>2, <2>3
<1>5. QED
  BY <1>1, <1>3, <1>4 DEF InvTable

(* Run keeps the invariant.                                                *)
LEMMA RunKeeps ==
  ASSUME IInv, Run
  PROVE  IInv'
<1> USE SizesAssumption
<1>1. UNCHANGED <<accepted, enq, ctxDone, dropped, sinkDone, dbUp, flushExpired>>
  BY DEF Run, Receive, Tick, Cancelled, Check, CloseWriter, DrainReceive, DrainReturn,
         WriteOk, WriteFails, Flushed, enqVars, envVars
<1>2. InvAccepted' /\ InvBatch'
  <2>1. InvAccepted'
    BY <1>1 DEF IInv, InvAccepted
  <2>2. taken \in Nat /\ cleared \in Nat /\ next \in Nat /\ BatchSize \in Nat \ {0}
    BY DEF IInv, Types
  <2>3. CASE Receive \/ Tick \/ Cancelled \/ Check \/ CloseWriter \/ DrainReceive \/ DrainReturn
    BY <2>1, <2>2, <2>3 DEF InvBatch, BatchFits, Receive, Tick, Cancelled, Check, CloseWriter,
                      DrainReceive, DrainReturn
  <2>4. CASE WriteOk
    BY <2>1, <2>2, <2>4 DEF IInv, InvBatch, BatchFits, WriteOk
  <2>5. CASE WriteFails
    BY <2>1, <2>2, <2>5 DEF IInv, InvBatch, BatchFits, batch, WriteFails
  <2>6. CASE Flushed
    BY <2>1, <2>2, <2>6 DEF InvBatch, BatchFits, Flushed
  <2>7. QED
    BY <2>3, <2>4, <2>5, <2>6 DEF Run
<1>3. CASE Receive \/ DrainReceive
  <2>1. /\ taken' = taken + 1 /\ depth > 0
        /\ UNCHANGED <<closed, cleared, next, table>>
        /\ \/ run = "select" /\ run' = "check"
           \/ run = "drain" /\ run' = "drain"
    BY <1>3 DEF Receive, DrainReceive
  <2>2. taken' \in Nat /\ depth' \in 0..QueueSize /\ cleared' \in 0..taken'
    BY <1>1, <2>1 DEF IInv, Types, depth
  <2>3. Types'
    BY <1>1, <2>1, <2>2 DEF IInv, Types
  <2>4. InvTable'
    BY <2>1 DEF IInv, Types, InvTable
  <2>5. InvControl'
    BY <2>1 DEF IInv, InvControl
  <2>6. QED
    BY <1>2, <2>3, <2>4, <2>5 DEF IInv
<1>4. CASE Tick \/ Cancelled \/ Check \/ CloseWriter \/ DrainReturn
  <2>1. /\ UNCHANGED <<taken, cleared, table>> /\ (next' = next \/ next' = cleared + 1)
        /\ closed' \in BOOLEAN
        /\ run' \in {"select", "flush", "close", "drain", "final"}
    BY <1>4 DEF IInv, Types, Tick, Cancelled, Check, CloseWriter, DrainReturn
  <2>2. Types'
    <3>1. next' \in Nat
      BY <2>1 DEF IInv, Types
    <3>2. QED
      BY <1>1, <2>1, <3>1 DEF IInv, Types, depth
  <2>3. InvTable'
    BY <2>1 DEF IInv, Types, InvTable
  <2>4. InvControl'
    BY <1>1, <1>4, <2>1 DEF IInv, InvControl, depth, Tick, Cancelled, Check, CloseWriter, DrainReturn
  <2>5. QED
    BY <1>2, <2>2, <2>3, <2>4 DEF IInv
<1>5. CASE WriteOk
  <2>1. /\ run \in {"flush", "final"} /\ next <= taken /\ Insert /\ next' = next + 1
        /\ UNCHANGED <<closed, taken, cleared, run>>
    BY <1>5 DEF WriteOk
  <2>2. /\ table' \in Seq(Nat) /\ Len(table) <= Len(table') /\ next <= Len(table')
        /\ Len(table') <= taken /\ \A n \in DOMAIN table' : table'[n] = n
    BY <2>1, InsertRow DEF IInv
  <2>3. /\ next \in Nat /\ taken \in Nat /\ cleared \in Nat /\ Len(table) \in Nat
        /\ Len(table') \in Nat
    BY <2>2 DEF IInv, Types
  <2>4. Types'
    BY <1>1, <2>1, <2>2, <2>3 DEF IInv, Types, depth
  <2>5. InvTable'
    BY <2>1, <2>2, <2>3 DEF IInv, InvTable
  <2>6. InvControl'
    BY <1>1, <2>1 DEF IInv, InvControl, depth
  <2>7. QED
    BY <1>2, <2>4, <2>5, <2>6 DEF IInv
<1>6. CASE WriteFails
  <2>1. /\ run \in {"flush", "final"} /\ next <= taken /\ (Insert \/ table' = table)
        /\ UNCHANGED <<closed, taken, cleared, next>>
        /\ run' = IF run = "final" THEN "stopped" ELSE "select"
    BY <1>6 DEF WriteFails
  <2>2. /\ table' \in Seq(Nat) /\ Len(table) <= Len(table')
        /\ Len(table') <= taken /\ \A n \in DOMAIN table' : table'[n] = n
    <3>1. CASE Insert
      BY <2>1, <3>1, InsertRow DEF IInv
    <3>2. CASE table' = table
      BY <3>2 DEF IInv, Types, InvTable
    <3>3. QED
      BY <2>1, <3>1, <3>2
  <2>3. /\ next \in Nat /\ taken \in Nat /\ cleared \in Nat /\ Len(table) \in Nat
        /\ Len(table') \in Nat
    BY <2>2 DEF IInv, Types
  <2>4. Types'
    BY <1>1, <2>1, <2>2 DEF IInv, Types, depth
  <2>5. InvTable'
    BY <2>1, <2>2, <2>3 DEF IInv, InvTable
  <2>6. InvControl'
    BY <1>1, <2>1 DEF IInv, InvControl, depth
  <2>7. QED
    BY <1>2, <2>4, <2>5, <2>6 DEF IInv
<1>7. CASE Flushed
  <2>1. /\ run \in {"flush", "final"} /\ next > taken
        /\ UNCHANGED <<closed, taken, next, table>>
        /\ (cleared' = cleared \/ cleared' = taken)
        /\ run' = IF run = "final" THEN "stopped" ELSE "select"
    BY <1>7 DEF Flushed
  <2>2. Types'
    <3>1. cleared' \in 0..taken'
      BY <2>1 DEF IInv, Types
    <3>2. QED
      BY <1>1, <2>1, <3>1 DEF IInv, Types, depth
  <2>3. InvTable'
    <3>1. /\ next \in Nat /\ taken \in Nat /\ cleared \in Nat /\ Len(table) \in Nat
      BY DEF IInv, Types
    <3>2. QED
      BY <2>1, <3>1 DEF IInv, InvTable
  <2>4. InvControl'
    BY <1>1, <2>1 DEF IInv, InvControl, depth
  <2>5. QED
    BY <1>2, <2>2, <2>3, <2>4 DEF IInv
<1>8. QED
  BY <1>3, <1>4, <1>5, <1>6, <1>7 DEF Run

(* Every step keeps the invariant.                                         *)
LEMMA StepInv == IInv /\ [Next]_vars => IInv'
<1> SUFFICES ASSUME IInv, [Next]_vars
             PROVE  IInv'
  OBVIOUS
<1>1. CASE \E rec \in Records : CancelRequest(rec) \/ Enqueue(rec)
  BY <1>1, EnqueueKeeps
<1>2. CASE Run
  BY <1>2, RunKeeps
<1>3. CASE StopSinks \/ DatabaseChange \/ FinalFlushTimeout \/ UNCHANGED vars
  <2>1. /\ UNCHANGED <<closed, accepted, taken, cleared, next, table, run, enq, ctxDone, dropped>>
        /\ sinkDone' \in BOOLEAN /\ dbUp' \in BOOLEAN /\ flushExpired' \in BOOLEAN
    BY <1>3 DEF IInv, Types, StopSinks, DatabaseChange, FinalFlushTimeout, vars, enqVars
  <2>2. Types'
    BY <2>1 DEF IInv, Types, depth
  <2>3. InvTable' /\ InvAccepted' /\ InvControl' /\ InvBatch'
    BY <2>1 DEF IInv, InvTable, InvAccepted, InvControl, InvBatch, BatchFits, batch, depth
  <2>4. QED
    BY <2>2, <2>3 DEF IInv
<1>4. QED
  BY <1>1, <1>2, <1>3 DEF Next
-----------------------------------------------------------------------------
(* Every state of the writer satisfies the invariant.                      *)
THEOREM AuditInvariant == Spec => []IInv
  BY InitInv, StepInv, PTL DEF Spec

(* Type correctness, and the bound on the queue, for every queue size.     *)
THEOREM AuditTypeOK == Spec => []TypeOK
<1>1. IInv => TypeOK
  BY DEF IInv, InvBatch, TypeOK
<1>2. QED
  BY <1>1, AuditInvariant, PTL

(* A record leaves the batch only when it has its row, whatever failed.    *)
THEOREM AuditClearedIsDurable == Spec => []ClearedIsDurable
<1>1. IInv => ClearedIsDurable
  <2> SUFFICES ASSUME IInv, NEW k \in 1..cleared
               PROVE  Inserted(k)
    BY DEF ClearedIsDurable
  <2>1. k \in 1..Len(table)
    BY DEF IInv, Types, InvTable
  <2>2. QED
    BY <2>1 DEF IInv, Types, InvTable, Inserted
<1>2. QED
  BY <1>1, AuditInvariant, PTL

(* A stop whose final flush met no error leaves no record without a row.   *)
THEOREM AuditStopIsDurable == Spec => []StopIsDurable
<1>1. IInv => StopIsDurable
  <2> SUFFICES ASSUME IInv, run = "stopped"
               PROVE  /\ depth = 0
                      /\ next > taken => \A k \in DOMAIN accepted : Inserted(k)
    BY DEF StopIsDurable
  <2>1. depth = 0
    BY DEF IInv, InvControl
  <2>2. ASSUME next > taken, NEW k \in DOMAIN accepted
        PROVE  Inserted(k)
    <3>1. k \in 1..Len(table)
      BY <2>1, <2>2 DEF IInv, Types, InvTable, depth
    <3>2. QED
      BY <3>1 DEF IInv, Types, InvTable, Inserted
  <2>3. QED
    BY <2>1, <2>2
<1>2. QED
  BY <1>1, AuditInvariant, PTL
-----------------------------------------------------------------------------
(* Each step of the writer is a step of DecisionSink or leaves it alone.   *)
LEMMA StepRefines == IInv /\ [Next]_vars => [Abstract!Next]_(Abstract!vars)
<1> SUFFICES ASSUME IInv, [Next]_vars
             PROVE  Abstract!Next \/ UNCHANGED <<accepted, table, closed>>
  BY DEF Abstract!vars
<1>1. ASSUME NEW rec \in Records, Send(rec)
      PROVE  Abstract!Next
  <2>1. \A n \in DOMAIN accepted : accepted[n] # rec
    BY <1>1 DEF IInv, InvAccepted, Send
  <2>2. Abstract!Accept(rec)
    BY <1>1, <2>1 DEF Abstract!Accept, Send
  <2>3. QED
    BY <2>2 DEF Abstract!Next
<1>2. ASSUME Insert, next <= taken, UNCHANGED <<accepted, closed>>
      PROVE  Abstract!Next \/ UNCHANGED <<accepted, table, closed>>
  <2>1. CASE table' = table
    BY <1>2, <2>1
  <2>2. CASE table' = Append(table, next) /\ next = Len(table) + 1
    <3>1. next \in DOMAIN accepted
      BY <1>2, <2>2 DEF IInv, Types, InvTable, depth
    <3>2. Abstract!Delivered = Len(table)
      BY DEF Abstract!Delivered, IInv, Types, InvTable
    <3>3. Abstract!Deliver(next)
      BY <1>2, <2>2, <3>2 DEF Abstract!Deliver, IInv, Types
    <3>4. QED
      BY <3>1, <3>3 DEF Abstract!Next
  <2>3. QED
    BY <1>2, <2>1, <2>2, InsertRow DEF IInv
<1>3. CASE WriteOk \/ WriteFails
  BY <1>2, <1>3 DEF WriteOk, WriteFails
<1>4. CASE CloseWriter
  <2>1. Abstract!Close
    BY <1>4 DEF IInv, Types, InvControl, CloseWriter, Abstract!Close
  <2>2. QED
    BY <2>1 DEF Abstract!Next
<1>5. ASSUME NEW rec \in Records, CancelRequest(rec) \/ Enter(rec) \/ Ignore(rec) \/ Drop(rec)
      PROVE  UNCHANGED <<accepted, table, closed>>
  BY <1>5 DEF CancelRequest, Enter, Ignore, Drop
<1>6. CASE Receive \/ Tick \/ Cancelled \/ Check \/ DrainReceive \/ DrainReturn \/ Flushed
  BY <1>6 DEF Receive, Tick, Cancelled, Check, DrainReceive, DrainReturn, Flushed
<1>7. CASE StopSinks \/ DatabaseChange \/ FinalFlushTimeout \/ UNCHANGED vars
  BY <1>7 DEF StopSinks, DatabaseChange, FinalFlushTimeout, vars
<1>8. QED
  BY <1>1, <1>3, <1>4, <1>5, <1>6, <1>7 DEF Next, Enqueue, Run

(* For every queue and batch size: the audit writer is a lossless          *)
(* DecisionSink.  Rows appear once each, in order and without a gap.       *)
THEOREM AuditImplements == Spec => ImplementsDecisionSink
<1>1. Init => Abstract!Init
  BY DEF Init, Abstract!Init
<1>2. QED
  BY <1>1, StepRefines, AuditInvariant, PTL DEF Spec, ImplementsDecisionSink, Abstract!Spec
=============================================================================
