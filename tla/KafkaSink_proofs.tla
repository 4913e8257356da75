-------------------------- MODULE KafkaSink_proofs --------------------------
(***************************************************************************)
(* Proofs about KafkaSink, for every set of records and queue size: the    *)
(* type invariant, the two safety invariants of a stopped sink, that a     *)
(* cancelled sink closes promptly, and that it implements DecisionSink.    *)
(***************************************************************************)
EXTENDS KafkaSink, TLAPS

(* Run has received a record and not settled it yet.                       *)
InHand ==
  \/ run \in {"check", "publish"}
  \/ run \in {"measure", "set", "close"} /\ after \in {"check", "publish"}

(* The mutex is held by the call that measures; once the sink is closed    *)
(* nobody takes it again.                                                  *)
InvMutex ==
  /\ \A rec \in Records : enq[rec] \in {"measure", "set"} <=> mu = rec
  /\ closed => mu = Free

(* A record in the channel's history was sent by a call that is past it.   *)
InvAccepted ==
  \A n \in DOMAIN accepted : enq[accepted[n]] \in {"measure", "set", "returned"}

(* Where Run is tells whether the sink is closed.                          *)
InvControl ==
  /\ run \in {"select", "check", "close"} => ~closed
  /\ run \in {"drain", "stopped"} => closed
  /\ run = "close" => after \in {"drain", "publish"}
  /\ run \in {"measure", "set"} =>
       \/ after \in {"select", "check"} /\ ~closed
       \/ after \in {"publish", "drain", "stopped"} /\ closed

(* Run publishes in the order of the channel, one record at a time.        *)
InvTopic ==
  /\ InHand => taken > 0
  /\ \A n \in DOMAIN topic : topic[n] <= taken /\ (InHand => topic[n] < taken)

(* Each record settled is in the topic or counted.                         *)
InvCount == (IF InHand THEN taken - 1 ELSE taken) <= Len(topic) + errors

(* Run leaves the drain with an empty queue or an expired timeout, and the *)
(* depth it read last is the depth for good.                               *)
InvStop ==
  /\ run \in {"measure", "set"} /\ after = "stopped" => depth = 0 \/ drainExpired
  /\ run = "set" /\ after = "stopped" => runSeen = depth
  /\ run = "stopped" => (depth = 0 \/ drainExpired) /\ gauge = depth

(* The publish that the cancellation overtook is the only one, and the     *)
(* test after each receive lets no other follow it.                        *)
InvPrompt ==
  /\ stray \in {0, 1}
  /\ stray = 1 => sinkDone
  /\ run = "publish" /\ ~closed => stray = 0

IInv == /\ TypeOK /\ InvMutex /\ InvAccepted /\ InvControl
        /\ InvTopic /\ InvCount /\ InvStop /\ InvPrompt
-----------------------------------------------------------------------------
(* The sink starts in the invariant.                                       *)
LEMMA InitInv == Init => IInv
<1> SUFFICES ASSUME Init
             PROVE  IInv
  OBVIOUS
<1>1. TypeOK
  <2>1. enq \in [Records -> EnqPCs]
    BY DEF Init, EnqPCs
  <2>2. ctxDone \in [Records -> BOOLEAN]
    BY DEF Init
  <2>3. depth \in 0..QueueSize /\ taken \in Nat
    BY QueueSizeAssumption DEF Init, depth
  <2>4. closed \in BOOLEAN /\ sinkDone \in BOOLEAN /\ drainExpired \in BOOLEAN
    BY DEF Init
  <2>5. accepted \in Seq(Records) /\ topic \in Seq(Nat)
    BY DEF Init
  <2>6. QED
    BY <2>1, <2>2, <2>3, <2>4, <2>5 DEF Init, TypeOK, RunPCs
<1>2. InvMutex
  BY FreeAssumption DEF Init, InvMutex
<1>3. InvAccepted /\ InvControl /\ InvTopic /\ InvCount /\ InvStop /\ InvPrompt
  BY DEF Init, InvAccepted, InvControl, InvTopic, InvCount, InvStop, InvPrompt, InHand, depth
<1>4. QED
  BY <1>1, <1>2, <1>3 DEF IInv

(* Enqueue and the cancellation of requests keep the invariant.            *)
LEMMA EnqueueKeeps ==
  ASSUME IInv, NEW rec \in Records, CancelRequest(rec) \/ Enqueue(rec)
  PROVE  IInv'
<1> USE QueueSizeAssumption, FreeAssumption
<1>1. CASE CancelRequest(rec) \/ Enter(rec) \/ Ignore(rec)
  <2>1. TypeOK'
    <3>1. enq' \in [Records -> EnqPCs]
      BY <1>1 DEF IInv, TypeOK, CancelRequest, Enter, Ignore, EnqPCs
    <3>2. ctxDone' \in [Records -> BOOLEAN]
      BY <1>1 DEF IInv, TypeOK, CancelRequest, Enter, Ignore
    <3>3. QED
      BY <1>1, <3>1, <3>2 DEF IInv, TypeOK, CancelRequest, Enter, Ignore, runVars, envVars, depth
  <2>2. InvMutex' /\ InvAccepted'
    <3>1. /\ \A r \in Records : 
               \/ enq'[r] = enq[r]
               \/ enq[r] \in {"new", "entered"} /\ enq'[r] \in {"entered", "returned"}
          /\ UNCHANGED <<mu, closed, accepted>>
      BY <1>1 DEF IInv, TypeOK, CancelRequest, Enter, Ignore, runVars
    <3>2. InvMutex'
      BY <3>1 DEF IInv, InvMutex
    <3>3. \A n \in DOMAIN accepted : accepted[n] \in Records
      BY DEF IInv, TypeOK
    <3>4. InvAccepted'
      BY <3>1, <3>3 DEF IInv, InvAccepted
    <3>5. QED
      BY <3>2, <3>4
  <2>3. InvControl' /\ InvTopic' /\ InvCount' /\ InvStop'
    BY <1>1 DEF IInv, InvControl, InvTopic, InvCount, InvStop, InHand, depth,
                CancelRequest, Enter, Ignore, runVars, envVars
  <2>4. InvPrompt'
    BY <1>1 DEF IInv, InvPrompt, CancelRequest, Enter, Ignore, runVars, envVars
  <2>5. QED
    BY <2>1, <2>2, <2>3, <2>4 DEF IInv
<1>2. CASE Send(rec) \/ Drop(rec)
  <2>1. TypeOK'
    <3>1. enq' \in [Records -> EnqPCs] /\ mu' \in Records \cup {Free}
      BY <1>2 DEF IInv, TypeOK, Send, Drop, EnqPCs
    <3>2. accepted' \in Seq(Records) /\ dropped' \in Nat /\ depth' \in 0..QueueSize
      <4>1. UNCHANGED taken /\ depth <= QueueSize
        BY <1>2 DEF IInv, TypeOK, Send, Drop, runVars
      <4>2. CASE Send(rec)
        BY <4>1, <4>2 DEF IInv, TypeOK, Send, depth
      <4>3. CASE Drop(rec)
        BY <4>1, <4>3 DEF IInv, TypeOK, Drop, depth
      <4>4. QED
        BY <1>2, <4>2, <4>3
    <3>3. UNCHANGED <<ctxDone, enqSeen, gauge, runVars, envVars>>
      BY <1>2 DEF Send, Drop
    <3>4. QED
      BY <3>1, <3>2, <3>3 DEF IInv, TypeOK, runVars, envVars
  <2>2. InvMutex'
    BY <1>2 DEF IInv, TypeOK, InvMutex, Send, Drop, runVars, envVars
  <2>3. InvAccepted'
    <3>1. /\ enq'[rec] = "measure"
          /\ \A r \in Records : r # rec => enq'[r] = enq[r]
          /\ accepted \in Seq(Records) /\ (accepted' = accepted \/ accepted' = Append(accepted, rec))
      BY <1>2 DEF IInv, TypeOK, Send, Drop
    <3>2. \A n \in DOMAIN accepted' : 
            \/ accepted'[n] = rec
            \/ n \in DOMAIN accepted /\ accepted'[n] = accepted[n] /\ accepted[n] \in Records
      BY <3>1
    <3>3. QED
      BY <3>1, <3>2 DEF IInv, InvAccepted
  <2>4. InvControl' /\ InvTopic' /\ InvCount'
    BY <1>2 DEF IInv, InvControl, InvTopic, InvCount, InHand, Send, Drop, runVars, envVars
  <2>5. InvStop'
    BY <1>2 DEF IInv, InvControl, InvStop, Send, Drop, runVars, envVars
  <2>6. InvPrompt'
    BY <1>2 DEF IInv, InvPrompt, Send, Drop, runVars, envVars
  <2>7. QED
    BY <2>1, <2>2, <2>3, <2>4, <2>5, <2>6 DEF IInv
<1>3. CASE EnqMeasure(rec) \/ EnqSet(rec)
  <2>1. ~closed
    BY <1>3 DEF IInv, InvMutex, EnqMeasure, EnqSet
  <2>2. TypeOK'
    <3>1. enq' \in [Records -> EnqPCs] /\ mu' \in Records \cup {Free}
      BY <1>3 DEF IInv, TypeOK, EnqMeasure, EnqSet, EnqPCs
    <3>2. enqSeen' \in Nat /\ gauge' \in Nat
      BY <1>3 DEF IInv, TypeOK, EnqMeasure, EnqSet
    <3>3. UNCHANGED <<ctxDone, dropped, accepted, runVars, envVars>>
      BY <1>3 DEF EnqMeasure, EnqSet
    <3>4. QED
      BY <3>1, <3>2, <3>3 DEF IInv, TypeOK, runVars, envVars, depth
  <2>3. InvMutex' /\ InvAccepted'
    <3>1. /\ enq[rec] \in {"measure", "set"} /\ mu = rec
          /\ \A r \in Records : r # rec => enq'[r] = enq[r]
          /\ \/ enq'[rec] = "set" /\ mu' = rec
             \/ enq'[rec] = "returned" /\ mu' = Free
          /\ UNCHANGED <<accepted, closed>>
      BY <1>3 DEF IInv, TypeOK, InvMutex, EnqMeasure, EnqSet, runVars
    <3>2. InvMutex'
      BY <3>1, <2>1 DEF IInv, InvMutex
    <3>3. \A n \in DOMAIN accepted : accepted[n] \in Records
      BY DEF IInv, TypeOK
    <3>4. InvAccepted'
      BY <3>1, <3>3 DEF IInv, InvAccepted
    <3>5. QED
      BY <3>2, <3>4
  <2>4. InvControl' /\ InvTopic' /\ InvCount'
    BY <1>3 DEF IInv, InvControl, InvTopic, InvCount, InHand, EnqMeasure, EnqSet, runVars, envVars
  <2>5. InvStop'
    BY <1>3, <2>1 DEF IInv, InvControl, InvStop, EnqMeasure, EnqSet, runVars, envVars
  <2>6. InvPrompt'
    BY <1>3 DEF IInv, InvPrompt, EnqMeasure, EnqSet, runVars, envVars
  <2>7. QED
    BY <2>2, <2>3, <2>4, <2>5, <2>6 DEF IInv
<1>4. QED
  BY <1>1, <1>2, <1>3 DEF Enqueue

(* Run keeps the invariant.                                                *)
LEMMA RunKeeps ==
  ASSUME IInv, Run
  PROVE  IInv'
<1> USE QueueSizeAssumption, FreeAssumption
<1>1. CASE Receive \/ DrainReceive
  <2>1. TypeOK'
    <3>1. taken' \in Nat /\ depth' \in 0..QueueSize
      BY <1>1 DEF IInv, TypeOK, Receive, DrainReceive, depth
    <3>2. run' \in RunPCs /\ after' \in RunPCs
      BY <1>1 DEF Receive, DrainReceive, RunPCs
    <3>3. UNCHANGED <<closed, errors, topic, runSeen, stray, accepted, gauge, enqVars, envVars>>
      BY <1>1 DEF Receive, DrainReceive
    <3>4. QED
      BY <3>1, <3>2, <3>3 DEF IInv, TypeOK, enqVars, envVars
  <2>2. InvMutex' /\ InvAccepted' /\ InvControl'
    BY <1>1 DEF IInv, InvMutex, InvAccepted, InvControl, Receive, DrainReceive, enqVars, envVars
  <2>3. InvTopic' /\ InvCount'
    BY <1>1 DEF IInv, TypeOK, InvTopic, InvCount, InHand, Receive, DrainReceive, enqVars, envVars
  <2>4. InvStop'
    BY <1>1 DEF InvStop, Receive, DrainReceive
  <2>5. InvPrompt'
    BY <1>1 DEF IInv, InvPrompt, Receive, DrainReceive, envVars
  <2>6. QED
    BY <2>1, <2>2, <2>3, <2>4, <2>5 DEF IInv
<1>2. CASE Cancelled \/ Check \/ CloseSink
  <2>1. TypeOK'
    BY <1>2 DEF IInv, TypeOK, InvControl, Cancelled, Check, CloseSink, enqVars, envVars, depth, RunPCs
  <2>2. InvMutex' /\ InvAccepted' /\ InvControl'
    BY <1>2 DEF IInv, InvMutex, InvAccepted, InvControl, Cancelled, Check, CloseSink, enqVars, envVars
  <2>3. InvTopic' /\ InvCount'
    BY <1>2 DEF IInv, InvTopic, InvCount, InvControl, InHand, Cancelled, Check, CloseSink
  <2>4. InvStop'
    BY <1>2 DEF IInv, InvControl, InvStop, Cancelled, Check, CloseSink
  <2>5. InvPrompt'
    BY <1>2 DEF IInv, InvControl, InvPrompt, Cancelled, Check, CloseSink, envVars
  <2>6. QED
    BY <2>1, <2>2, <2>3, <2>4, <2>5 DEF IInv
<1>3. CASE Publish
  <2>1. PICK ok \in BOOLEAN, delivered \in BOOLEAN :
          /\ ok => delivered
          /\ topic' = IF delivered THEN Append(topic, taken) ELSE topic
          /\ errors' = IF ok THEN errors ELSE errors + 1
    BY <1>3 DEF Publish
  <2>2. /\ run = "publish" /\ run' = "measure" /\ after' = IF closed THEN "drain" ELSE "select"
        /\ stray' = IF sinkDone /\ ~closed THEN stray + 1 ELSE stray
        /\ UNCHANGED <<closed, taken, runSeen, accepted, gauge, enqVars, envVars>>
    BY <1>3 DEF Publish
  <2>3. TypeOK'
    <3>1. topic' \in Seq(Nat) /\ errors' \in Nat
      BY <2>1 DEF IInv, TypeOK
    <3>2. run' \in RunPCs /\ after' \in RunPCs /\ stray' \in Nat
      BY <2>2 DEF RunPCs, IInv, TypeOK
    <3>3. QED
      BY <2>2, <3>1, <3>2 DEF IInv, TypeOK, enqVars, envVars, depth
  <2>4. InvMutex' /\ InvAccepted' /\ InvControl' /\ InvStop'
    BY <2>2 DEF IInv, InvMutex, InvAccepted, InvControl, InvStop, enqVars, envVars
  <2>5. InvTopic'
    BY <2>1, <2>2 DEF IInv, TypeOK, InvTopic, InHand
  <2>6. InvCount'
    <3>1. taken - 1 <= Len(topic) + errors /\ ~InHand'
      BY <2>2 DEF IInv, InvCount, InHand
    <3>2. taken \in Nat /\ errors \in Nat /\ errors' \in Nat /\ Len(topic) \in Nat /\ Len(topic') \in Nat
      BY <2>3 DEF IInv, TypeOK
    <3>3. Len(topic') + errors' >= Len(topic) + errors + 1
      <4>1. CASE delivered
        <5>1. Len(topic') = Len(topic) + 1 /\ errors' >= errors
          BY <2>1, <4>1 DEF IInv, TypeOK
        <5>2. QED
          BY <3>2, <5>1
      <4>2. CASE ~delivered
        <5>1. topic' = topic /\ errors' = errors + 1
          BY <2>1, <4>2
        <5>2. QED
          BY <3>2, <5>1
      <4>3. QED
        BY <4>1, <4>2
    <3>4. QED
      BY <2>2, <3>1, <3>2, <3>3 DEF InvCount
  <2>7. InvPrompt'
    BY <2>2 DEF IInv, InvPrompt, envVars
  <2>8. QED
    BY <2>3, <2>4, <2>5, <2>6, <2>7 DEF IInv
<1>4. CASE DrainReturn \/ RunMeasure \/ RunSet
  <2>1. TypeOK'
    BY <1>4 DEF IInv, TypeOK, DrainReturn, RunMeasure, RunSet, enqVars, envVars, depth, RunPCs
  <2>2. InvMutex' /\ InvAccepted' /\ InvControl'
    BY <1>4 DEF IInv, InvMutex, InvAccepted, InvControl, DrainReturn, RunMeasure, RunSet, enqVars, envVars
  <2>3. InvTopic' /\ InvCount'
    BY <1>4 DEF IInv, InvTopic, InvCount, InvControl, InHand, DrainReturn, RunMeasure, RunSet
  <2>4. InvStop'
    BY <1>4 DEF IInv, InvControl, InvStop, depth, DrainReturn, RunMeasure, RunSet, envVars
  <2>5. InvPrompt'
    BY <1>4 DEF IInv, InvControl, InvPrompt, DrainReturn, RunMeasure, RunSet, envVars
  <2>6. QED
    BY <2>1, <2>2, <2>3, <2>4, <2>5 DEF IInv
<1>5. QED
  BY <1>1, <1>2, <1>3, <1>4 DEF Run

(* Every step keeps the invariant.                                         *)
LEMMA StepInv == IInv /\ [Next]_vars => IInv'
<1> SUFFICES ASSUME IInv, [Next]_vars
             PROVE  IInv'
  OBVIOUS
<1>1. CASE \E rec \in Records : CancelRequest(rec) \/ Enqueue(rec)
  BY <1>1, EnqueueKeeps
<1>2. CASE Run
  BY <1>2, RunKeeps
<1>3. CASE StopSinks \/ DrainTimeout \/ UNCHANGED vars
  <2>1. UNCHANGED <<accepted, gauge, enqVars, runVars>> /\ sinkDone' \in BOOLEAN
        /\ drainExpired' \in BOOLEAN /\ (drainExpired => drainExpired') /\ (sinkDone => sinkDone')
    BY <1>3 DEF IInv, TypeOK, StopSinks, DrainTimeout, vars, enqVars, runVars
  <2>2. TypeOK'
    BY <2>1 DEF IInv, TypeOK, enqVars, runVars, depth
  <2>3. InvMutex' /\ InvAccepted' /\ InvControl' /\ InvTopic' /\ InvCount' /\ InvStop'
    BY <2>1 DEF IInv, InvMutex, InvAccepted, InvControl, InvTopic, InvCount, InvStop, InHand,
                depth, enqVars, runVars
  <2>4. InvPrompt'
    BY <2>1 DEF IInv, InvPrompt, runVars
  <2>5. QED
    BY <2>2, <2>3, <2>4 DEF IInv
<1>4. QED
  BY <1>1, <1>2, <1>3 DEF Next
-----------------------------------------------------------------------------
(* Every state of the sink satisfies the invariant.                        *)
THEOREM KafkaInvariant == Spec => []IInv
  BY InitInv, StepInv, PTL DEF Spec

(* Type correctness, and the bound on the queue, for every queue size.     *)
THEOREM KafkaTypeOK == Spec => []TypeOK
<1>1. IInv => TypeOK
  BY DEF IInv
<1>2. QED
  BY <1>1, KafkaInvariant, PTL

(* A stopped sink accounts for each record it took over: in the topic,     *)
(* counted as an error, or left behind by drainTimeout and in the gauge.   *)
THEOREM KafkaDrainComplete == Spec => []DrainComplete
<1>1. IInv => DrainComplete
  <2> SUFFICES ASSUME IInv, run = "stopped"
               PROVE  /\ Len(accepted) <= Len(topic) + errors + gauge
                      /\ ~drainExpired => depth = 0
    BY DEF DrainComplete
  <2>1. (depth = 0 \/ drainExpired) /\ gauge = depth
    BY DEF IInv, InvStop
  <2>2. taken <= Len(topic) + errors
    BY DEF IInv, InvCount, InHand
  <2>3. taken \in Nat /\ errors \in Nat /\ Len(topic) \in Nat /\ Len(accepted) \in Nat
    BY DEF IInv, TypeOK
  <2>4. QED
    BY <2>1, <2>2, <2>3 DEF depth
<1>2. QED
  BY <1>1, KafkaInvariant, PTL

(* For every queue size and number of records: a cancelled sink makes at   *)
(* most one more publish before it closes, however full requests keep it.  *)
THEOREM KafkaStopIsPrompt == Spec => []StopIsPrompt
<1>1. IInv => StopIsPrompt
  BY DEF IInv, InvPrompt, StopIsPrompt
<1>2. QED
  BY <1>1, KafkaInvariant, PTL

(* The queue depth gauge of a stopped sink is right.                       *)
THEOREM KafkaGaugeSettled == Spec => []GaugeSettled
<1>1. IInv => GaugeSettled
  BY DEF IInv, InvStop, GaugeSettled
<1>2. QED
  BY <1>1, KafkaInvariant, PTL
-----------------------------------------------------------------------------
(* Each step of the sink is a step of DecisionSink or leaves it alone.     *)
LEMMA StepRefines == IInv /\ [Next]_vars => [Abstract!Next]_(Abstract!vars)
<1> SUFFICES ASSUME IInv, [Next]_vars
             PROVE  Abstract!Next \/ UNCHANGED <<accepted, topic, closed>>
  BY DEF Abstract!vars
<1>1. ASSUME NEW rec \in Records, Send(rec)
      PROVE  Abstract!Next
  <2>1. \A n \in DOMAIN accepted : accepted[n] # rec
    BY <1>1 DEF IInv, InvAccepted, Send
  <2>2. Abstract!Accept(rec)
    BY <1>1, <2>1 DEF Abstract!Accept, Send, runVars
  <2>3. QED
    BY <2>2 DEF Abstract!Next
<1>2. CASE Publish
  <2>1. UNCHANGED <<accepted, closed>> /\ run = "publish"
    BY <1>2 DEF Publish
  <2>2. CASE topic' = topic
    BY <2>1, <2>2
  <2>3. CASE topic' = Append(topic, taken)
    <3>1. taken \in DOMAIN accepted
      BY <2>1 DEF IInv, TypeOK, InvTopic, InHand, depth
    <3>2. taken > Abstract!Delivered
      <4>1. CASE topic = <<>>
        BY <4>1, <3>1 DEF Abstract!Delivered, IInv, TypeOK
      <4>2. CASE topic # <<>>
        <5>1. Len(topic) \in DOMAIN topic /\ topic[Len(topic)] \in Nat
          BY <4>2 DEF IInv, TypeOK
        <5>2. topic[Len(topic)] < taken
          BY <2>1, <5>1 DEF IInv, InvTopic, InHand
        <5>3. QED
          BY <4>2, <5>1, <5>2 DEF Abstract!Delivered, IInv, TypeOK
      <4>3. QED
        BY <4>1, <4>2
    <3>3. Abstract!Deliver(taken)
      BY <2>1, <2>3, <3>2 DEF Abstract!Deliver
    <3>4. QED
      BY <3>1, <3>3 DEF Abstract!Next
  <2>4. QED
    BY <1>2, <2>2, <2>3 DEF Publish
<1>3. CASE CloseSink
  <2>1. Abstract!Close
    BY <1>3 DEF IInv, InvControl, CloseSink, Abstract!Close
  <2>2. QED
    BY <2>1 DEF Abstract!Next
<1>4. ASSUME NEW rec \in Records,
             CancelRequest(rec) \/ Enter(rec) \/ Ignore(rec) \/ Drop(rec) \/ EnqMeasure(rec) \/ EnqSet(rec)
      PROVE  UNCHANGED <<accepted, topic, closed>>
  BY <1>4 DEF CancelRequest, Enter, Ignore, Drop, EnqMeasure, EnqSet, runVars
<1>5. CASE Receive \/ Cancelled \/ Check \/ DrainReceive \/ DrainReturn \/ RunMeasure \/ RunSet
  BY <1>5 DEF Receive, Cancelled, Check, DrainReceive, DrainReturn, RunMeasure, RunSet
<1>6. CASE StopSinks \/ DrainTimeout \/ UNCHANGED vars
  BY <1>6 DEF StopSinks, DrainTimeout, vars, runVars
<1>7. QED
  BY <1>1, <1>2, <1>3, <1>4, <1>5, <1>6 DEF Next, Enqueue, Run

(* For every queue size: the Kafka sink is a lossy DecisionSink.  It takes *)
(* nothing over once closed, and publishes at most once and in order.      *)
THEOREM KafkaImplements == Spec => ImplementsDecisionSink
<1>1. Init => Abstract!Init
  BY DEF Init, Abstract!Init
<1>2. QED
  BY <1>1, StepRefines, KafkaInvariant, PTL DEF Spec, ImplementsDecisionSink, Abstract!Spec
=============================================================================
