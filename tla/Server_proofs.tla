--------------------------- MODULE Server_proofs ---------------------------
(***************************************************************************)
(* Proofs about Server, for any sets of requests: shutdown goes in its     *)
(* order, an answered decision is recorded, no event goes out that the     *)
(* audit writer has not had, and the process exits with nothing queued.    *)
(*                                                                         *)
(* The inductive invariant has three parts.  Order says how the places of  *)
(* the shutdown goroutine and of main bound what the servers and the sinks *)
(* are doing; Fates says what a handler's place tells of what the sinks    *)
(* did, and that only a forced close lets a handler meet a closed sink;    *)
(* Drained, that the queue of a sink whose Run has returned stays empty.   *)
(***************************************************************************)
EXTENDS Server, TLAPS

HttpOver == shut \in {"grpc", "stopping", "done"}

Order ==
  /\ http = "stopped" <=> HttpOver
  /\ forced => HttpOver
  /\ HttpOver => forced \/ Quiet(HttpReqs)
  /\ grpc \in {"draining", "stopped"} => HttpOver
  /\ grpc = "stopped" => Quiet(GrpcReqs)
  /\ shut = "done" => grpc = "stopped"
  /\ sinkDone => shut = "done"
  /\ \A s \in Sinks : closed[s] => sinkDone
  /\ main = "exit" => \A s \in attached : returned[s]

(* The places before and after a handler's call of Enqueue.                *)
Before(s) == IF s = "audit" THEN {"new", "evaluate", "audit"}
             ELSE {"new", "evaluate", "audit", "kafka"}
After(s) == IF s = "audit" THEN {"kafka", "reply", "answered", "unheard"}
            ELSE {"reply", "answered", "unheard"}

Fate(s, req) ==
  /\ pc[req] \in Before(s) \cup {"rejected", "failed"} => fate[s][req] = "none"
  /\ s \in attached /\ pc[req] \in After(s) => fate[s][req] # "none"
  /\ fate[s][req] = "ignored" => ctxDone[req]
  /\ fate[s][req] = "late" => forced /\ req \in HttpReqs
  /\ pc[req] = "answered" => fate[s][req] # "late"
  /\ pc[req] = s => s \in attached

Fates == \A s \in Sinks, req \in Requests : Fate(s, req)

(* What the audit writer ignored, Kafka ignores.                           *)
NoLoneEvent ==
  \A req \in Requests :
    fate["audit"][req] = "ignored" => fate["kafka"][req] \in {"none", "ignored"}

(* A Run that returned left nothing in the queue, and closed it for good.  *)
Drained ==
  \A s \in Sinks : returned[s] => closed[s] /\ \A req \in Requests : fate[s][req] # "queued"

Inv == TypeOK /\ Order /\ Fates /\ NoLoneEvent /\ Drained
-----------------------------------------------------------------------------
LEMMA NextSinkPlaces ==
  ASSUME NEW place \in {"evaluate", "audit", "kafka"}
  PROVE  /\ NextSink(place) \in {"audit", "kafka", "reply"}
         /\ place # "evaluate" => NextSink(place) # "audit"
         /\ place = "kafka" => NextSink(place) = "reply"
         /\ NextSink(place) \in Sinks => NextSink(place) \in attached
         /\ NextSink(place) \in {"kafka", "reply"} =>
              place # "evaluate" \/ "audit" \notin attached
         /\ NextSink(place) = "reply" => place = "kafka" \/ "kafka" \notin attached
BY DEF NextSink, Sinks

LEMMA InitInv == Init => Inv
<1> SUFFICES ASSUME Init PROVE Inv
  OBVIOUS
<1>1. TypeOK
  <2>1. \A s \in Sinks \ attached, req \in Requests : fate[s][req] = "none"
    BY DEF Init
  <2>2. pc \in [Requests -> PCs] /\ ctxDone \in [Requests -> BOOLEAN]
    BY Zenon DEF Init, PCs
  <2>3. fate \in [Sinks -> [Requests -> FateValues]]
    BY DEF Init, FateValues
  <2> QED
    BY <2>1, <2>2, <2>3 DEF Init, TypeOK
<1>2. Order
  BY DEF Init, Order, HttpOver, Sinks
<1>3. Fates
  BY DEF Init, Fates, Fate, Before, After, Sinks
<1>4. NoLoneEvent /\ Drained
  BY DEF Init, NoLoneEvent, Drained, Sinks
<1> QED
  BY <1>1, <1>2, <1>3, <1>4 DEF Inv

(* What one step of a handler does to its own place and to its record.     *)
LEMMA EnqueueStep ==
  ASSUME Inv, NEW s \in Sinks, NEW req \in Requests, Enqueue(s, req)
  PROVE  \E f \in {"ignored", "late", "queued", "dropped"} :
           /\ f = "ignored" <=> ctxDone[req]
           /\ f = "late" <=> closed[s] /\ ~ctxDone[req]
           /\ f = "late" => forced /\ req \in HttpReqs
           /\ fate' = [fate EXCEPT ![s][req] = f]
           /\ fate'[s][req] = f
           /\ \A t \in Sinks, r \in Requests : <<t, r>> # <<s, req>> => fate'[t][r] = fate[t][r]
<1>1. PICK f \in {"ignored", "late", "queued", "dropped"} :
           /\ f = "ignored" <=> ctxDone[req]
           /\ f = "late" <=> closed[s] /\ ~ctxDone[req]
           /\ fate' = [fate EXCEPT ![s][req] = f]
  BY DEF Enqueue
<1>2. ASSUME closed[s] PROVE forced /\ req \in HttpReqs
  <2>1. Active(req)
    BY DEF Enqueue, Active, Sinks
  <2>2. HttpOver /\ Quiet(GrpcReqs) /\ (forced \/ Quiet(HttpReqs))
    BY <1>2 DEF Inv, Order
  <2> QED
    BY <2>1, <2>2 DEF Quiet, Requests
<1>3. fate'[s][req] = f
  BY <1>1 DEF Inv, TypeOK
<1>4. \A t \in Sinks, r \in Requests : <<t, r>> # <<s, req>> => fate'[t][r] = fate[t][r]
  BY <1>1 DEF Inv, TypeOK
<1> QED
  BY <1>1, <1>2, <1>3, <1>4

LEMMA GotoStep ==
  ASSUME Inv, NEW req \in Requests, NEW place \in PCs, Goto(req, place)
  PROVE  /\ pc' \in [Requests -> PCs]
         /\ pc'[req] = place
         /\ \A r \in Requests \ {req} : pc'[r] = pc[r]
BY DEF Inv, TypeOK, Goto

(* The places a handler's step leads to.                                   *)
LEMMA HandlePlaces ==
  ASSUME Inv, NEW req \in Requests
  PROVE  /\ Arrive(req) => \E place \in {"evaluate", "rejected"} : Goto(req, place)
         /\ Evaluate(req) => \/ Goto(req, "failed")
                             \/ Goto(req, NextSink("evaluate"))
         /\ Reply(req) => \/ Goto(req, "unheard")
                          \/ /\ Goto(req, "answered")
                             /\ ~(forced /\ req \in HttpReqs)
BY DEF Arrive, Evaluate, Reply
-----------------------------------------------------------------------------
(* The steps of the handlers.                                              *)
LEMMA AcceptInv ==
  ASSUME Inv, NEW req \in Requests, Accept(req)
  PROVE  Inv'
<1>1. PICK place \in {"evaluate", "rejected"} : Goto(req, place)
  BY HandlePlaces DEF Accept
<1>2. /\ pc' \in [Requests -> PCs]
      /\ pc'[req] = place
      /\ \A r \in Requests \ {req} : pc'[r] = pc[r]
  BY <1>1, GotoStep DEF PCs
<1>3. /\ pc[req] = "new"
      /\ (IF req \in HttpReqs THEN http ELSE grpc) # "stopped"
      /\ UNCHANGED <<ctxDone, fate, attached, serverVars, sinkVars, mainVars>>
  BY DEF Accept, Arrive
<1> USE DEF serverVars, sinkVars, mainVars
<1>4. TypeOK'
  BY <1>2, <1>3 DEF Inv, TypeOK
<1>5. Order'
  <2>1. HttpReqs \cap GrpcReqs = {} /\ Requests = HttpReqs \cup GrpcReqs
    BY ServerAssumption DEF Requests
  <2>2. Quiet(HttpReqs) /\ http = "stopped" => Quiet(HttpReqs)'
    BY <1>2, <1>3, <2>1 DEF Quiet, Active
  <2>3. Quiet(GrpcReqs) /\ grpc = "stopped" => Quiet(GrpcReqs)'
    BY <1>2, <1>3, <2>1 DEF Quiet, Active
  <2> QED
    BY <1>3, <2>2, <2>3 DEF Inv, Order, HttpOver
<1>6. Fates'
  <2> SUFFICES ASSUME NEW s \in Sinks, NEW r \in Requests PROVE Fate(s, r)'
    BY DEF Fates
  <2>1. Fate(s, r)
    BY DEF Inv, Fates
  <2>2. CASE r = req
    BY <1>2, <1>3, <2>1, <2>2 DEF Fate, Before, After, Sinks
  <2>3. CASE r # req
    BY <1>2, <1>3, <2>1, <2>3 DEF Fate
  <2> QED
    BY <2>2, <2>3
<1>7. NoLoneEvent' /\ Drained'
  BY <1>3 DEF Inv, NoLoneEvent, Drained
<1> QED
  BY <1>4, <1>5, <1>6, <1>7 DEF Inv

(* A step of an active handler leaves the servers quiet that were quiet,   *)
(* so that Order holds after it.                                           *)
LEMMA HandlerOrder ==
  ASSUME Inv, NEW req \in Requests, NEW place \in PCs, Active(req), Goto(req, place),
         UNCHANGED <<attached, serverVars, sinkVars, mainVars>>
  PROVE  Order'
<1> USE DEF serverVars, sinkVars, mainVars
<1>1. /\ pc'[req] = place
      /\ \A r \in Requests \ {req} : pc'[r] = pc[r]
  BY GotoStep
<1>2. /\ Quiet(HttpReqs) => Quiet(HttpReqs)'
      /\ Quiet(GrpcReqs) => Quiet(GrpcReqs)'
  BY <1>1 DEF Quiet, Active, Requests
<1> QED
  BY <1>2 DEF Inv, Order, HttpOver

LEMMA EvaluateInv ==
  ASSUME Inv, NEW req \in Requests, Evaluate(req),
         UNCHANGED <<attached, serverVars, sinkVars, mainVars>>
  PROVE  Inv'
<1> USE DEF serverVars, sinkVars, mainVars
<1>1. PICK place \in {"failed", NextSink("evaluate")} : Goto(req, place)
  BY HandlePlaces
<1>2. place \in PCs
  BY NextSinkPlaces DEF PCs
<1>3. /\ pc' \in [Requests -> PCs]
      /\ pc'[req] = place
      /\ \A r \in Requests \ {req} : pc'[r] = pc[r]
  BY <1>1, <1>2, GotoStep
<1>4. pc[req] = "evaluate" /\ UNCHANGED <<ctxDone, fate>>
  BY DEF Evaluate
<1>5. TypeOK'
  BY <1>3, <1>4 DEF Inv, TypeOK
<1>6. Order'
  BY <1>1, <1>2, <1>4, HandlerOrder DEF Active
<1>7. Fates'
  <2> SUFFICES ASSUME NEW s \in Sinks, NEW r \in Requests PROVE Fate(s, r)'
    BY DEF Fates
  <2>1. Fate(s, r)
    BY DEF Inv, Fates
  <2>2. CASE r = req
    <3>1. fate[s][req] = "none"
      BY <1>4, <2>1, <2>2 DEF Fate, Before, Sinks
    <3>2. /\ place \in {"failed", "audit", "kafka", "reply"}
          /\ place \in Sinks => place \in attached
          /\ s \in attached => place \notin After(s)
      BY NextSinkPlaces DEF After, Sinks
    <3> QED
      BY <1>3, <1>4, <2>2, <3>1, <3>2 DEF Fate, Sinks
  <2>3. CASE r # req
    BY <1>3, <1>4, <2>1, <2>3 DEF Fate
  <2> QED
    BY <2>2, <2>3
<1>8. NoLoneEvent' /\ Drained'
  BY <1>4 DEF Inv, NoLoneEvent, Drained
<1> QED
  BY <1>5, <1>6, <1>7, <1>8 DEF Inv

LEMMA EnqueueInv ==
  ASSUME Inv, NEW s \in Sinks, NEW req \in Requests, Enqueue(s, req),
         UNCHANGED <<attached, serverVars, sinkVars, mainVars>>
  PROVE  Inv'
<1> USE DEF serverVars, sinkVars, mainVars
<1> DEFINE place == NextSink(s)
<1>1. PICK f \in {"ignored", "late", "queued", "dropped"} :
           /\ f = "ignored" <=> ctxDone[req]
           /\ f = "late" <=> closed[s] /\ ~ctxDone[req]
           /\ f = "late" => forced /\ req \in HttpReqs
           /\ fate' = [fate EXCEPT ![s][req] = f]
           /\ fate'[s][req] = f
           /\ \A t \in Sinks, r \in Requests : <<t, r>> # <<s, req>> => fate'[t][r] = fate[t][r]
  BY EnqueueStep
<1>2. /\ place \in {"kafka", "reply"}
      /\ place = "kafka" => s = "audit" /\ "kafka" \in attached
      /\ place = "reply" => s = "kafka" \/ "kafka" \notin attached
  BY NextSinkPlaces DEF Sinks
<1>3. place \in PCs /\ Goto(req, place) /\ pc[req] = s /\ ctxDone' = ctxDone
  BY <1>2 DEF Enqueue, PCs
<1>4. /\ pc' \in [Requests -> PCs]
      /\ pc'[req] = place
      /\ \A r \in Requests \ {req} : pc'[r] = pc[r]
  BY <1>3, GotoStep
<1>5. s \in attached /\ fate[s][req] = "none"
  <2>1. Fate(s, req)
    BY DEF Inv, Fates
  <2> QED
    BY <1>3, <2>1 DEF Fate, Before, Sinks
<1>6. TypeOK'
  <2>1. fate' \in [Sinks -> [Requests -> FateValues]]
    BY <1>1 DEF Inv, TypeOK, FateValues
  <2>2. \A t \in Sinks \ attached, r \in Requests : fate'[t][r] = "none"
    BY <1>1, <1>5 DEF Inv, TypeOK
  <2> QED
    BY <1>3, <1>4, <2>1, <2>2 DEF Inv, TypeOK
<1>7. Order'
  BY <1>3, HandlerOrder DEF Active, Sinks
<1>8. Fates'
  <2> SUFFICES ASSUME NEW t \in Sinks, NEW r \in Requests PROVE Fate(t, r)'
    BY DEF Fates
  <2>1. Fate(t, r)
    BY DEF Inv, Fates
  <2>2. CASE r # req
    <3>1. fate'[t][r] = fate[t][r] /\ pc'[r] = pc[r]
      BY <1>1, <1>4, <2>2
    <3> QED
      BY <1>3, <2>1, <3>1 DEF Fate
  <2>3. CASE r = req /\ t = s
    <3>1. pc'[r] = place /\ fate'[t][r] = f
      BY <1>1, <1>4, <2>3
    <3>2. place \notin Before(s) \cup {"rejected", "failed"} /\ place # s /\ place # "answered"
      BY <1>2 DEF Before, Sinks
    <3> QED
      BY <1>1, <1>3, <2>3, <3>1, <3>2 DEF Fate
  <2>4. CASE r = req /\ t # s
    <3>1. pc'[r] = place /\ fate'[t][r] = fate[t][r] /\ pc[r] = s
      BY <1>1, <1>3, <1>4, <2>4
    <3>2. /\ place \in Before(t) => s \in Before(t)
          /\ place \notin {"rejected", "failed"}
          /\ t \in attached /\ place \in After(t) => s \in After(t)
          /\ place # "answered"
          /\ place = t => t \in attached
      BY <1>2, <2>4 DEF Before, After, Sinks
    <3> QED
      BY <1>3, <2>1, <3>1, <3>2 DEF Fate
  <2> QED
    BY <2>2, <2>3, <2>4
<1>9. NoLoneEvent'
  <2> SUFFICES ASSUME NEW r \in Requests, fate'["audit"][r] = "ignored"
               PROVE  fate'["kafka"][r] \in {"none", "ignored"}
    BY DEF NoLoneEvent
  <2>1. CASE r # req
    BY <1>1, <2>1 DEF Inv, NoLoneEvent, Sinks
  <2>2. CASE r = req /\ s = "audit"
    <3>1. fate'["kafka"][r] = fate["kafka"][r]
      BY <1>1, <2>2 DEF Sinks
    <3>2. Fate("kafka", req)
      BY DEF Inv, Fates, Sinks
    <3> QED
      BY <1>3, <2>2, <3>1, <3>2 DEF Fate, Before
  <2>3. CASE r = req /\ s = "kafka"
    <3>1. fate["audit"][req] = "ignored"
      BY <1>1, <2>3 DEF Sinks
    <3>2. Fate("audit", req)
      BY DEF Inv, Fates, Sinks
    <3>3. ctxDone[req]
      BY <3>1, <3>2 DEF Fate
    <3> QED
      BY <1>1, <2>3, <3>3
  <2> QED
    BY <2>1, <2>2, <2>3 DEF Sinks
<1>10. Drained'
  <2> SUFFICES ASSUME NEW t \in Sinks, returned[t]
               PROVE  closed[t] /\ \A r \in Requests : fate'[t][r] # "queued"
    BY DEF Drained
  <2>1. closed[t] /\ \A r \in Requests : fate[t][r] # "queued"
    BY DEF Inv, Drained
  <2>2. t = s => f # "queued"
    BY <1>1, <2>1
  <2> QED
    BY <1>1, <2>1, <2>2
<1> QED
  BY <1>6, <1>7, <1>8, <1>9, <1>10 DEF Inv

LEMMA ReplyInv ==
  ASSUME Inv, NEW req \in Requests, Reply(req),
         UNCHANGED <<attached, serverVars, sinkVars, mainVars>>
  PROVE  Inv'
<1> USE DEF serverVars, sinkVars, mainVars
<1>1. PICK place \in {"unheard", "answered"} :
         /\ Goto(req, place)
         /\ place = "answered" => ~(forced /\ req \in HttpReqs)
  BY HandlePlaces
<1>2. /\ pc' \in [Requests -> PCs]
      /\ pc'[req] = place
      /\ \A r \in Requests \ {req} : pc'[r] = pc[r]
  BY <1>1, GotoStep DEF PCs
<1>3. pc[req] = "reply" /\ UNCHANGED <<ctxDone, fate>>
  BY DEF Reply
<1>4. TypeOK'
  BY <1>2, <1>3 DEF Inv, TypeOK
<1>5. Order'
  BY <1>1, <1>3, HandlerOrder DEF Active, PCs
<1>6. Fates'
  <2> SUFFICES ASSUME NEW s \in Sinks, NEW r \in Requests PROVE Fate(s, r)'
    BY DEF Fates
  <2>1. Fate(s, r)
    BY DEF Inv, Fates
  <2>2. CASE r = req
    BY <1>1, <1>2, <1>3, <2>1, <2>2 DEF Fate, Before, After, Sinks
  <2>3. CASE r # req
    BY <1>2, <1>3, <2>1, <2>3 DEF Fate
  <2> QED
    BY <2>2, <2>3
<1>7. NoLoneEvent' /\ Drained'
  BY <1>3 DEF Inv, NoLoneEvent, Drained
<1> QED
  BY <1>4, <1>5, <1>6, <1>7 DEF Inv

(* Contexts end only for active handlers, which have answered nobody.      *)
LEMMA EndContextsInv ==
  ASSUME Inv, ctxDone' \in [Requests -> BOOLEAN],
         \A req \in Requests : ctxDone[req] => ctxDone'[req],
         UNCHANGED <<pc, fate, attached, sinkVars, mainVars, forced>>
  PROVE  Fates' /\ NoLoneEvent' /\ Drained'
<1> USE DEF sinkVars, mainVars
<1>1. Fates'
  <2> SUFFICES ASSUME NEW s \in Sinks, NEW r \in Requests PROVE Fate(s, r)'
    BY DEF Fates
  <2>1. Fate(s, r)
    BY DEF Inv, Fates
  <2> QED
    BY <2>1 DEF Fate
<1> QED
  BY <1>1 DEF Inv, NoLoneEvent, Drained

LEMMA EndContextInv ==
  ASSUME Inv, NEW req \in Requests, EndContext(req)
  PROVE  Inv'
<1> USE DEF EndContext, serverVars, sinkVars, mainVars
<1>1. ctxDone' \in [Requests -> BOOLEAN] /\ \A r \in Requests : ctxDone[r] => ctxDone'[r]
  BY DEF Inv, TypeOK
<1>2. TypeOK'
  BY <1>1 DEF Inv, TypeOK
<1>3. Order'
  BY DEF Inv, Order, HttpOver, Quiet, Active
<1> QED
  BY <1>1, <1>2, <1>3, EndContextsInv DEF Inv
-----------------------------------------------------------------------------
(* The steps of the servers, of main and of the sinks.  They leave the     *)
(* handlers alone, except that Stop ends contexts.                         *)
LEMMA ShutdownInv ==
  ASSUME Inv, Shutdown
  PROVE  Inv'
<1> USE DEF Shutdown, handlerVars, sinkVars, mainVars
<1>1. (Quiet(HttpReqs)' <=> Quiet(HttpReqs)) /\ (Quiet(GrpcReqs)' <=> Quiet(GrpcReqs))
  BY DEF Quiet, Active
<1>2. TypeOK' /\ Order' /\ (forced' = forced \/ (~forced /\ shut = "http"))
  <2>1. CASE ShutdownHttp
    BY <1>1, <2>1 DEF ShutdownHttp, Inv, TypeOK, Order, HttpOver
  <2>2. CASE HttpStopped
    <3>1. TypeOK'
      BY <2>2 DEF HttpStopped, Inv, TypeOK
    <3>2. Order' /\ ~forced /\ shut = "http"
      BY <1>1, <2>2 DEF HttpStopped, Inv, TypeOK, Order, HttpOver
    <3> QED
      BY <3>1, <3>2
  <2>3. CASE GrpcStopped
    BY <1>1, <2>3 DEF GrpcStopped, Inv, TypeOK, Order, HttpOver
  <2>4. CASE TimeUp
    BY <1>1, <2>4 DEF TimeUp, Inv, TypeOK, Order, HttpOver
  <2> QED
    BY <2>1, <2>2, <2>3, <2>4
<1>3. Fates'
  BY <1>2 DEF Inv, Fates, Fate
<1> QED
  BY <1>2, <1>3 DEF Inv, NoLoneEvent, Drained

LEMMA ShutdownGrpcInv ==
  ASSUME Inv, ShutdownGrpc
  PROVE  Inv'
<1> USE DEF ShutdownGrpc, sinkVars, mainVars
<1>1. (Quiet(HttpReqs)' <=> Quiet(HttpReqs)) /\ (Quiet(GrpcReqs)' <=> Quiet(GrpcReqs))
  BY DEF Quiet, Active
<1>2. ctxDone' \in [Requests -> BOOLEAN] /\ \A r \in Requests : ctxDone[r] => ctxDone'[r]
  BY DEF AwaitGrpc, Inv, TypeOK
<1>3. TypeOK' /\ Order'
  BY <1>1, <1>2 DEF AwaitGrpc, Inv, TypeOK, Order, HttpOver
<1>4. forced' = forced
  BY DEF AwaitGrpc
<1> QED
  BY <1>2, <1>3, <1>4, EndContextsInv DEF Inv

LEMMA OtherInv ==
  ASSUME Inv, Outside \/ Main
  PROVE  Inv'
<1> USE DEF handlerVars, sinkVars, mainVars, serverVars
<1>1. UNCHANGED <<handlerVars, attached, forced>>
  BY DEF Outside, Interrupt, ServerFails, Main
<1>2. (Quiet(HttpReqs)' <=> Quiet(HttpReqs)) /\ (Quiet(GrpcReqs)' <=> Quiet(GrpcReqs))
  BY <1>1 DEF Quiet, Active
<1>3. TypeOK' /\ Order'
  <2>1. CASE Outside
    <3>1. TypeOK'
      <4>1. CASE Interrupt
        BY <2>1, <4>1 DEF Outside, Interrupt, Inv, TypeOK
      <4>2. CASE ServerFails
        BY <2>1, <4>2 DEF Outside, ServerFails, Inv, TypeOK
      <4> QED
        BY <2>1, <4>1, <4>2 DEF Outside
    <3>2. Order'
      BY <1>2, <2>1 DEF Outside, Interrupt, ServerFails, Inv, Order, HttpOver
    <3> QED
      BY <3>1, <3>2
  <2>2. CASE Main
    <3>1. TypeOK'
      <4>1. CASE MainSelect
        <5>1. ctx' = TRUE /\ main' = "wait" /\ sinkDone' = sinkDone
          BY <4>1, Zenon DEF MainSelect
        <5> QED
          BY <2>2, <5>1 DEF Main, Inv, TypeOK
      <4>2. CASE StopSinks \/ Exit
        <5>1. /\ ctx' = ctx
              /\ main' \in {"sinks", "exit"}
              /\ sinkDone' \in BOOLEAN
          BY <4>2 DEF StopSinks, Exit, Inv, TypeOK
        <5> QED
          BY <2>2, <5>1 DEF Main, Inv, TypeOK
      <4> QED
        BY <2>2, <4>1, <4>2 DEF Main
    <3>2. Order'
      BY <1>2, <2>2 DEF Main, MainSelect, StopSinks, Exit, Inv, Order, HttpOver
    <3> QED
      BY <3>1, <3>2
  <2> QED
    BY <2>1, <2>2
<1>4. Fates'
  BY <1>1 DEF Inv, Fates, Fate
<1>5. NoLoneEvent'
  BY <1>1 DEF Inv, NoLoneEvent
<1>6. UNCHANGED <<closed, returned>>
  BY DEF Outside, Main
<1>7. Drained'
  BY <1>1, <1>6 DEF Inv, Drained
<1> QED
  BY <1>3, <1>4, <1>5, <1>7 DEF Inv

(* What a step of a sink does to the decisions it has.                     *)
LEMMA SinkFates ==
  ASSUME Inv, NEW s \in Sinks, Sink(s)
  PROVE  /\ fate' \in [Sinks -> [Requests -> FateValues]]
         /\ \A t \in Sinks, req \in Requests :
              \/ fate'[t][req] = fate[t][req]
              \/ fate[t][req] = "queued" /\ fate'[t][req] \in {"written", "lost"}
<1>1. CASE fate' = fate
  BY <1>1 DEF Inv, TypeOK
<1>2. ASSUME NEW req \in Requests, Write(s, req) \/ GiveUp(s, req)
      PROVE  \E f \in {"written", "lost"} :
               fate[s][req] = "queued" /\ fate' = [fate EXCEPT ![s][req] = f]
  BY <1>2 DEF Write, GiveUp
<1>3. ASSUME NEW req \in Requests, NEW f \in {"written", "lost"},
             fate[s][req] = "queued", fate' = [fate EXCEPT ![s][req] = f]
      PROVE  /\ fate' \in [Sinks -> [Requests -> FateValues]]
             /\ \A t \in Sinks, r \in Requests :
                  \/ fate'[t][r] = fate[t][r]
                  \/ fate[t][r] = "queued" /\ fate'[t][r] \in {"written", "lost"}
  BY <1>3 DEF Inv, TypeOK, FateValues
<1> QED
  BY <1>1, <1>2, <1>3 DEF Sink, CloseSink, RunReturns

LEMMA SinkInv ==
  ASSUME Inv, NEW s \in Sinks, Sink(s)
  PROVE  Inv'
<1> USE DEF sinkVars, mainVars, serverVars
<1>1. /\ fate' \in [Sinks -> [Requests -> FateValues]]
      /\ \A t \in Sinks, req \in Requests :
           \/ fate'[t][req] = fate[t][req]
           \/ fate[t][req] = "queued" /\ fate'[t][req] \in {"written", "lost"}
  BY SinkFates
<1>2. UNCHANGED <<attached, pc, ctxDone, serverVars, mainVars>>
  BY DEF Sink
<1>3. (Quiet(HttpReqs)' <=> Quiet(HttpReqs)) /\ (Quiet(GrpcReqs)' <=> Quiet(GrpcReqs))
  BY <1>2 DEF Quiet, Active
<1>4. /\ closed' \in [Sinks -> BOOLEAN]
      /\ returned' \in [Sinks -> BOOLEAN]
      /\ \A t \in Sinks : /\ closed'[t] => sinkDone
                          /\ closed[t] => closed'[t]
                          /\ returned[t] => returned'[t]
  BY DEF Sink, CloseSink, Write, GiveUp, RunReturns, Inv, TypeOK, Order
<1>5. TypeOK'
  <2>1. \A t \in Sinks \ attached, req \in Requests : fate'[t][req] = "none"
    BY <1>1 DEF Inv, TypeOK
  <2> QED
    BY <1>1, <1>2, <1>4, <2>1 DEF Inv, TypeOK
<1>6. Order'
  BY <1>2, <1>3, <1>4 DEF Inv, TypeOK, Order, HttpOver
<1>7. Fates'
  <2> SUFFICES ASSUME NEW t \in Sinks, NEW r \in Requests PROVE Fate(t, r)'
    BY DEF Fates
  <2>1. Fate(t, r)
    BY DEF Inv, Fates
  <2>2. CASE fate'[t][r] = fate[t][r]
    BY <1>2, <2>1, <2>2 DEF Fate
  <2>3. CASE fate[t][r] = "queued" /\ fate'[t][r] \in {"written", "lost"}
    BY <1>2, <2>1, <2>3 DEF Fate
  <2> QED
    BY <1>1, <2>2, <2>3
<1>8. NoLoneEvent'
  BY <1>1 DEF Inv, NoLoneEvent, Sinks
<1>9. Drained'
  <2> SUFFICES ASSUME NEW t \in Sinks, returned'[t]
               PROVE  closed'[t] /\ \A r \in Requests : fate'[t][r] # "queued"
    BY DEF Drained
  <2>1. CASE returned[t]
    BY <1>1, <1>4, <2>1 DEF Inv, Drained
  <2>2. CASE ~returned[t]
    <3>1. RunReturns(s)
      BY <2>2 DEF Sink, CloseSink, Write, GiveUp
    <3>2. t = s
      BY <2>2, <3>1 DEF RunReturns, Inv, TypeOK
    <3> QED
      BY <3>1, <3>2 DEF RunReturns
  <2> QED
    BY <2>1, <2>2
<1> QED
  BY <1>5, <1>6, <1>7, <1>8, <1>9 DEF Inv

LEMMA StutterInv ==
  ASSUME Inv, UNCHANGED vars
  PROVE  Inv'
BY DEF Inv, TypeOK, Order, HttpOver, Quiet, Active, Fates, Fate, NoLoneEvent, Drained,
       vars, handlerVars, sinkVars, mainVars, serverVars

LEMMA NextInv ==
  ASSUME Inv, [Next]_vars
  PROVE  Inv'
<1>1. ASSUME NEW req \in Requests, Handle(req) PROVE Inv'
  <2>1. UNCHANGED <<attached, serverVars, sinkVars, mainVars>>
    BY <1>1 DEF Handle
  <2> QED
    BY <1>1, <2>1, EvaluateInv, EnqueueInv, ReplyInv DEF Handle
<1> QED
  BY <1>1, AcceptInv, EndContextInv, ShutdownInv, ShutdownGrpcInv, OtherInv,
     SinkInv, StutterInv DEF Next

(* The strengthened invariant holds of every state the process reaches.    *)
THEOREM ServerInvariant == Spec => []Inv
<1>1. Init => Inv
  BY InitInv
<1>2. Inv /\ [Next]_vars => Inv'
  BY NextInv
<1> QED
  BY <1>1, <1>2, PTL DEF Spec
-----------------------------------------------------------------------------
(* Every variable keeps its type, and a sink that main could not create    *)
(* is never handed a decision.                                             *)
THEOREM ServerTypeOK == Spec => []TypeOK
<1>1. Inv => TypeOK
  BY DEF Inv
<1> QED
  BY <1>1, ServerInvariant, PTL

(* Sinks close only after both servers have stopped and only a forced      *)
(* close leaves handlers behind; resources go after the sinks (main.go,    *)
(* from <-shutdownDone to the end).                                        *)
THEOREM ServerStopOrder == Spec => []StopOrder
<1>1. Inv => StopOrder
  BY DEF Inv, Order, HttpOver, StopOrder
<1> QED
  BY <1>1, ServerInvariant, PTL

(* A client that was there to get its decision finds it with every         *)
(* attached sink, or counted as dropped there, whatever the shutdown did   *)
(* meanwhile.                                                              *)
THEOREM ServerAnsweredIsRecorded == Spec => []AnsweredIsRecorded
<1>1. Inv => AnsweredIsRecorded
  <2> SUFFICES ASSUME Inv, NEW req \in Requests, pc[req] = "answered", ~ctxDone[req],
                      NEW s \in attached
               PROVE  Recorded(s, req)
    BY DEF AnsweredIsRecorded
  <2>1. s \in Sinks
    BY DEF Inv, TypeOK
  <2>2. Fate(s, req)
    BY <2>1 DEF Inv, Fates
  <2>3. fate[s][req] \in {"none", "ignored", "late", "dropped", "queued", "written", "lost"}
    BY <2>1 DEF Inv, TypeOK, FateValues
  <2> QED
    BY <2>1, <2>2, <2>3 DEF Fate, After, Recorded, Sinks
<1> QED
  BY <1>1, ServerInvariant, PTL

(* When main returns, no sink holds a decision in its queue, and each that *)
(* a client was there to get has been written or its loss counted: main    *)
(* waits for the sinks, and a closed sink takes nothing from a handler     *)
(* that outlived the shutdown.                                             *)
THEOREM ServerExitLosesNothingUnseen == Spec => []ExitLosesNothingUnseen
<1>1. Inv /\ AnsweredIsRecorded => ExitLosesNothingUnseen
  <2> SUFFICES ASSUME Inv, AnsweredIsRecorded, main = "exit",
                      NEW req \in Requests, NEW s \in attached
               PROVE  /\ fate[s][req] # "queued"
                      /\ pc[req] = "answered" /\ ~ctxDone[req] =>
                           fate[s][req] \in {"written", "dropped", "lost"}
    BY DEF ExitLosesNothingUnseen
  <2>1. s \in Sinks /\ returned[s]
    BY DEF Inv, TypeOK, Order
  <2>2. fate[s][req] # "queued"
    BY <2>1 DEF Inv, Drained
  <2> QED
    BY <2>2 DEF AnsweredIsRecorded, Recorded
<1> QED
  BY <1>1, ServerInvariant, ServerAnsweredIsRecorded, PTL

(* MultiDecisionSink never gives Kafka a decision that the audit writer    *)
(* has not had, but for handlers that outlived a forced close.             *)
THEOREM ServerEventHasAudit == Spec => []EventHasAudit
<1>1. Inv => EventHasAudit
  <2> SUFFICES ASSUME Inv, NEW req \in Requests, attached = Sinks, Recorded("kafka", req)
               PROVE  Recorded("audit", req) \/ (fate["audit"][req] = "late" /\ forced)
    BY DEF EventHasAudit
  <2>1. Fate("audit", req) /\ Fate("kafka", req)
    BY DEF Inv, Fates, Sinks
  <2>2. fate["audit"][req] # "ignored"
    BY DEF Inv, NoLoneEvent, Recorded
  <2>3. /\ fate["audit"][req] \in
             {"none", "ignored", "late", "dropped", "queued", "written", "lost"}
        /\ pc[req] \in PCs
    BY DEF Inv, TypeOK, FateValues, Sinks
  <2> QED
    BY <2>1, <2>2, <2>3 DEF Fate, Before, After, Recorded, Sinks, PCs
<1> QED
  BY <1>1, ServerInvariant, PTL
=============================================================================
