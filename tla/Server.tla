------------------------------- MODULE Server -------------------------------
(***************************************************************************)
(* The process as main puts it together (cmd/server/main.go): HTTP and     *)
(* gRPC handlers (internal/api) that evaluate a request, hand the decision *)
(* to every attached sink (internal/sink/sink.go) and answer; the          *)
(* goroutine that shuts the servers down within five seconds; and main,    *)
(* which then stops the sinks, waits for them and closes the publisher.    *)
(*                                                                         *)
(* The engine is what RuleEngine shows of it: it fails only under a done   *)
(* context.  A sink is what AuditWriter and KafkaSink show of it: it takes *)
(* a decision over, drops and counts it, or ignores it; and its Run writes *)
(* what was taken over, or gives up on it in a metric's sight, and returns *)
(* when the sink is closed and nothing is left.                            *)
(* net/http and grpc are external: Shutdown and GracefulStop wait for      *)
(* handlers, Close cuts connections and waits for nobody, Stop ends the    *)
(* contexts of RPCs while GracefulStop goes on waiting for their handlers. *)
(***************************************************************************)
CONSTANTS HttpReqs, GrpcReqs   \* requests to decide, by server
ASSUME ServerAssumption == HttpReqs \cap GrpcReqs = {}

Requests == HttpReqs \cup GrpcReqs
Sinks == {"audit", "kafka"}

VARIABLES
  attached,   \* sinks that main created: Postgres answered, Kafka is enabled
  pc,         \* where each handler is
  ctxDone,    \* the request's context is done
  fate,       \* what each sink did with the decision
  closed,     \* the sink takes nothing over any more
  returned,   \* its Run has returned
  ctx,        \* the context that SIGINT and SIGTERM cancel is done
  serverErr,  \* serverErrs holds an error
  http,       \* the HTTP server
  grpc,       \* the gRPC server
  shut,       \* where the shutdown goroutine is
  timeUp,     \* shutdownCtx is done: five seconds for both servers together
  forced,     \* server.Close cut HTTP connections
  main,       \* where main is
  sinkDone    \* stopSinks was called

handlerVars == <<pc, ctxDone, fate>>
serverVars == <<ctx, serverErr, http, grpc, shut, timeUp, forced>>
sinkVars == <<closed, returned>>
mainVars == <<main, sinkDone>>
vars == <<attached, handlerVars, serverVars, sinkVars, mainVars>>

Init ==
  /\ attached \in SUBSET Sinks
  /\ pc = [req \in Requests |-> "new"]
  /\ ctxDone = [req \in Requests |-> FALSE]
  /\ fate = [s \in Sinks |-> [req \in Requests |-> "none"]]
  /\ closed = [s \in Sinks |-> FALSE]
  /\ returned = [s \in Sinks |-> FALSE]
  /\ ctx = FALSE
  /\ serverErr = FALSE
  /\ http = "serving"
  /\ grpc = "serving"
  /\ shut = "wait"
  /\ timeUp = FALSE
  /\ forced = FALSE
  /\ main = "select"
  /\ sinkDone = FALSE

Active(req) == pc[req] \in {"evaluate", "audit", "kafka", "reply"}
Quiet(reqs) == \A req \in reqs : ~Active(req)
Goto(req, next) == pc' = [pc EXCEPT ![req] = next]
----------------------------------------------------------------------------
(* The handlers.                                                           *)

(* Kafka comes first in the list of sinks.                                 *)
NextSink_KafkaFirst(place) ==
  IF place = "evaluate" /\ "kafka" \in attached THEN "kafka"
  ELSE IF place # "audit" /\ "audit" \in attached THEN "audit"
  ELSE "reply"

(* Both sinks are in the list whether or not they could be created.        *)
NextSink_Always(place) ==
  CASE place = "evaluate" -> "audit"
    [] place = "audit" -> "kafka"
    [] OTHER -> "reply"

(* MultiDecisionSink ranges over the sinks in the order main appends them; *)
(* one sink alone is called directly, and none not at all.                 *)
NextSink(place) ==
  IF place = "evaluate" /\ "audit" \in attached THEN "audit"
  ELSE IF place # "kafka" /\ "kafka" \in attached THEN "kafka"
  ELSE "reply"

(* A request is validated: 400 or InvalidArgument, or on to the engine.    *)
(* Until its server has stopped one may come in over a connection that is  *)
(* already open, even when the listener has failed or is closed.           *)
Arrive(req) ==
  /\ pc[req] = "new"
  /\ (IF req \in HttpReqs THEN http ELSE grpc) # "stopped"
  /\ \E valid \in BOOLEAN : Goto(req, IF valid THEN "evaluate" ELSE "rejected")
  /\ UNCHANGED <<ctxDone, fate>>

(* The engine returns an error (500, Internal), or offers the decision.    *)
Evaluate(req) ==
  /\ pc[req] = "evaluate"
  /\ \E ok \in BOOLEAN :
       /\ ~ok => ctxDone[req]
       /\ Goto(req, IF ok THEN NextSink("evaluate") ELSE "failed")
  /\ UNCHANGED <<ctxDone, fate>>

(* Enqueue does not look at closed.                                        *)
Enqueue_AfterClose(s, req) ==
  /\ pc[req] = s
  /\ \E f \in {"ignored", "queued", "dropped"} :
       /\ f = "ignored" <=> ctxDone[req]
       /\ fate' = [fate EXCEPT ![s][req] = f]
  /\ Goto(req, NextSink(s))
  /\ UNCHANGED ctxDone

(* One Enqueue: ignored under a done context or by a closed sink, else     *)
(* taken over, or dropped and counted when the queue is full.              *)
Enqueue(s, req) ==
  /\ pc[req] = s
  /\ \E f \in {"ignored", "late", "queued", "dropped"} :
       /\ f = "ignored" <=> ctxDone[req]
       /\ f = "late" <=> closed[s] /\ ~ctxDone[req]
       /\ fate' = [fate EXCEPT ![s][req] = f]
  /\ Goto(req, NextSink(s))
  /\ UNCHANGED ctxDone

(* The answer reaches a client that is still connected.  An HTTP client    *)
(* that closed its sending side may hear one whose context is done.        *)
Reply(req) ==
  LET cut == req \in HttpReqs /\ forced
  IN  /\ pc[req] = "reply"
      /\ \/ ~cut /\ (req \in GrpcReqs => ~ctxDone[req]) /\ Goto(req, "answered")
         \/ (cut \/ ctxDone[req]) /\ Goto(req, "unheard")
      /\ UNCHANGED <<ctxDone, fate>>

Handle(req) ==
  /\ main # "exit"
  /\ Evaluate(req) \/ (\E s \in Sinks : Enqueue(s, req)) \/ Reply(req)
  /\ UNCHANGED <<attached, serverVars, sinkVars, mainVars>>

Accept(req) ==
  /\ main # "exit"
  /\ Arrive(req)
  /\ UNCHANGED <<attached, serverVars, sinkVars, mainVars>>

(* The client goes away or its deadline passes.                            *)
EndContext(req) ==
  /\ main # "exit"
  /\ Active(req) /\ ~ctxDone[req]
  /\ ctxDone' = [ctxDone EXCEPT ![req] = TRUE]
  /\ UNCHANGED <<pc, fate, attached, serverVars, sinkVars, mainVars>>
----------------------------------------------------------------------------
(* The servers and the goroutine that shuts them down.                     *)
Interrupt ==
  /\ ~ctx
  /\ ctx' = TRUE
  /\ UNCHANGED <<serverErr, http, grpc, shut, timeUp, forced>>

(* ListenAndServe or Serve returns an error.                               *)
ServerFails ==
  /\ \/ http = "serving" /\ http' = "down" /\ UNCHANGED grpc
     \/ grpc = "serving" /\ grpc' = "down" /\ UNCHANGED http
  /\ serverErr' = TRUE
  /\ UNCHANGED <<ctx, shut, timeUp, forced>>

(* server.Shutdown closes the listener and the five seconds begin.         *)
ShutdownHttp ==
  /\ shut = "wait" /\ ctx
  /\ shut' = "http"
  /\ http' = "draining"
  /\ UNCHANGED <<ctx, serverErr, grpc, timeUp, forced>>

TimeUp ==
  /\ shut \in {"http", "grpc"} /\ ~timeUp
  /\ timeUp' = TRUE
  /\ UNCHANGED <<ctx, serverErr, http, grpc, shut, forced>>

(* Shutdown failed, and the connections are left open.                     *)
HttpStopped_NoClose ==
  /\ shut = "http"
  /\ timeUp \/ Quiet(HttpReqs)
  /\ shut' = "grpc"
  /\ http' = "stopped"
  /\ grpc' = "draining"
  /\ UNCHANGED <<ctx, serverErr, timeUp, forced>>

(* Shutdown returns when no handler is left, or with shutdownCtx's error:  *)
(* then Close cuts what is left.  GracefulStop begins.                     *)
HttpStopped ==
  /\ shut = "http"
  /\ timeUp \/ Quiet(HttpReqs)
  /\ shut' = "grpc"
  /\ http' = "stopped"
  /\ grpc' = "draining"
  /\ \E quiet \in BOOLEAN :
       /\ IF quiet THEN Quiet(HttpReqs) ELSE timeUp
       /\ forced' = ~quiet
  /\ UNCHANGED <<ctx, serverErr, timeUp>>

(* GracefulStop returns and closes stopGRPC.                               *)
GrpcStopped ==
  /\ grpc = "draining" /\ Quiet(GrpcReqs)
  /\ grpc' = "stopped"
  /\ UNCHANGED <<ctx, serverErr, http, shut, timeUp, forced>>

(* The select on stopGRPC and shutdownCtx; Stop ends the RPCs' contexts.   *)
AwaitGrpc ==
  /\ \/ shut \in {"grpc", "stopping"} /\ grpc = "stopped"
        /\ shut' = "done" /\ UNCHANGED ctxDone
     \/ shut = "grpc" /\ timeUp /\ shut' = "stopping"
        /\ ctxDone' = [req \in Requests |-> ctxDone[req] \/ (req \in GrpcReqs /\ Active(req))]
  /\ UNCHANGED <<ctx, serverErr, http, grpc, timeUp, forced>>

Shutdown ==
  /\ \/ ShutdownHttp \/ HttpStopped \/ GrpcStopped
     \/ TimeUp
  /\ UNCHANGED <<attached, handlerVars, sinkVars, mainVars>>

ShutdownGrpc ==
  /\ AwaitGrpc
  /\ UNCHANGED <<pc, fate, attached, sinkVars, mainVars>>

Outside ==
  /\ main # "exit"
  /\ Interrupt \/ ServerFails
  /\ UNCHANGED <<attached, handlerVars, sinkVars, mainVars>>
----------------------------------------------------------------------------
(* main and the sinks it waits for.                                        *)

(* An error of a server is logged and nothing more.                        *)
MainSelect_NoStop ==
  /\ main = "select"
  /\ ctx \/ serverErr
  /\ main' = "wait"
  /\ UNCHANGED <<ctx, sinkDone>>

(* ctx.Done(), or an error of a server: stop() cancels ctx.                *)
MainSelect ==
  /\ main = "select"
  /\ ctx \/ serverErr
  /\ ctx' = TRUE
  /\ main' = "wait"
  /\ UNCHANGED sinkDone

(* The sinks are stopped without waiting for the servers.                  *)
StopSinks_AtOnce ==
  /\ main = "wait"
  /\ sinkDone' = TRUE
  /\ main' = "sinks"
  /\ UNCHANGED ctx

(* <-shutdownDone, stopSinks().                                            *)
StopSinks ==
  /\ main = "wait" /\ shut = "done"
  /\ sinkDone' = TRUE
  /\ main' = "sinks"
  /\ UNCHANGED ctx

(* sinksWG.Wait(), then the publisher and, deferred, Postgres are closed.  *)
Exit ==
  /\ main = "sinks"
  /\ \A s \in attached : returned[s]
  /\ main' = "exit"
  /\ UNCHANGED <<ctx, sinkDone>>

Main ==
  /\ MainSelect \/ StopSinks \/ Exit
  /\ UNCHANGED <<attached, handlerVars, sinkVars, serverErr, http, grpc, shut, timeUp, forced>>

(* A sink closes when sinkCtx is done.                                     *)
CloseSink(s) ==
  /\ s \in attached /\ sinkDone /\ ~closed[s]
  /\ closed' = [closed EXCEPT ![s] = TRUE]
  /\ UNCHANGED <<returned, fate>>

(* The INSERT or the publish of a decision that was taken over succeeds.   *)
Write(s, req) ==
  /\ ~returned[s] /\ fate[s][req] = "queued"
  /\ fate' = [fate EXCEPT ![s][req] = "written"]
  /\ UNCHANGED <<closed, returned>>

(* A publish failed and was counted, or drainTimeout left the decision in  *)
(* the queue, where the depth gauge shows it; or the audit writer's final  *)
(* flush failed: one write error for all it left behind.                   *)
GiveUp(s, req) ==
  /\ ~returned[s] /\ fate[s][req] = "queued"
  /\ s = "audit" => closed[s]
  /\ fate' = [fate EXCEPT ![s][req] = "lost"]
  /\ UNCHANGED <<closed, returned>>

(* Run returns from a drain that left nothing undecided.                   *)
RunReturns(s) ==
  /\ closed[s] /\ ~returned[s]
  /\ \A req \in Requests : fate[s][req] # "queued"
  /\ returned' = [returned EXCEPT ![s] = TRUE]
  /\ UNCHANGED <<closed, fate>>

Sink(s) ==
  /\ \/ CloseSink(s) \/ RunReturns(s)
     \/ \E req \in Requests : Write(s, req) \/ GiveUp(s, req)
  /\ UNCHANGED <<attached, pc, ctxDone, serverVars, mainVars>>

Next ==
  \/ \E req \in Requests : Accept(req) \/ Handle(req) \/ EndContext(req)
  \/ Shutdown \/ ShutdownGrpc \/ Outside \/ Main
  \/ \E s \in Sinks : Sink(s)

Spec == Init /\ [][Next]_vars

(* The scheduler runs main, the shutdown goroutine, its timer and the      *)
(* sinks.  Handlers of RPCs end, since each call they make has a timeout;  *)
(* those of HTTP need not.                                                 *)
Fairness ==
  /\ WF_vars(Shutdown) /\ WF_vars(ShutdownGrpc) /\ WF_vars(Main)
  /\ \A s \in Sinks : WF_vars(Sink(s))
  /\ \A req \in GrpcReqs : WF_vars(Handle(req))

FairSpec == Spec /\ Fairness
----------------------------------------------------------------------------
PCs == {"new", "evaluate", "audit", "kafka", "reply", "answered", "unheard",
        "rejected", "failed"}

FateValues == {"none", "ignored", "late", "dropped", "queued", "written", "lost"}

(* Every variable has its type, and nothing is ever handed to a sink that  *)
(* could not be created.                                                   *)
TypeOK ==
  /\ attached \in SUBSET Sinks
  /\ pc \in [Requests -> PCs]
  /\ ctxDone \in [Requests -> BOOLEAN]
  /\ fate \in [Sinks -> [Requests -> FateValues]]
  /\ \A s \in Sinks \ attached, req \in Requests : fate[s][req] = "none"
  /\ closed \in [Sinks -> BOOLEAN]
  /\ returned \in [Sinks -> BOOLEAN]
  /\ ctx \in BOOLEAN /\ serverErr \in BOOLEAN /\ timeUp \in BOOLEAN
  /\ forced \in BOOLEAN /\ sinkDone \in BOOLEAN
  /\ http \in {"serving", "down", "draining", "stopped"}
  /\ grpc \in {"serving", "down", "draining", "stopped"}
  /\ shut \in {"wait", "http", "grpc", "stopping", "done"}
  /\ main \in {"select", "wait", "sinks", "exit"}

(* The sink took the decision over, or counted it as dropped.              *)
Recorded(s, req) == fate[s][req] \in {"dropped", "queued", "written", "lost"}

(* A client that was there to get its decision can rely on its record:     *)
(* each attached sink took it over or counted it as dropped, however the   *)
(* answer raced with shutdown, its timeout and the closing of the sinks.   *)
AnsweredIsRecorded ==
  \A req \in Requests :
    pc[req] = "answered" /\ ~ctxDone[req] => \A s \in attached : Recorded(s, req)

(* The process does not exit with a decision still queued, not even one of *)
(* a handler that outlived the shutdown; and each that a client was there  *)
(* to get has been written, or a metric shows that some were lost.         *)
ExitLosesNothingUnseen ==
  main = "exit" => \A req \in Requests, s \in attached :
    /\ fate[s][req] # "queued"
    /\ pc[req] = "answered" /\ ~ctxDone[req] => fate[s][req] \in {"written", "dropped", "lost"}

(* The fan-out to two sinks is not atomic, but it never gives Kafka a      *)
(* decision the audit writer has not had, except one whose handler         *)
(* outlived a forced shutdown.                                             *)
EventHasAudit ==
  \A req \in Requests :
    attached = Sinks /\ Recorded("kafka", req) =>
      Recorded("audit", req) \/ (fate["audit"][req] = "late" /\ forced)

(* The order of shutdown: a sink is closed only when both servers have     *)
(* stopped and no handler is left but those cut off by a forced close, so  *)
(* that queued decisions drain; and the resources go after the sinks.      *)
StopOrder ==
  /\ \A s \in Sinks : closed[s] =>
       /\ http = "stopped" /\ grpc = "stopped"
       /\ Quiet(GrpcReqs)
       /\ forced \/ Quiet(HttpReqs)
  /\ main = "exit" => \A s \in attached : returned[s]

(* However many HTTP handlers hang, and whichever server failed, the       *)
(* process ends once it is told to stop.                                   *)
ShutdownEnds == ctx \/ serverErr ~> main = "exit"
=============================================================================
