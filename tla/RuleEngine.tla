----------------------------- MODULE RuleEngine -----------------------------
(***************************************************************************)
(* RuleEngine.Evaluate (internal/engine/engine.go) under concurrent        *)
(* requests, client cancellation and hot reload through engineHolder       *)
(* (cmd/server/main.go).                                                   *)
(*                                                                         *)
(* Every request runs Evaluate in its own goroutine.  The points where     *)
(* another goroutine can change what it sees next are the steps here: the  *)
(* load of the current engine, the feature lookup, the context test at the *)
(* top of each iteration, the evaluation of the rule, and the tail that    *)
(* combines, answers and offers the audit record.                          *)
(***************************************************************************)
EXTENDS Rules

CONSTANTS Requests,    \* requests served concurrently
          Versions,    \* rules_version hashes
          Snapshots    \* what the loader may build: [version, rules]

ASSUME SnapshotsAssumption ==
  /\ Snapshots # {}
  /\ Snapshots \subseteq [version : Versions, rules : Seq(RuleSet)]
  /\ \A s \in Snapshots : \A i, j \in DOMAIN s.rules :
       s.rules[i].id = s.rules[j].id => i = j

VARIABLES
  current,    \* engineHolder.current: the snapshot new requests evaluate
  pc,         \* where each request is in Evaluate
  eng,        \* the snapshot the request loaded
  ctxDone,    \* the request's context is cancelled or past its deadline
  degraded,   \* state.FeatureDegraded
  results,    \* results, in evaluation order (byID is derived from it)
  response,   \* the DecideResponse returned, or NoResponse
  audit       \* the AuditRecords handed to the sink under a live context

vars == <<current, pc, eng, ctxDone, degraded, results, response, audit>>

NoResponse == [verdict |-> "allow", reasons |-> <<>>, evaluated |-> <<>>,
               version |-> "", warned |-> FALSE]

(* The fields of a decision that the audit record copies.                  *)
AuditRecord(r, resp) ==
  [req |-> r, verdict |-> resp.verdict, reasons |-> resp.reasons,
   evaluated |-> resp.evaluated, version |-> resp.version]

Init ==
  /\ current \in Snapshots
  /\ pc = [r \in Requests |-> "idle"]
  /\ eng = [r \in Requests |-> current]
  /\ ctxDone = [r \in Requests |-> FALSE]
  /\ degraded = [r \in Requests |-> FALSE]
  /\ results = [r \in Requests |-> <<>>]
  /\ response = [r \in Requests |-> NoResponse]
  /\ audit = {}
----------------------------------------------------------------------------
(* engineHolder.Store: the last step of a reload.                          *)
Store(s) ==
  /\ current' = s
  /\ UNCHANGED <<pc, eng, ctxDone, degraded, results, response, audit>>

(* The client goes away, or its deadline passes.                           *)
Cancel(r) ==
  /\ pc[r] \notin {"done", "failed"}
  /\ ~ctxDone[r]
  /\ ctxDone' = [ctxDone EXCEPT ![r] = TRUE]
  /\ UNCHANGED <<current, pc, eng, degraded, results, response, audit>>

(* engineHolder.Evaluate loads the engine; Evaluate tests its context.     *)
Enter(r) ==
  /\ pc[r] = "idle"
  /\ eng' = [eng EXCEPT ![r] = current]
  /\ pc' = [pc EXCEPT ![r] = IF ctxDone[r] THEN "failed" ELSE "features"]
  /\ UNCHANGED <<current, ctxDone, degraded, results, response, audit>>

(* GetActorFeatures: under a done context the lookup always degrades.      *)
LookupFeatures(r) ==
  /\ pc[r] = "features"
  /\ \E d \in BOOLEAN :
       /\ ctxDone[r] => d
       /\ degraded' = [degraded EXCEPT ![r] = d]
  /\ pc' = [pc EXCEPT ![r] = "loop"]
  /\ UNCHANGED <<current, eng, ctxDone, results, response, audit>>

Exhausted(r) == Len(results[r]) = Len(eng[r].rules)

(* The context test at the top of the loop.                                *)
NextRule(r) ==
  /\ pc[r] = "loop"
  /\ ~Exhausted(r)
  /\ pc' = [pc EXCEPT ![r] = IF ctxDone[r] THEN "failed" ELSE "rule"]
  /\ UNCHANGED <<current, eng, ctxDone, degraded, results, response, audit>>

(* A rule error aborts the request.                                        *)
EvalRule_ErrorAborts(r) ==
  /\ pc[r] = "rule"
  /\ \E res \in Outcomes(eng[r].rules[Len(results[r]) + 1], results[r], ctxDone[r]) :
       /\ results' = [results EXCEPT ![r] = Append(@, res)]
       /\ pc' = [pc EXCEPT ![r] = IF res.err = "none" THEN "loop" ELSE "failed"]
  /\ UNCHANGED <<current, eng, ctxDone, degraded, response, audit>>

(* The body of the loop: evaluate, replace an error by a fail-open result, *)
(* remember the result.                                                    *)
EvalRule(r) ==
  /\ pc[r] = "rule"
  /\ \E res \in Outcomes(eng[r].rules[Len(results[r]) + 1], results[r], ctxDone[r]) :
       results' = [results EXCEPT ![r] = Append(@, res)]
  /\ pc' = [pc EXCEPT ![r] = "loop"]
  /\ UNCHANGED <<current, eng, ctxDone, degraded, response, audit>>

(* The version is read from the holder when the decision is built.         *)
Decision_CurrentVersion(r) ==
  LET combined == Combine(results[r])
  IN  [verdict   |-> combined.verdict,
       reasons   |-> combined.reasons,
       evaluated |-> combined.evaluated,
       version   |-> current.version,
       warned    |-> degraded[r]]

Decision(r) ==
  LET combined == Combine(results[r])
  IN  [verdict   |-> combined.verdict,
       reasons   |-> combined.reasons,
       evaluated |-> combined.evaluated,
       version   |-> eng[r].version,
       warned    |-> degraded[r]]

(* The sink does not look at the context.                                  *)
Taken_Always(r) == TRUE

(* Both sinks return at once from Enqueue when the context is done.        *)
Taken(r) == ~ctxDone[r]

(* After the loop: combine, stamp, warn, offer the audit record, return.   *)
Respond(r) ==
  /\ pc[r] = "loop"
  /\ Exhausted(r)
  /\ response' = [response EXCEPT ![r] = Decision(r)]
  /\ audit' = IF Taken(r) THEN audit \cup {AuditRecord(r, Decision(r))} ELSE audit
  /\ pc' = [pc EXCEPT ![r] = "done"]
  /\ UNCHANGED <<current, eng, ctxDone, degraded, results>>

Step(r) == Enter(r) \/ LookupFeatures(r) \/ NextRule(r) \/ EvalRule(r) \/ Respond(r)

Next ==
  \/ \E s \in Snapshots : Store(s)
  \/ \E r \in Requests : Cancel(r) \/ Step(r)

Spec == Init /\ [][Next]_vars
----------------------------------------------------------------------------
PCs == {"idle", "features", "loop", "rule", "done", "failed"}

Responses == [verdict : Verdicts, reasons : Seq(Reason), evaluated : Seq(RuleIds),
              version : Versions \cup {""}, warned : BOOLEAN]

AuditRecords == [req : Requests, verdict : Verdicts, reasons : Seq(Reason),
                 evaluated : Seq(RuleIds), version : Versions \cup {""}]

(* Every variable of the engine has its type.                              *)
TypeOK ==
  /\ current \in Snapshots
  /\ pc \in [Requests -> PCs]
  /\ eng \in [Requests -> Snapshots]
  /\ ctxDone \in [Requests -> BOOLEAN]
  /\ degraded \in [Requests -> BOOLEAN]
  /\ results \in [Requests -> Seq(RuleResult)]
  /\ response \in [Requests -> Responses]
  /\ audit \in SUBSET AuditRecords

(* The decision is the one of the snapshot it names: for each returned     *)
(* response, the evaluated rules are, in order, the rules of the snapshot  *)
(* with the response's rules_version, whatever reload happened meanwhile.  *)
SnapshotConsistent ==
  \A r \in Requests : pc[r] = "done" =>
    \E s \in Snapshots :
      /\ s.version = response[r].version
      /\ response[r].evaluated = [i \in 1..Len(s.rules) |-> s.rules[i].id]

(* Rule i of a request matched.                                            *)
Fired(r, i) == i \in DOMAIN results[r] /\ results[r][i].matched

(* Dependency ref of rule i is evaluated before it, and fired.             *)
FiredBefore(r, i, ref) ==
  \E j \in 1..(i - 1) : eng[r].rules[j].id = ref /\ Fired(r, j)

(* Dependency ref of rule i is evaluated before it.                        *)
PresentBefore(r, i, ref) == \E j \in 1..(i - 1) : eng[r].rules[j].id = ref

(* What a combiner promises in terms of which rules fired.                 *)
CombinerHolds(r, i) ==
  LET rule == eng[r].rules[i]
  IN  /\ \A k \in DOMAIN rule.of : PresentBefore(r, i, rule.of[k])
      /\ \/ rule.op = "all" /\ \A k \in DOMAIN rule.of : FiredBefore(r, i, rule.of[k])
         \/ rule.op = "any" /\ \E k \in DOMAIN rule.of : FiredBefore(r, i, rule.of[k])

(* A combiner fires exactly when its dependencies do: whatever mix of      *)
(* errors and matches its dependencies produced, rule i of kind combiner   *)
(* matched iff all (any) of the rules it names fired, unless the caller's  *)
(* context was done when it ran.                                           *)
CombinerSound ==
  \A r \in Requests : \A i \in DOMAIN results[r] :
    (eng[r].rules[i].kind = "combiner" /\ results[r][i].err # "ctx") =>
      (Fired(r, i) <=> CombinerHolds(r, i))

(* A decision says what the rules that fired say.  block beats flag beats  *)
(* allow, and an error is never a match: it blocks iff some rule that      *)
(* evaluated without error fired with block, and flags iff none blocks and *)
(* some such rule fired with flag.  Its reasons are one for each rule that *)
(* fired, in rule order, with the rule's id and code.                      *)
DecisionSound ==
  \A r \in Requests : pc[r] = "done" =>
    LET rules == eng[r].rules
        reasons == response[r].reasons
        fired == {i \in DOMAIN rules : Fired(r, i) /\ results[r][i].err = "none"}
        says(v) == \E i \in fired : rules[i].verdict = v
    IN  /\ response[r].verdict = "block" <=> says("block")
        /\ response[r].verdict = "flag" <=> says("flag") /\ ~says("block")
        /\ \E at \in [1..Len(reasons) -> fired] :
             /\ \A i \in fired : \E k \in 1..Len(reasons) : at[k] = i
             /\ \A j, k \in 1..Len(reasons) : j < k => at[j] < at[k]
             /\ \A k \in 1..Len(reasons) : /\ reasons[k].rule = rules[at[k]].id
                                           /\ reasons[k].code = rules[at[k]].code

(* Fail-open: no rule error and no feature outage fails a request; Evaluate*)
(* returns an error only to a caller whose context is done.                *)
OnlyCancellationFails ==
  \A r \in Requests : pc[r] = "failed" => ctxDone[r]

(* No audited decision was cut short: a rule that returned the context's   *)
(* error instead of evaluating never counts in an audited decision.        *)
AuditedDecisionsAreWhole ==
  \A a \in audit : \A i \in DOMAIN results[a.req] : results[a.req][i].err # "ctx"

(* "when a combiner sees a dependency rule that errored, it records        *)
(* skipped_dep=<id> status=dependency_error in the decision's              *)
(* Reason.Detail" (README.md): the decision of a request in which combiner *)
(* i skipped a dependency has a reason of that combiner naming it.         *)
SkippedDepsReported ==
  \A r \in Requests : pc[r] = "done" =>
    \A i \in DOMAIN results[r] : results[r][i].reason.skipped # {} =>
      \E k \in DOMAIN response[r].reasons :
        response[r].reasons[k] = results[r][i].reason
=============================================================================
