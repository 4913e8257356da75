------------------------------- MODULE Rules -------------------------------
(***************************************************************************)
(* The data the decision engine works on: rules as the loader builds them, *)
(* the result of evaluating one rule, and the two pure functions of the    *)
(* engine, CombinerRule.EvaluateWithResults (internal/rules/combiner.go)   *)
(* and Combine (internal/engine/combine.go).                               *)
(*                                                                         *)
(* A rule is [id, kind, op, of, verdict, code].  verdict and code are its  *)
(* on_match / on_exceed action; op and of are meaningful for a combiner.   *)
(* What a keyword, CEL or rate-limit rule computes is abstracted to the    *)
(* set of outcomes its Evaluate can return.                                *)
(***************************************************************************)
EXTENDS Naturals, Sequences

CONSTANTS RuleIds,   \* rule identifiers
          Codes      \* reason codes a rule action may carry, never the empty one

NoId == ""           \* the zero value of Reason.Rule
NoCode == ""         \* the zero value of Reason.Code

ASSUME RulesAssumption == NoId \notin RuleIds /\ NoCode \notin Codes

Verdicts == {"allow", "flag", "block"}
Kinds == {"rate_limit", "keyword_match", "cel", "combiner"}

RuleSet == [id : RuleIds, kind : Kinds, op : {"all", "any"}, of : Seq(RuleIds),
            verdict : Verdicts, code : Codes]

(* Reason.Detail of a combiner is the list of dependencies it skipped.     *)
Reason == [code : Codes \cup {NoCode}, rule : RuleIds \cup {NoId},
           skipped : SUBSET RuleIds]

(* Why Evaluate returned an error: the rule itself failed, the caller's    *)
(* context was done, or a combiner found a dependency without a result.    *)
Errs == {"none", "eval", "ctx", "dep"}

RuleResult == [id : RuleIds, matched : BOOLEAN, verdict : Verdicts,
               reason : Reason, err : Errs]

NoReason == [code |-> NoCode, rule |-> NoId, skipped |-> {}]

NoMatch(rule) == [id |-> rule.id, matched |-> FALSE, verdict |-> "allow",
                  reason |-> NoReason, err |-> "none"]

Match(rule) == [id |-> rule.id, matched |-> TRUE, verdict |-> rule.verdict,
                reason |-> [code |-> rule.code, rule |-> rule.id, skipped |-> {}],
                err |-> "none"]

(* The zero RuleResult that came back beside the error.                    *)
FailOpenResult_Zero(rule, cause) ==
  [id |-> NoId, matched |-> FALSE, verdict |-> "allow",
   reason |-> NoReason, err |-> cause]

(* What the engine records when Evaluate returns an error.                 *)
FailOpenResult(rule, cause) ==
  [id |-> rule.id, matched |-> FALSE, verdict |-> "allow",
   reason |-> NoReason, err |-> cause]
----------------------------------------------------------------------------
(* byID: the results of the rules evaluated so far, by rule id.            *)
Evaluated(results) == {results[i].id : i \in DOMAIN results}
Prior(results, ref) == results[CHOOSE i \in DOMAIN results : results[i].id = ref]

(* The k-th dependency adds to matchedCount.                               *)
Counted(rule, results, k) ==
  LET dep == Prior(results, rule.of[k])
  IN  dep.err = "none" /\ dep.matched

(* An `all` that forgives the dependencies it skipped.                     *)
CombinerMatches_SkipsErrors(rule, results) ==
  \/ rule.op = "any" /\ \E k \in DOMAIN rule.of : Counted(rule, results, k)
  \/ rule.op = "all" /\ \A k \in DOMAIN rule.of :
       Counted(rule, results, k) \/ Prior(results, rule.of[k]).err # "none"

CombinerMatches(rule, results) ==
  \/ rule.op = "any" /\ \E k \in DOMAIN rule.of : Counted(rule, results, k)
  \/ rule.op = "all" /\ \A k \in DOMAIN rule.of : Counted(rule, results, k)

SkippedDeps(rule, results) ==
  {rule.of[k] : k \in {j \in DOMAIN rule.of : Prior(results, rule.of[j]).err # "none"}}

EvaluateWithResults(rule, results) ==
  IF \E k \in DOMAIN rule.of : rule.of[k] \notin Evaluated(results)
  THEN FailOpenResult(rule, "dep")
  ELSE LET matched == CombinerMatches(rule, results)
       IN  [id      |-> rule.id,
            matched |-> matched,
            verdict |-> IF matched THEN rule.verdict ELSE "allow",
            reason  |-> [code    |-> IF matched THEN rule.code ELSE NoCode,
                         rule    |-> rule.id,
                         skipped |-> SkippedDeps(rule, results)],
            err     |-> "none"]

(* The results one call of a rule's Evaluate may produce.                  *)

(* Whether a keyword occurs is the request's content; it cannot fail.      *)
KeywordOutcomes(rule, ctxDone) ==
  IF ctxDone THEN {FailOpenResult(rule, "ctx")} ELSE {NoMatch(rule), Match(rule)}

(* An expression may fail on what the request gives it.                    *)
CelOutcomes(rule, ctxDone) ==
  IF ctxDone THEN {FailOpenResult(rule, "ctx")}
  ELSE {NoMatch(rule), Match(rule), FailOpenResult(rule, "eval")}

(* A request whose action is not the rule's is let through before Redis,   *)
(* or the context, is looked at; else the rule fails with Redis.           *)
RateLimitOutcomes(rule, ctxDone) ==
  IF ctxDone THEN {NoMatch(rule), FailOpenResult(rule, "ctx")}
  ELSE {NoMatch(rule), Match(rule), FailOpenResult(rule, "eval")}

CombinerOutcomes(rule, results, ctxDone) ==
  {IF ctxDone THEN FailOpenResult(rule, "ctx") ELSE EvaluateWithResults(rule, results)}

Outcomes(rule, results, ctxDone) ==
  CASE rule.kind = "combiner" -> CombinerOutcomes(rule, results, ctxDone)
    [] rule.kind = "keyword_match" -> KeywordOutcomes(rule, ctxDone)
    [] rule.kind = "cel" -> CelOutcomes(rule, ctxDone)
    [] rule.kind = "rate_limit" -> RateLimitOutcomes(rule, ctxDone)
----------------------------------------------------------------------------
(* Combine: block beats flag beats allow, over the rules that matched; the *)
(* reasons are those of the matched results that carry a code, in order.   *)
MatchedVerdicts(results) ==
  {results[i].verdict : i \in {j \in DOMAIN results : results[j].matched}}

(* flag beats block.                                                       *)
Precedence_FlagFirst(verdicts) ==
  IF "flag" \in verdicts THEN "flag"
  ELSE IF "block" \in verdicts THEN "block" ELSE "allow"

Precedence(verdicts) ==
  IF "block" \in verdicts THEN "block"
  ELSE IF "flag" \in verdicts THEN "flag" ELSE "allow"

Reported(result) == result.matched /\ result.reason.code # NoCode

(* Combine's loop, up to result n.                                         *)
ReasonsUpTo(results) ==
  LET reasons[n \in 0..Len(results)] ==
        IF n = 0 THEN <<>>
        ELSE IF Reported(results[n]) THEN Append(reasons[n - 1], results[n].reason)
        ELSE reasons[n - 1]
  IN  reasons

Reasons(results) == ReasonsUpTo(results)[Len(results)]

EvaluatedRules(results) == [i \in 1..Len(results) |-> results[i].id]

Combine(results) ==
  [verdict   |-> Precedence(MatchedVerdicts(results)),
   reasons   |-> Reasons(results),
   evaluated |-> EvaluatedRules(results)]
=============================================================================
