-------------------------- MODULE RuleEngine_proofs --------------------------
(***************************************************************************)
(* Proofs about RuleEngine, for every set of requests and of snapshots the *)
(* loader may build: a decision is the one of a single snapshot, combiners *)
(* and decisions are sound, only cancellation fails a request, and no      *)
(* audited decision was cut short.                                         *)
(*                                                                         *)
(* What Combine's loop collects is proved by induction over its turns; the *)
(* property is a set of numbers, so that no prover has to instantiate an   *)
(* operator.                                                               *)
(***************************************************************************)
EXTENDS RuleEngine, WellFoundedInduction, TLAPS

(* Types of what the properties depend on.                                 *)
InvTypes ==
  /\ current \in Snapshots
  /\ pc \in [Requests -> PCs]
  /\ eng \in [Requests -> Snapshots]
  /\ ctxDone \in [Requests -> BOOLEAN]
  /\ results \in [Requests -> Seq(RuleResult)]
  /\ DOMAIN response = Requests

(* A result is one of the rule: it carries its id, a match carries its     *)
(* verdict and no error, and the context's error needs a done context.     *)
ResultOf(rule, res, done) ==
  /\ res.id = rule.id
  /\ res.matched => /\ res.verdict = rule.verdict
                    /\ res.err = "none"
                    /\ res.reason.code = rule.code
                    /\ res.reason.rule = rule.id
  /\ res.err = "ctx" => done

(* The results are those of a prefix of the rules of the loaded snapshot.  *)
Prefix(r) ==
  /\ Len(results[r]) <= Len(eng[r].rules)
  /\ pc[r] \in {"idle", "features"} => results[r] = <<>>
  /\ pc[r] = "rule" => Len(results[r]) < Len(eng[r].rules)
  /\ \A i \in DOMAIN results[r] : ResultOf(eng[r].rules[i], results[r][i], ctxDone[r])

(* A finished request answered with the combination of all its results.    *)
Answered(r) ==
  pc[r] = "done" =>
    /\ Len(results[r]) = Len(eng[r].rules)
    /\ response[r].version = eng[r].version
    /\ response[r].evaluated = EvaluatedRules(results[r])
    /\ response[r].verdict = Precedence(MatchedVerdicts(results[r]))
    /\ response[r].reasons = Reasons(results[r])

(* An audited request is finished, and none of its rules was cut short.    *)
InvAudit ==
  \A a \in audit : /\ a.req \in Requests
                   /\ pc[a.req] = "done"
                   /\ \A i \in DOMAIN results[a.req] : results[a.req][i].err # "ctx"

(* CombinerSound for the rules of one request.                             *)
Combiners(r) ==
  \A i \in DOMAIN results[r] :
    (eng[r].rules[i].kind = "combiner" /\ results[r][i].err # "ctx") =>
      (Fired(r, i) <=> CombinerHolds(r, i))

(* What holds of each request.                                             *)
InvRequest(r) ==
  /\ Prefix(r)
  /\ Answered(r)
  /\ Combiners(r)
  /\ pc[r] = "failed" => ctxDone[r]

IInv ==
  /\ InvTypes
  /\ \A r \in Requests : InvRequest(r)
  /\ InvAudit
-----------------------------------------------------------------------------
(* Induction over the natural numbers, for a property given as a set.      *)
LEMMA LeastNat ==
  ASSUME NEW T \in SUBSET Nat, T # {}
  PROVE  \E m \in T : \A n \in T : m <= n
<1> DEFINE R == OpToRel(<, Nat)
<1>1. IsWellFoundedOn(R, Nat)
  BY NatLessThanWellFounded
<1>2. \A x, y \in Nat : x < y => <<x, y>> \in R
  BY DEF OpToRel
<1> HIDE DEF R
<1>3. PICK x \in T : \A y \in T : ~(<<y, x>> \in R)
  BY <1>1, WFMin
<1>4. \A y \in T : ~(y < x)
  BY <1>2, <1>3
<1> QED BY <1>4

LEMMA SetInduction ==
  ASSUME NEW S, 0 \in S, \A n \in Nat : n \in S => n + 1 \in S
  PROVE  Nat \subseteq S
<1> DEFINE T == Nat \ S
<1> SUFFICES ASSUME T # {} PROVE FALSE
  OBVIOUS
<1>1. PICK m \in T : \A n \in T : m <= n
  BY LeastNat
<1>2. CASE m = 0
  BY <1>2
<1>3. CASE m # 0
  <2>1. m - 1 \in Nat /\ m - 1 \notin T /\ m = (m - 1) + 1
    BY <1>1, <1>3
  <2> QED BY <2>1
<1> QED BY <1>2, <1>3

(* One turn of Combine's loop, on the reasons collected so far.            *)
Turn(rs, f, n) ==
  IF n = 0 THEN <<>>
  ELSE IF Reported(rs[n]) THEN Append(f[n - 1], rs[n].reason)
  ELSE f[n - 1]

(* The loop collects some sequence of reasons for every number of turns.   *)
LEMMA LoopExists ==
  ASSUME NEW rs \in Seq(RuleResult)
  PROVE  \E f : f = [n \in 0..Len(rs) |-> Turn(rs, f, n)]
<1> DEFINE N == Len(rs)
           Q(m) == \E f \in [0..m -> Seq(Reason)] : \A n \in 0..m : f[n] = Turn(rs, f, n)
           S == {m \in Nat : m <= N => Q(m)}
<1>1. Q(0)
  <2> DEFINE f == [n \in 0..0 |-> <<>>]
  <2>1. f \in [0..0 -> Seq(Reason)] /\ \A n \in 0..0 : f[n] = Turn(rs, f, n)
    BY DEF Turn
  <2> HIDE DEF f
  <2> QED BY <2>1
<1>2. ASSUME NEW m \in Nat, m + 1 <= N, Q(m) PROVE Q(m + 1)
  <2>1. N \in Nat
    OBVIOUS
  <2>2. PICK g \in [0..m -> Seq(Reason)] : \A n \in 0..m : g[n] = Turn(rs, g, n)
    BY <1>2
  <2>3. rs[m + 1] \in RuleResult
    BY <1>2, <2>1
  <2>4. g[m] \in Seq(Reason) /\ rs[m + 1].reason \in Reason
    BY <2>3 DEF RuleResult
  <2>5. Turn(rs, g, m + 1) \in Seq(Reason)
    BY <2>4 DEF Turn
  <2> DEFINE f == [n \in 0..m + 1 |-> IF n = m + 1 THEN Turn(rs, g, m + 1) ELSE g[n]]
  <2>6. f \in [0..m + 1 -> Seq(Reason)]
    BY <2>5
  <2>7. ASSUME NEW n \in 0..m + 1 PROVE f[n] = Turn(rs, f, n)
    <3>1. \A j \in 0..m : f[j] = g[j]
      OBVIOUS
    <3>2. n # 0 => n - 1 \in 0..m
      OBVIOUS
    <3>3. f[n] = Turn(rs, g, n)
      BY <2>2
    <3> HIDE DEF f
    <3> QED BY <3>1, <3>2, <3>3 DEF Turn
  <2> HIDE DEF f
  <2> QED BY <2>6, <2>7
<1>3. Q(N)
  <2> HIDE DEF Q
  <2>1. N \in Nat /\ 0 \in S /\ \A m \in Nat : m \in S => m + 1 \in S
    BY <1>1, <1>2
  <2> HIDE DEF S
  <2>2. Nat \subseteq S
    BY <2>1, SetInduction
  <2> QED BY <2>1, <2>2 DEF S
<1>4. PICK f \in [0..N -> Seq(Reason)] : \A n \in 0..N : f[n] = Turn(rs, f, n)
  BY <1>3
<1>5. f = [n \in 0..N |-> Turn(rs, f, n)]
  BY <1>4
<1> QED BY <1>5

LEMMA LoopTurns ==
  ASSUME NEW rs \in Seq(RuleResult)
  PROVE  /\ ReasonsUpTo(rs)[0] = <<>>
         /\ \A n \in 1..Len(rs) :
              ReasonsUpTo(rs)[n] = IF Reported(rs[n])
                                   THEN Append(ReasonsUpTo(rs)[n - 1], rs[n].reason)
                                   ELSE ReasonsUpTo(rs)[n - 1]
<1> DEFINE P(f) == f = [n \in 0..Len(rs) |->
                          IF n = 0 THEN <<>>
                          ELSE IF Reported(rs[n]) THEN Append(f[n - 1], rs[n].reason)
                          ELSE f[n - 1]]
<1>1. ReasonsUpTo(rs) = CHOOSE f : P(f)
  BY Zenon DEF ReasonsUpTo
<1>2. \E f : P(f)
  BY LoopExists DEF Turn
<1> HIDE DEF P
<1>3. P(CHOOSE f : P(f))
  BY <1>2, Zenon
<1> DEFINE f == ReasonsUpTo(rs)
<1>4. P(f)
  BY <1>1, <1>3
<1> HIDE DEF f
<1>5. Len(rs) \in Nat /\ \A n \in 0..Len(rs) : f[n] = Turn(rs, f, n)
  <2>1. f = [n \in 0..Len(rs) |-> Turn(rs, f, n)]
    BY <1>4, Zenon DEF P, Turn
  <2> QED BY <2>1
<1>6. /\ f[0] = <<>>
      /\ \A n \in 1..Len(rs) :
           f[n] = IF Reported(rs[n]) THEN Append(f[n - 1], rs[n].reason) ELSE f[n - 1]
  BY <1>5 DEF Turn
<1> QED BY <1>6 DEF f

(* The reasons list the reported results once each and in order.           *)
Lists(reasons, rs, at, n) ==
  /\ reasons \in Seq(Reason)
  /\ at \in [1..Len(reasons) -> {i \in 1..n : Reported(rs[i])}]
  /\ \A i \in 1..n : Reported(rs[i]) => \E k \in 1..Len(reasons) : at[k] = i
  /\ \A j, k \in 1..Len(reasons) : j < k => at[j] < at[k]
  /\ \A k \in 1..Len(reasons) : reasons[k] = rs[at[k]].reason

LEMMA ListsMore ==
  ASSUME NEW rs \in Seq(RuleResult), NEW n \in Nat, n + 1 <= Len(rs),
         Reported(rs[n + 1]), NEW reasons, NEW at, Lists(reasons, rs, at, n)
  PROVE  \E to : Lists(Append(reasons, rs[n + 1].reason), rs, to, n + 1)
<1> DEFINE L == Len(reasons)
           more == Append(reasons, rs[n + 1].reason)
           to == [k \in 1..L + 1 |-> IF k = L + 1 THEN n + 1 ELSE at[k]]
<1>1. reasons \in Seq(Reason) /\ L \in Nat /\ rs[n + 1] \in RuleResult
  BY DEF Lists
<1>2. rs[n + 1].reason \in Reason
  BY <1>1 DEF RuleResult
<1>3. /\ more \in Seq(Reason)
      /\ Len(more) = L + 1
      /\ more[L + 1] = rs[n + 1].reason
      /\ \A k \in 1..L : more[k] = reasons[k]
  BY <1>1, <1>2
<1>4. \A k \in 1..L : at[k] \in {i \in 1..n : Reported(rs[i])}
  BY DEF Lists
<1> HIDE DEF more
<1>5. to \in [1..L + 1 -> {i \in 1..n + 1 : Reported(rs[i])}]
  BY <1>1, <1>4
<1>6. to[L + 1] = n + 1 /\ \A k \in 1..L : to[k] = at[k]
  BY <1>1
<1> HIDE DEF to, L
<1>7. ASSUME NEW i \in 1..n + 1, Reported(rs[i])
      PROVE  \E k \in 1..L + 1 : to[k] = i
  <2>1. CASE i = n + 1
    BY <1>1, <1>6, <2>1
  <2>2. CASE i \in 1..n
    <3>1. PICK k \in 1..L : at[k] = i
      BY <1>7, <2>2 DEF Lists, L
    <3> QED BY <1>1, <1>6, <3>1
  <2> QED BY <2>1, <2>2
<1>8. ASSUME NEW j \in 1..L + 1, NEW k \in 1..L + 1, j < k
      PROVE  to[j] < to[k]
  <2>1. j \in 1..L
    BY <1>1, <1>8
  <2>2. CASE k = L + 1
    <3>1. to[j] \in 1..n /\ to[k] = n + 1
      BY <1>4, <1>6, <2>1, <2>2
    <3> QED BY <3>1
  <2>3. CASE k \in 1..L
    BY <1>6, <1>8, <2>1, <2>3 DEF Lists, L
  <2> QED BY <1>1, <2>2, <2>3
<1>9. ASSUME NEW k \in 1..L + 1
      PROVE  more[k] = rs[to[k]].reason
  <2>1. CASE k = L + 1
    BY <1>3, <1>6, <2>1
  <2>2. CASE k \in 1..L
    BY <1>3, <1>6, <2>2 DEF Lists, L
  <2> QED BY <1>1, <2>1, <2>2
<1>10. Lists(more, rs, to, n + 1)
  BY <1>3, <1>5, <1>7, <1>8, <1>9 DEF Lists
<1> QED BY <1>10 DEF more

(* Combine collects the reasons of the reported results, once each and in  *)
(* evaluation order.                                                       *)
LEMMA ReasonsExact ==
  ASSUME NEW rs \in Seq(RuleResult)
  PROVE  \E at : Lists(Reasons(rs), rs, at, Len(rs))
<1> DEFINE N == Len(rs)
           f == ReasonsUpTo(rs)
           S == {n \in Nat : n <= N => \E at : Lists(f[n], rs, at, n)}
<1>1. /\ f[0] = <<>>
      /\ \A n \in 1..N : f[n] = IF Reported(rs[n])
                                THEN Append(f[n - 1], rs[n].reason) ELSE f[n - 1]
      /\ N \in Nat
  BY LoopTurns
<1> HIDE DEF f, N
<1>2. 0 \in S
  <2>1. Lists(<<>>, rs, <<>>, 0)
    BY DEF Lists
  <2> QED BY <1>1, <2>1
<1>3. ASSUME NEW n \in Nat, n \in S PROVE n + 1 \in S
  <2> SUFFICES ASSUME n + 1 <= N PROVE \E at : Lists(f[n + 1], rs, at, n + 1)
    OBVIOUS
  <2>1. PICK at : Lists(f[n], rs, at, n)
    BY <1>1, <1>3
  <2>2. n + 1 \in 1..N /\ (n + 1) - 1 = n
    BY <1>1
  <2>3. CASE Reported(rs[n + 1])
    <3>1. f[n + 1] = Append(f[n], rs[n + 1].reason)
      BY <1>1, <2>2, <2>3
    <3> QED BY <2>1, <2>3, <3>1, ListsMore DEF N
  <2>4. CASE ~Reported(rs[n + 1])
    <3>1. f[n + 1] = f[n]
      BY <1>1, <2>2, <2>4
    <3>2. {i \in 1..n + 1 : Reported(rs[i])} = {i \in 1..n : Reported(rs[i])}
      BY <2>4
    <3>3. Lists(f[n], rs, at, n + 1)
      BY <2>1, <3>2 DEF Lists
    <3> QED BY <3>1, <3>3
  <2> QED BY <2>3, <2>4
<1>4. N \in S
  <2> HIDE DEF S
  <2>1. Nat \subseteq S
    BY <1>2, <1>3, SetInduction
  <2> QED BY <1>1, <2>1
<1>5. \E at : Lists(f[N], rs, at, N)
  BY <1>1, <1>4
<1> QED BY <1>5 DEF Reasons, f, N
-----------------------------------------------------------------------------
(* A rule that fails open is a typed result of the rule, without a match.  *)
LEMMA FailOpenTyped ==
  ASSUME NEW rule \in RuleSet, NEW cause \in Errs
  PROVE  FailOpenResult(rule, cause) \in RuleResult
  BY DEF FailOpenResult, RuleSet, RuleResult, NoReason, Reason, Verdicts

(* What Evaluate returns is typed, and a result of the rule.               *)
LEMMA OutcomeOfRule ==
  ASSUME NEW rule \in RuleSet, NEW rs \in Seq(RuleResult), NEW done \in BOOLEAN,
         NEW res \in Outcomes(rule, rs, done)
  PROVE  res \in RuleResult /\ ResultOf(rule, res, done)
<1>1. CASE res \in {NoMatch(rule), Match(rule)}
  <2>1. NoMatch(rule) \in RuleResult /\ Match(rule) \in RuleResult
    BY DEF NoMatch, Match, RuleSet, RuleResult, NoReason, Reason, Verdicts, Errs
  <2>2. CASE res = NoMatch(rule)
    BY <2>1, <2>2 DEF NoMatch, ResultOf
  <2>3. CASE res = Match(rule)
    BY <2>1, <2>3 DEF Match, ResultOf
  <2>4. QED
    BY <1>1, <2>2, <2>3
<1>2. CASE \/ res \in {FailOpenResult(rule, "eval"), FailOpenResult(rule, "dep")}
           \/ done /\ res = FailOpenResult(rule, "ctx")
  <2>1. "eval" \in Errs /\ "dep" \in Errs /\ "ctx" \in Errs
    BY DEF Errs
  <2>2. res \in RuleResult
    BY <1>2, <2>1, FailOpenTyped
  <2>3. QED
    BY <1>2, <2>2 DEF FailOpenResult, ResultOf
<1>3. CASE rule.kind = "combiner" /\ res = EvaluateWithResults(rule, rs) /\ res # FailOpenResult(rule, "dep")
  <2> DEFINE m == CombinerMatches(rule, rs)
             sk == SkippedDeps(rule, rs)
  <2>1. res = [id      |-> rule.id,
               matched |-> m,
               verdict |-> IF m THEN rule.verdict ELSE "allow",
               reason  |-> [code    |-> IF m THEN rule.code ELSE NoCode,
                            rule    |-> rule.id,
                            skipped |-> sk],
               err     |-> "none"]
    BY <1>3 DEF EvaluateWithResults
  <2>2. sk \subseteq RuleIds
    BY DEF SkippedDeps, RuleSet
  <2>3. m \in BOOLEAN
    BY DEF CombinerMatches
  <2>4. res \in RuleResult
    <3> HIDE DEF m, sk
    <3>1. QED
      BY <2>1, <2>2, <2>3 DEF RuleSet, RuleResult, Reason, Verdicts, Errs
  <2>5. /\ res.id = rule.id
        /\ res.matched => /\ res.verdict = rule.verdict
                          /\ res.err = "none"
                          /\ res.reason.code = rule.code
                          /\ res.reason.rule = rule.id
        /\ res.err # "ctx"
    <3> HIDE DEF m, sk
    <3>1. QED
      BY <2>1, <2>3
  <2>6. QED
    BY <2>4, <2>5 DEF ResultOf
<1>4. QED
  <2>1. rule.kind \in Kinds
    BY DEF RuleSet
  <2>2. QED
    BY <1>1, <1>2, <1>3, <2>1
    DEF Outcomes, Kinds, KeywordOutcomes, CelOutcomes, RateLimitOutcomes, CombinerOutcomes

(* The loaded snapshot has rules, with ids of their own.                   *)
LEMMA SnapshotRules ==
  ASSUME NEW s \in Snapshots
  PROVE  /\ s.rules \in Seq(RuleSet)
         /\ \A i, j \in DOMAIN s.rules : s.rules[i].id = s.rules[j].id => i = j
  BY SnapshotsAssumption
-----------------------------------------------------------------------------
(* The engine starts in the invariant.                                     *)
LEMMA InitInv == Init => IInv
<1> SUFFICES ASSUME Init
             PROVE  IInv
  OBVIOUS
<1>1. InvTypes
  BY DEF Init, InvTypes, PCs
<1>2. \A r \in Requests : results[r] = <<>> /\ pc[r] = "idle" /\ eng[r] \in Snapshots
  BY DEF Init
<1>3. ASSUME NEW r \in Requests
      PROVE  InvRequest(r)
  <2>1. Len(eng[r].rules) \in Nat
    BY <1>2, SnapshotRules
  <2>2. QED
    BY <1>2, <2>1 DEF InvRequest, Prefix, Answered, Combiners
<1>4. InvAudit
  BY DEF Init, InvAudit
<1>5. QED
  BY <1>1, <1>3, <1>4 DEF IInv

(* A request whose own state stands still keeps what holds of it, done     *)
(* context or not.                                                         *)
LEMMA Frame ==
  ASSUME NEW q \in Requests, InvRequest(q),
         results'[q] = results[q], eng'[q] = eng[q], pc'[q] = pc[q],
         response'[q] = response[q], ctxDone[q] => ctxDone'[q]
  PROVE  InvRequest(q)'
<1>1. Prefix(q)'
  BY DEF InvRequest, Prefix, ResultOf
<1>2. Answered(q)'
  BY DEF InvRequest, Answered
<1>3. Combiners(q)'
  BY DEF InvRequest, Combiners, Fired, CombinerHolds, FiredBefore, PresentBefore
<1>4. QED
  BY <1>1, <1>2, <1>3 DEF InvRequest

(* The audit survives steps that move no finished request.                 *)
LEMMA AuditFrame ==
  ASSUME InvAudit, audit' = audit, \A q \in Requests : pc[q] = "done" => pc'[q] = "done" /\ results'[q] = results[q]
  PROVE  InvAudit'
  BY DEF InvAudit

(* A step of request r alone: the others keep what holds of them.          *)
LEMMA Others ==
  ASSUME IInv, NEW r \in Requests, InvTypes', InvRequest(r)', InvAudit',
         \A q \in Requests : q # r =>
           /\ results'[q] = results[q] /\ eng'[q] = eng[q]
           /\ pc'[q] = pc[q] /\ response'[q] = response[q]
           /\ ctxDone'[q] = ctxDone[q]
  PROVE  IInv'
<1>1. ASSUME NEW q \in Requests
      PROVE  InvRequest(q)'
  <2>1. CASE q = r
    BY <2>1
  <2>2. CASE q # r
    <3>1. /\ results'[q] = results[q] /\ eng'[q] = eng[q] /\ pc'[q] = pc[q]
          /\ response'[q] = response[q] /\ ctxDone'[q] = ctxDone[q]
      BY <2>2
    <3>2. InvRequest(q)
      BY DEF IInv
    <3>3. QED
      BY <3>1, <3>2, Frame
  <2>3. QED
    BY <2>1, <2>2
<1>2. QED
  BY <1>1 DEF IInv
-----------------------------------------------------------------------------
(* A reload, and the cancellation of a request.                            *)
LEMMA EnvironmentKeeps ==
  ASSUME IInv, (\E s \in Snapshots : Store(s)) \/ (\E r \in Requests : Cancel(r))
  PROVE  IInv'
<1>1. /\ UNCHANGED <<pc, eng, results, response, audit>>
      /\ current' \in Snapshots
      /\ \A q \in Requests : ctxDone[q] => ctxDone'[q]
  BY DEF IInv, InvTypes, Store, Cancel
<1>2. ctxDone' \in [Requests -> BOOLEAN]
  BY DEF IInv, InvTypes, Store, Cancel
<1>3. InvTypes'
  BY <1>1, <1>2 DEF IInv, InvTypes
<1>4. \A q \in Requests : InvRequest(q)'
  BY <1>1, Frame DEF IInv
<1>5. InvAudit'
  BY <1>1, AuditFrame DEF IInv
<1>6. QED
  BY <1>3, <1>4, <1>5 DEF IInv

(* Loading the engine, the feature lookup and the context tests.           *)
LEMMA ControlKeeps ==
  ASSUME IInv, NEW r \in Requests, Enter(r) \/ LookupFeatures(r) \/ NextRule(r)
  PROVE  IInv'
<1>1. /\ UNCHANGED <<current, ctxDone, results, response, audit>>
      /\ pc[r] \in {"idle", "features", "loop"}
      /\ \A q \in Requests \ {r} : pc'[q] = pc[q] /\ eng'[q] = eng[q]
  BY DEF IInv, InvTypes, Enter, LookupFeatures, NextRule
<1>2. InvTypes'
  <2>1. pc' \in [Requests -> PCs]
    BY DEF IInv, InvTypes, Enter, LookupFeatures, NextRule, PCs
  <2>2. eng' \in [Requests -> Snapshots]
    BY DEF IInv, InvTypes, Enter, LookupFeatures, NextRule
  <2>3. QED
    BY <1>1, <2>1, <2>2 DEF IInv, InvTypes
<1>3. InvRequest(r)'
  <2>0. results[r] \in Seq(RuleResult) /\ eng[r] \in Snapshots /\ current \in Snapshots
    BY DEF IInv, InvTypes
  <2>1. CASE Enter(r)
    <3>1. /\ eng'[r] = current /\ pc'[r] \in {"failed", "features"}
          /\ pc'[r] = "failed" => ctxDone[r]
          /\ results'[r] = <<>>
      BY <1>1, <2>1 DEF IInv, InvTypes, Enter, InvRequest, Prefix
    <3>2. Len(current.rules) \in Nat
      BY <2>0, SnapshotRules
    <3>3. Prefix(r)' /\ Answered(r)' /\ Combiners(r)'
      BY <3>1, <3>2 DEF Prefix, Answered, Combiners
    <3>4. QED
      BY <1>1, <3>1, <3>3 DEF InvRequest
  <2>2. CASE LookupFeatures(r) \/ NextRule(r)
    <3>1. /\ eng' = eng /\ pc'[r] \in {"failed", "loop", "rule"}
          /\ pc'[r] = "failed" => ctxDone[r]
          /\ pc'[r] = "rule" => ~Exhausted(r)
      BY <2>2 DEF IInv, InvTypes, LookupFeatures, NextRule
    <3>2. Len(eng[r].rules) \in Nat /\ Len(results[r]) \in Nat
      BY <2>0, SnapshotRules
    <3>3. Prefix(r)'
      BY <1>1, <3>1, <3>2 DEF IInv, InvRequest, Prefix, ResultOf, Exhausted
    <3>4. Combiners(r)'
      BY <1>1, <3>1 DEF IInv, InvRequest, Combiners, Fired, CombinerHolds, FiredBefore, PresentBefore
    <3>5. QED
      BY <1>1, <3>1, <3>3, <3>4 DEF InvRequest, Answered
  <2>3. QED
    BY <2>1, <2>2
<1>4. InvAudit'
  BY <1>1, AuditFrame DEF IInv
<1>5. QED
  BY <1>1, <1>2, <1>3, <1>4, Others
-----------------------------------------------------------------------------
(* What EvaluateWithResults finds in byID is what fired before rule i.     *)
LEMMA CountedIsFired ==
  ASSUME InvTypes, NEW r \in Requests, Prefix(r),
         NEW rule \in RuleSet, NEW k \in DOMAIN rule.of
  PROVE  LET n == Len(results[r]) + 1
         IN  /\ rule.of[k] \in Evaluated(results[r]) <=> PresentBefore(r, n, rule.of[k])
             /\ rule.of[k] \in Evaluated(results[r]) =>
                  (Counted(rule, results[r], k) <=> FiredBefore(r, n, rule.of[k]))
<1> DEFINE rs == results[r]
           ref == rule.of[k]
           n == Len(rs) + 1
<1>1. /\ rs \in Seq(RuleResult) /\ eng[r] \in Snapshots
      /\ 1..(n - 1) = DOMAIN rs
      /\ DOMAIN rs \subseteq DOMAIN eng[r].rules
  <2>1. rs \in Seq(RuleResult) /\ eng[r] \in Snapshots
    BY DEF InvTypes
  <2>2. eng[r].rules \in Seq(RuleSet)
    BY <2>1, SnapshotRules
  <2>3. QED
    BY <2>1, <2>2 DEF Prefix
<1>2. \A j \in DOMAIN rs : rs[j].id = eng[r].rules[j].id
  BY DEF Prefix, ResultOf
<1>3. ref \in Evaluated(rs) <=> PresentBefore(r, n, ref)
  BY <1>1, <1>2 DEF Evaluated, PresentBefore
<1>4. ASSUME ref \in Evaluated(rs)
      PROVE  Counted(rule, rs, k) <=> FiredBefore(r, n, ref)
  <2>1. PICK j \in DOMAIN rs : rs[j].id = ref
    BY <1>4 DEF Evaluated
  <2>2. \A m \in DOMAIN rs : rs[m].id = ref => m = j
    BY <1>1, <1>2, <2>1, SnapshotRules
  <2>3. Prior(rs, ref) = rs[j]
    BY <2>1, <2>2 DEF Prior
  <2>4. Counted(rule, rs, k) <=> rs[j].matched
    BY <2>1, <2>3 DEF Counted, Prefix, ResultOf
  <2>5. FiredBefore(r, n, ref) <=> rs[j].matched
    BY <1>1, <1>2, <2>1, <2>2 DEF FiredBefore, Fired
  <2>6. QED
    BY <2>4, <2>5
<1>5. QED
  BY <1>3, <1>4

(* A combiner whose context was live fires exactly when it should.         *)
LEMMA CombinerOutcome ==
  ASSUME InvTypes, NEW r \in Requests, Prefix(r), Len(results[r]) < Len(eng[r].rules),
         NEW n, n = Len(results[r]) + 1, NEW rule, rule = eng[r].rules[n],
         rule.kind = "combiner", NEW res \in Outcomes(rule, results[r], ctxDone[r]),
         res.err # "ctx"
  PROVE  res.matched <=> CombinerHolds(r, n)
<1>1. rule \in RuleSet
  <2>1. results[r] \in Seq(RuleResult) /\ eng[r] \in Snapshots
    BY DEF InvTypes
  <2>2. eng[r].rules \in Seq(RuleSet)
    BY <2>1, SnapshotRules
  <2>3. QED
    BY <2>1, <2>2
<1>2. res = EvaluateWithResults(rule, results[r])
  BY DEF Outcomes, CombinerOutcomes, FailOpenResult
<1>3. CASE \E k \in DOMAIN rule.of : rule.of[k] \notin Evaluated(results[r])
  <2>1. ~res.matched
    BY <1>2, <1>3 DEF EvaluateWithResults, FailOpenResult
  <2>2. ~CombinerHolds(r, n)
    BY <1>1, <1>3, CountedIsFired DEF CombinerHolds
  <2>3. QED
    BY <2>1, <2>2
<1>4. CASE \A k \in DOMAIN rule.of : rule.of[k] \in Evaluated(results[r])
  <2>1. res.matched <=> CombinerMatches(rule, results[r])
    BY <1>2, <1>4 DEF EvaluateWithResults
  <2>2. \A k \in DOMAIN rule.of :
          /\ PresentBefore(r, n, rule.of[k])
          /\ Counted(rule, results[r], k) <=> FiredBefore(r, n, rule.of[k])
    BY <1>1, <1>4, CountedIsFired
  <2>3. QED
    BY <2>1, <2>2 DEF CombinerMatches, CombinerHolds
<1>5. QED
  BY <1>3, <1>4
-----------------------------------------------------------------------------
(* Evaluating one rule.                                                    *)
LEMMA EvalKeeps ==
  ASSUME IInv, NEW r \in Requests, EvalRule(r)
  PROVE  IInv'
<1> DEFINE n == Len(results[r]) + 1
           rule == eng[r].rules[n]
<1>1. PICK res \in Outcomes(rule, results[r], ctxDone[r]) :
        results' = [results EXCEPT ![r] = Append(@, res)]
  BY DEF EvalRule
<1>2. /\ pc[r] = "rule" /\ pc' = [pc EXCEPT ![r] = "loop"]
      /\ UNCHANGED <<current, eng, ctxDone, response, audit>>
  BY DEF EvalRule
<1>3. /\ results[r] \in Seq(RuleResult) /\ eng[r] \in Snapshots /\ ctxDone[r] \in BOOLEAN
      /\ Prefix(r) /\ Combiners(r)
  BY DEF IInv, InvTypes, InvRequest
<1>4. eng[r].rules \in Seq(RuleSet)
  BY <1>3, SnapshotRules
<1>5. /\ n \in 1..Len(eng[r].rules)
      /\ rule \in RuleSet
      /\ Len(results[r]) < Len(eng[r].rules)
  BY <1>2, <1>3, <1>4 DEF Prefix
<1>6. res \in RuleResult /\ ResultOf(rule, res, ctxDone[r])
  BY <1>3, <1>5, OutcomeOfRule
<1>7. /\ results' \in [Requests -> Seq(RuleResult)]
      /\ results'[r] = Append(results[r], res)
      /\ \A q \in Requests : q # r => results'[q] = results[q]
  BY <1>1, <1>6 DEF IInv, InvTypes
<1>8. /\ DOMAIN results'[r] = 1..n /\ Len(results'[r]) = n
      /\ results'[r][n] = res
      /\ \A i \in 1..n : i # n => i \in DOMAIN results[r] /\ results'[r][i] = results[r][i]
  <2>1. /\ Len(results[r]) \in Nat /\ DOMAIN results[r] = 1..Len(results[r])
        /\ Len(Append(results[r], res)) = n
        /\ DOMAIN Append(results[r], res) = 1..n
        /\ Append(results[r], res)[n] = res
    BY <1>3, <1>6
  <2>2. \A i \in 1..Len(results[r]) : Append(results[r], res)[i] = results[r][i]
    BY <1>3, <1>6
  <2>3. \A i \in 1..n : i # n => i \in 1..Len(results[r])
    BY <2>1
  <2>4. QED
    BY <1>7, <2>1, <2>2, <2>3
<1>9. InvTypes'
  <2>1. pc' \in [Requests -> PCs]
    BY <1>2 DEF IInv, InvTypes, PCs
  <2>2. QED
    BY <1>2, <1>7, <2>1 DEF IInv, InvTypes
<1>10. pc'[r] = "loop" /\ \A q \in Requests : q # r => pc'[q] = pc[q]
  BY <1>2 DEF IInv, InvTypes
<1>11. Prefix(r)'
  <2>1. \A i \in DOMAIN results'[r] : ResultOf(eng[r].rules[i], results'[r][i], ctxDone[r])
    BY <1>3, <1>6, <1>8 DEF Prefix
  <2>2. QED
    BY <1>2, <1>5, <1>8, <1>10, <2>1 DEF Prefix
<1>12. ASSUME NEW i \in 1..n
       PROVE  CombinerHolds(r, i)' <=> CombinerHolds(r, i)
  <2>1. \A j \in 1..(i - 1) : Fired(r, j)' <=> Fired(r, j)
    BY <1>3, <1>8 DEF Fired
  <2>2. \A ref : (FiredBefore(r, i, ref)' <=> FiredBefore(r, i, ref))
                 /\ (PresentBefore(r, i, ref)' <=> PresentBefore(r, i, ref))
    BY <1>2, <2>1 DEF FiredBefore, PresentBefore
  <2>3. QED
    BY <1>2, <2>2 DEF CombinerHolds
<1>13. Combiners(r)'
  <2> SUFFICES ASSUME NEW i \in 1..n, eng[r].rules[i].kind = "combiner", results'[r][i].err # "ctx"
               PROVE  Fired(r, i)' <=> CombinerHolds(r, i)
    BY <1>2, <1>8, <1>12 DEF Combiners
  <2>1. CASE i = n
    <3>1. res.matched <=> CombinerHolds(r, n)
      BY <1>3, <1>5, <1>8, <2>1, CombinerOutcome DEF IInv
    <3>2. Fired(r, i)' <=> res.matched
      BY <1>8, <2>1 DEF Fired
    <3>3. QED
      BY <2>1, <3>1, <3>2
  <2>2. CASE i # n
    <3>1. Fired(r, i)' <=> Fired(r, i)
      BY <1>8, <2>2 DEF Fired
    <3>2. QED
      BY <1>3, <1>8, <2>2, <3>1 DEF Combiners
  <2>3. QED
    BY <2>1, <2>2
<1>14. InvRequest(r)'
  BY <1>10, <1>11, <1>13 DEF InvRequest, Answered
<1>15. InvAudit'
  BY <1>2, <1>7, <1>10, AuditFrame DEF IInv
<1>16. QED
  BY <1>2, <1>7, <1>9, <1>10, <1>14, <1>15, Others

(* Combining, answering and offering the audit record.                     *)
LEMMA RespondKeeps ==
  ASSUME IInv, NEW r \in Requests, Respond(r)
  PROVE  IInv'
<1>1. /\ pc[r] = "loop" /\ pc' = [pc EXCEPT ![r] = "done"]
      /\ Len(results[r]) = Len(eng[r].rules)
      /\ response' = [response EXCEPT ![r] = Decision(r)]
      /\ UNCHANGED <<current, eng, ctxDone, results>>
  BY DEF Respond, Exhausted
<1>2. /\ pc' \in [Requests -> PCs] /\ pc'[r] = "done"
      /\ \A q \in Requests : q # r => pc'[q] = pc[q]
  BY <1>1 DEF IInv, InvTypes, PCs
<1>3. /\ DOMAIN response' = Requests /\ response'[r] = Decision(r)
      /\ \A q \in Requests : q # r => response'[q] = response[q]
  BY <1>1 DEF IInv, InvTypes
<1>4. InvTypes'
  BY <1>1, <1>2, <1>3 DEF IInv, InvTypes
<1>5. InvRequest(r)'
  <2>1. Prefix(r)'
    BY <1>1, <1>2 DEF IInv, InvRequest, Prefix, ResultOf
  <2>2. Combiners(r)'
    BY <1>1 DEF IInv, InvRequest, Combiners, Fired, CombinerHolds, FiredBefore, PresentBefore
  <2>3. /\ Decision(r).version = eng[r].version
        /\ Decision(r).evaluated = EvaluatedRules(results[r])
        /\ Decision(r).verdict = Precedence(MatchedVerdicts(results[r]))
        /\ Decision(r).reasons = Reasons(results[r])
    BY DEF Decision, Combine
  <2>4. Answered(r)'
    BY <1>1, <1>3, <2>3 DEF Answered
  <2>5. QED
    BY <1>2, <2>1, <2>2, <2>4 DEF InvRequest
<1>6. InvAudit'
  <2> SUFFICES ASSUME NEW a \in audit'
               PROVE  /\ a.req \in Requests /\ pc'[a.req] = "done"
                      /\ \A i \in DOMAIN results[a.req] : results[a.req][i].err # "ctx"
    BY <1>1 DEF InvAudit
  <2>1. CASE a \in audit
    BY <1>2, <2>1 DEF IInv, InvAudit
  <2>2. CASE ~ctxDone[r] /\ a = AuditRecord(r, Decision(r))
    <3>1. a.req = r
      BY <2>2 DEF AuditRecord
    <3>2. \A i \in DOMAIN results[r] : results[r][i].err # "ctx"
      BY <2>2 DEF IInv, InvRequest, Prefix, ResultOf
    <3>3. QED
      BY <1>2, <3>1, <3>2
  <2>3. QED
    BY <2>1, <2>2 DEF Respond, Taken
<1>7. QED
  BY <1>1, <1>2, <1>3, <1>4, <1>5, <1>6, Others

(* Every step keeps the invariant.                                         *)
LEMMA StepInv == IInv /\ [Next]_vars => IInv'
<1> SUFFICES ASSUME IInv, [Next]_vars
             PROVE  IInv'
  OBVIOUS
<1>1. CASE UNCHANGED vars
  <2>1. UNCHANGED <<current, pc, eng, ctxDone, results, response, audit>>
    BY <1>1 DEF vars
  <2>2. InvTypes'
    BY <2>1 DEF IInv, InvTypes
  <2>3. \A q \in Requests : InvRequest(q)'
    BY <2>1, Frame DEF IInv
  <2>4. InvAudit'
    BY <2>1, AuditFrame DEF IInv
  <2>5. QED
    BY <2>2, <2>3, <2>4 DEF IInv
<1>2. CASE Next
  BY <1>2, EnvironmentKeeps, ControlKeeps, EvalKeeps, RespondKeeps DEF Next, Step
<1>3. QED
  BY <1>1, <1>2
-----------------------------------------------------------------------------
(* Every state of the engine satisfies the invariant.                      *)
THEOREM EngineInvariant == Spec => []IInv
  BY InitInv, StepInv, PTL DEF Spec

(* Under any interleaving of requests and reloads, a response lists the    *)
(* rules of the snapshot whose rules_version it carries.                   *)
THEOREM EngineSnapshotConsistent == Spec => []SnapshotConsistent
<1>1. IInv => SnapshotConsistent
  <2> SUFFICES ASSUME IInv, NEW r \in Requests, pc[r] = "done"
               PROVE  \E s \in Snapshots :
                        /\ s.version = response[r].version
                        /\ response[r].evaluated = [i \in 1..Len(s.rules) |-> s.rules[i].id]
    BY DEF SnapshotConsistent
  <2>1. /\ eng[r] \in Snapshots /\ results[r] \in Seq(RuleResult)
        /\ Prefix(r) /\ Answered(r)
    BY DEF IInv, InvTypes, InvRequest
  <2>2. response[r].evaluated = [i \in 1..Len(eng[r].rules) |-> eng[r].rules[i].id]
    BY <2>1 DEF Prefix, Answered, EvaluatedRules, ResultOf
  <2>3. eng[r].version = response[r].version
    BY <2>1 DEF Answered
  <2>4. QED
    BY <2>1, <2>2, <2>3
<1>2. QED
  BY <1>1, EngineInvariant, PTL

(* A combiner fires exactly when the rules it names do.                    *)
THEOREM EngineCombinerSound == Spec => []CombinerSound
<1>1. IInv => CombinerSound
  BY DEF IInv, InvRequest, Combiners, CombinerSound
<1>2. QED
  BY <1>1, EngineInvariant, PTL

(* The verdict is the strongest among the rules that fired without error,  *)
(* and Combine reports each of them once and in rule order.                *)
THEOREM EngineDecisionSound == Spec => []DecisionSound
<1>1. IInv => DecisionSound
  <2> SUFFICES ASSUME IInv, NEW r \in Requests, pc[r] = "done"
               PROVE  LET rules == eng[r].rules
                          reasons == response[r].reasons
                          fired == {i \in DOMAIN rules : Fired(r, i) /\ results[r][i].err = "none"}
                          says(v) == \E i \in fired : rules[i].verdict = v
                      IN  /\ response[r].verdict = "block" <=> says("block")
                          /\ response[r].verdict = "flag" <=> says("flag") /\ ~says("block")
                          /\ \E at \in [1..Len(reasons) -> fired] :
                               /\ \A i \in fired : \E k \in 1..Len(reasons) : at[k] = i
                               /\ \A j, k \in 1..Len(reasons) : j < k => at[j] < at[k]
                               /\ \A k \in 1..Len(reasons) : /\ reasons[k].rule = rules[at[k]].id
                                                             /\ reasons[k].code = rules[at[k]].code
    BY DEF DecisionSound
  <2> DEFINE rs == results[r]
             rules == eng[r].rules
             reasons == response[r].reasons
             fired == {i \in DOMAIN rules : Fired(r, i) /\ rs[i].err = "none"}
             says(v) == \E i \in fired : rules[i].verdict = v
  <2>1. /\ eng[r] \in Snapshots /\ rs \in Seq(RuleResult)
        /\ Prefix(r) /\ Answered(r)
    BY DEF IInv, InvTypes, InvRequest
  <2>2. rules \in Seq(RuleSet)
    BY <2>1, SnapshotRules
  <2>3. DOMAIN rs = DOMAIN rules /\ DOMAIN rs = 1..Len(rs)
    BY <2>1, <2>2 DEF Answered
  <2>4. \A v : v \in MatchedVerdicts(rs) <=> says(v)
    BY <2>1, <2>3 DEF MatchedVerdicts, Fired, Prefix, ResultOf
  <2>5. /\ response[r].verdict = Precedence(MatchedVerdicts(rs))
        /\ reasons = Reasons(rs)
    BY <2>1 DEF Answered
  <2>6. /\ response[r].verdict = "block" <=> says("block")
        /\ response[r].verdict = "flag" <=> says("flag") /\ ~says("block")
    BY <2>4, <2>5 DEF Precedence
  <2>7. ASSUME NEW i \in 1..Len(rs)
        PROVE  /\ Reported(rs[i]) <=> i \in fired
               /\ i \in fired => /\ rs[i].reason.rule = rules[i].id
                                 /\ rs[i].reason.code = rules[i].code
    <3>1. ResultOf(rules[i], rs[i], ctxDone[r]) /\ rules[i] \in RuleSet
      BY <2>1, <2>2, <2>3 DEF Prefix
    <3>2. rules[i].code # NoCode
      BY <3>1, RulesAssumption DEF RuleSet
    <3> QED BY <2>3, <3>1, <3>2 DEF ResultOf, Fired, Reported
  <2>8. {i \in 1..Len(rs) : Reported(rs[i])} = fired
    BY <2>3, <2>7
  <2>9. PICK at : Lists(reasons, rs, at, Len(rs))
    BY <2>1, <2>5, ReasonsExact
  <2> HIDE DEF fired, reasons, rules, rs
  <2>10. /\ at \in [1..Len(reasons) -> fired]
         /\ \A i \in fired : \E k \in 1..Len(reasons) : at[k] = i
         /\ \A j, k \in 1..Len(reasons) : j < k => at[j] < at[k]
         /\ \A k \in 1..Len(reasons) : reasons[k] = rs[at[k]].reason
    BY <2>8, <2>9 DEF Lists
  <2>11. \A k \in 1..Len(reasons) : /\ reasons[k].rule = rules[at[k]].id
                                    /\ reasons[k].code = rules[at[k]].code
    <3> TAKE k \in 1..Len(reasons)
    <3>1. at[k] \in fired
      BY <2>10
    <3>2. at[k] \in 1..Len(rs)
      BY <2>8, <3>1
    <3> QED BY <2>7, <2>10, <3>1, <3>2
  <2> QED BY <2>6, <2>10, <2>11 DEF fired, reasons, rules, rs
<1>2. QED
  BY <1>1, EngineInvariant, PTL

(* What a request answers has the type of a response.                      *)
LEMMA DecisionTyped ==
  ASSUME IInv, TypeOK, NEW r \in Requests
  PROVE  Decision(r) \in Responses
<1>1. /\ results[r] \in Seq(RuleResult)
      /\ eng[r] \in Snapshots
      /\ degraded[r] \in BOOLEAN
  BY DEF TypeOK
<1>2. eng[r].version \in Versions
  BY <1>1, SnapshotsAssumption
<1>3. Reasons(results[r]) \in Seq(Reason)
  BY <1>1, ReasonsExact DEF Lists
<1>4. EvaluatedRules(results[r]) \in Seq(RuleIds)
  <2>1. \A i \in 1..Len(results[r]) : results[r][i].id \in RuleIds
    <3>1. \A i \in 1..Len(results[r]) : results[r][i] \in RuleResult
      BY <1>1
    <3>2. \A res \in RuleResult : res.id \in RuleIds
      BY DEF RuleResult
    <3> QED BY <3>1, <3>2
  <2>2. Len(results[r]) \in Nat
    BY <1>1
  <2> QED BY <2>1, <2>2 DEF EvaluatedRules
<1>5. Precedence(MatchedVerdicts(results[r])) \in Verdicts
  BY DEF Precedence, Verdicts
<1>6. Decision(r) = [verdict |-> Precedence(MatchedVerdicts(results[r])),
                     reasons |-> Reasons(results[r]),
                     evaluated |-> EvaluatedRules(results[r]),
                     version |-> eng[r].version, warned |-> degraded[r]]
  BY DEF Decision, Combine
<1>7. ASSUME NEW v \in Verdicts, NEW why \in Seq(Reason), NEW ids \in Seq(RuleIds),
             NEW h \in Versions, NEW w \in BOOLEAN
      PROVE  [verdict |-> v, reasons |-> why, evaluated |-> ids, version |-> h, warned |-> w]
               \in Responses
  BY DEF Responses
<1> QED BY <1>1, <1>2, <1>3, <1>4, <1>5, <1>6, <1>7

LEMMA RespondTyped ==
  ASSUME IInv, TypeOK, NEW r \in Requests, Respond(r)
  PROVE  response' \in [Requests -> Responses] /\ audit' \in SUBSET AuditRecords
<1>1. Decision(r) \in Responses
  BY DecisionTyped
<1>2. AuditRecord(r, Decision(r)) \in AuditRecords
  BY <1>1 DEF AuditRecord, Responses, AuditRecords
<1>3. response' \in [Requests -> Responses]
  BY <1>1 DEF Respond, TypeOK
<1>4. audit' \in SUBSET AuditRecords
  BY <1>2 DEF Respond, TypeOK
<1> QED BY <1>3, <1>4

(* Type correctness of the engine for every set of snapshots: the reasons, *)
(* rules and version of each response and audit record included.           *)
THEOREM EngineTypeOK == Spec => []TypeOK
<1>1. Init => TypeOK
  <2> SUFFICES ASSUME Init PROVE TypeOK
    OBVIOUS
  <2>1. NoResponse \in Responses
    BY DEF NoResponse, Responses, Verdicts
  <2> QED BY <2>1 DEF Init, TypeOK, PCs
<1>2. IInv /\ IInv' /\ TypeOK /\ [Next]_vars => TypeOK'
  <2> SUFFICES ASSUME IInv, IInv', TypeOK, [Next]_vars PROVE TypeOK'
    OBVIOUS
  <2>1. /\ current' \in Snapshots
        /\ pc' \in [Requests -> PCs]
        /\ eng' \in [Requests -> Snapshots]
        /\ ctxDone' \in [Requests -> BOOLEAN]
        /\ results' \in [Requests -> Seq(RuleResult)]
    BY DEF IInv, InvTypes
  <2>2. degraded' \in [Requests -> BOOLEAN]
    <3>1. ASSUME NEW r \in Requests, LookupFeatures(r) PROVE degraded' \in [Requests -> BOOLEAN]
      BY <3>1 DEF LookupFeatures, TypeOK
    <3>2. CASE degraded' = degraded
      BY <3>2 DEF TypeOK
    <3>3. ASSUME NEW r \in Requests, Enter(r) \/ NextRule(r) \/ EvalRule(r) \/ Respond(r) \/ Cancel(r)
          PROVE  degraded' = degraded
      BY <3>3 DEF Enter, NextRule, EvalRule, Respond, Cancel
    <3>4. CASE UNCHANGED vars \/ \E s \in Snapshots : Store(s)
      BY <3>2, <3>4 DEF vars, Store
    <3> QED BY <3>1, <3>2, <3>3, <3>4 DEF Next, Step
  <2>3. response' \in [Requests -> Responses] /\ audit' \in SUBSET AuditRecords
    <3>1. CASE \E r \in Requests : Respond(r)
      BY <3>1, RespondTyped
    <3>2. CASE ~\E r \in Requests : Respond(r)
      <4>1. ASSUME NEW r \in Requests,
                   Cancel(r) \/ Enter(r) \/ LookupFeatures(r) \/ NextRule(r) \/ EvalRule(r)
            PROVE  response' = response /\ audit' = audit
        BY <4>1 DEF Cancel, Enter, LookupFeatures, NextRule, EvalRule
      <4>2. CASE UNCHANGED vars \/ \E s \in Snapshots : Store(s)
        BY <4>2 DEF vars, Store, TypeOK
      <4> QED BY <3>2, <4>1, <4>2 DEF Next, Step, TypeOK
    <3> QED BY <3>1, <3>2
  <2> QED BY <2>1, <2>2, <2>3 DEF TypeOK
<1> QED BY <1>1, <1>2, EngineInvariant, PTL DEF Spec

(* No rule error and no feature outage fails a request.                    *)
THEOREM EngineOnlyCancellationFails == Spec => []OnlyCancellationFails
<1>1. IInv => OnlyCancellationFails
  BY DEF IInv, InvRequest, OnlyCancellationFails
<1>2. QED
  BY <1>1, EngineInvariant, PTL

(* An audited decision rests on rules that all evaluated under a live      *)
(* context.                                                                *)
THEOREM EngineAuditedDecisionsAreWhole == Spec => []AuditedDecisionsAreWhole
<1>1. IInv => AuditedDecisionsAreWhole
  BY DEF IInv, InvAudit, AuditedDecisionsAreWhole
<1>2. QED
  BY <1>1, EngineInvariant, PTL
=============================================================================
