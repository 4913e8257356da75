-------------------------- MODULE RateLimit_proofs --------------------------
(***************************************************************************)
(* Proofs about RateLimit, for every window, list of rules and requests.   *)
(* IInv carries type correctness and the bound of one bucket.  Two further *)
(* invariants build on it: BorderInv for the bound across the border of    *)
(* two buckets, and QuotaInv for rules that keep keys of their own.        *)
(***************************************************************************)
EXTENDS RateLimit, FiniteSetTheorems, SequenceTheorems, TLAPS

(* Bucket arithmetic: a bucket is windowSeconds seconds long.              *)
LEMMA DivFacts ==
  ASSUME NEW t \in Nat, NEW W \in Nat, W > 0
  PROVE  /\ t \div W \in Nat
         /\ (t \div W) * W <= t
         /\ t < (t \div W) * W + W
  OBVIOUS

LEMMA PreviousBucket ==
  ASSUME NEW t \in Nat, NEW W \in Nat, W > 0, W <= t
  PROVE  (t - W) \div W = (t \div W) - 1
  OBVIOUS

LEMMA MultMonotone ==
  ASSUME NEW a \in Nat, NEW b \in Nat, NEW W \in Nat, a <= b
  PROVE  a * W <= b * W
  OBVIOUS

LEMMA ModFacts ==
  ASSUME NEW t \in Nat, NEW W \in Nat, W > 0
  PROVE  t % W \in Nat /\ t % W < W
  OBVIOUS

(* An estimate within the limit bounds the current count by itself.        *)
LEMMA EstimateBounds ==
  ASSUME NEW c \in Nat, NEW p \in Nat, NEW d \in Nat, NEW l \in Nat,
         NEW W \in Nat, W > 0, c * W + p * d <= l * W
  PROVE  c <= l
<1>1. p * d >= 0
  OBVIOUS
<1>2. c * W <= l * W
  BY <1>1
<1>3. SUFFICES ASSUME l + 1 <= c PROVE FALSE
  OBVIOUS
<1>4. (l + 1) * W <= c * W
  BY <1>3, MultMonotone
<1> QED BY <1>2, <1>4
----------------------------------------------------------------------------
W == windowSeconds

LEMMA WindowFacts ==
  /\ W \in Nat
  /\ ttlSeconds \in Nat
  /\ ttlSeconds >= 2 * W
  /\ MaxDelay \in Nat
  /\ MaxDelay <= W
  /\ MaxTime \in Nat
  /\ W <= MaxTime
  BY RateLimitAssumption DEF W, windowSeconds, ttlSeconds

LEMMA RuleFacts ==
  ASSUME NEW i \in RuleIdx
  PROVE  RuleList[i].limit \in Nat
<1> DEFINE R == [scope : {"actor", "actor+action", "global"},
                 action : Actions \cup {AnyAction}, limit : Nat \ {0}]
<1>1. RuleList \in Seq(R)
  BY RateLimitAssumption
<1>2. \A r \in R : r.limit \in Nat
  OBVIOUS
<1> HIDE DEF R
<1>3. RuleList[i] \in R
  BY <1>1 DEF RuleIdx
<1> QED BY <1>2, <1>3

(* A call under way read a clock that is at most MaxDelay seconds old.     *)
Pending ==
  \A req \in Requests : pc[req] = "script" =>
    /\ W > 0
    /\ idx[req] \in RuleIdx
    /\ W <= now[req]
    /\ now[req] <= clock
    /\ clock <= now[req] + MaxDelay

(* A key that was counted in lives to the end of the next bucket.          *)
Alive ==
  \A i \in RuleIdx, k \in Keys :
    hits[i][k] > 0 => expires[k] >= k[2] * W + 2 * W

(* Until then the counter holds every execution.                           *)
Counted ==
  \A i \in RuleIdx, k \in Keys :
    clock < k[2] * W + 2 * W => hits[i][k] <= counter[k]

(* Only what was counted is admitted, and never more than the limit.       *)
AdmittedBound ==
  /\ IsFiniteSet(results)
  /\ \A i \in RuleIdx, k \in Keys :
       /\ Cardinality(Admitted(i, k)) <= hits[i][k]
       /\ Cardinality(Admitted(i, k)) <= RuleList[i].limit

(* Without a whole second no script ever runs.                             *)
Idle == W = 0 => \A i \in RuleIdx, k \in Keys : hits[i][k] = 0

Typed ==
  /\ clock \in Nat
  /\ W <= clock
  /\ clock <= MaxTime
  /\ pc \in [Requests -> {"rule", "script"}]
  /\ idx \in [Requests -> 1..Len(RuleList) + 1]
  /\ now \in [Requests -> Nat]
  /\ tries \in [Requests -> 0..MaxTries]
  /\ counter \in [Keys -> Nat]
  /\ expires \in [Keys -> Nat]
  /\ hits \in [RuleIdx -> [Keys -> Nat]]
  /\ spent \in [RuleIdx -> [Quotas -> Nat]]
  /\ results \subseteq Result

IInv == Typed /\ Pending /\ Alive /\ Counted /\ AdmittedBound /\ Idle

USE DEF W

(* The keys of a call under way are keys of Redis, and a bucket's borders. *)
LEMMA KeyFacts ==
  ASSUME Typed, Pending, NEW req \in Requests, pc[req] = "script"
  PROVE  /\ currentKey(req) \in Keys
         /\ previousKey(req) \in Keys
         /\ currentKey(req)[2] \in Nat
         /\ currentKey(req)[2] * W <= now[req]
         /\ now[req] < currentKey(req)[2] * W + W
         /\ currentKey(req)[2] = bucket(now[req])
         /\ quota(req) \in Quotas
         /\ <<Subject(rule(req), req), bucket(now[req]) - 1>> \in Quotas
<1>1. /\ idx[req] \in RuleIdx
      /\ now[req] \in Nat
      /\ W > 0
      /\ W <= now[req]
      /\ now[req] <= MaxTime
      /\ W \in Nat
      /\ MaxTime \in Nat
  BY WindowFacts DEF Typed, Pending
<1> DEFINE p == keyPrefix(RuleList[idx[req]], req)
           P == {keyPrefix(RuleList[i], q) : i \in RuleIdx, q \in Requests}
           B == {bucket(t) : t \in 0..MaxTime}
           o == Subject(RuleList[idx[req]], req)
           O == {Subject(RuleList[i], q) : i \in RuleIdx, q \in Requests}
<1>2. p \in P
  BY <1>1
<1>3. bucket(now[req]) \in B
  BY <1>1
<1>4. bucket(now[req]) - 1 \in B
  <2>1. now[req] - W \in 0..MaxTime
    BY <1>1
  <2>2. bucket(now[req] - W) = bucket(now[req]) - 1
    BY <1>1, PreviousBucket DEF bucket
  <2> QED BY <2>1, <2>2
<1>5. Keys = P \X B /\ Quotas = O \X B
  BY DEF Keys, Prefixes, Quotas, Buckets
<1>6. currentKey(req) = <<p, bucket(now[req])>> /\ previousKey(req) = <<p, bucket(now[req]) - 1>>
  BY DEF currentKey, previousKey, rule
<1>7. /\ bucket(now[req]) \in Nat
      /\ bucket(now[req]) * W <= now[req]
      /\ now[req] < bucket(now[req]) * W + W
  BY <1>1, DivFacts DEF bucket
<1>8. o \in O
  BY <1>1
<1>9. quota(req) = <<o, bucket(now[req])>> /\ Subject(rule(req), req) = o
  BY DEF quota, rule
<1> HIDE DEF p, P, B, o, O
<1> QED BY <1>2, <1>3, <1>4, <1>5, <1>6, <1>7, <1>8, <1>9

LEMMA KeyTyped ==
  ASSUME NEW k \in Keys, W > 0
  PROVE  k[2] \in Nat
<1>1. PICK t \in 0..MaxTime : k[2] = bucket(t)
  BY DEF Keys, Buckets
<1> QED BY <1>1, DivFacts, WindowFacts DEF bucket

LEMMA ValueTyped ==
  ASSUME Typed, NEW k \in Keys
  PROVE  Value(k) \in Nat
  BY DEF Typed, Value

(* While a call may run, the counter of its key has lost nothing.          *)
LEMMA KeyIsWhole ==
  ASSUME IInv, NEW req \in Requests, pc[req] = "script", NEW i \in RuleIdx
  PROVE  /\ clock < currentKey(req)[2] * W + 2 * W
         /\ hits[i][currentKey(req)] <= Value(currentKey(req))
<1> DEFINE k == currentKey(req)
<1>1. /\ k \in Keys
      /\ k[2] \in Nat
      /\ now[req] < k[2] * W + W
  BY KeyFacts DEF IInv
<1>2. /\ clock \in Nat
      /\ now[req] \in Nat
      /\ clock <= now[req] + MaxDelay
  BY DEF IInv, Typed, Pending
<1> HIDE DEF k
<1>3. k[2] * W \in Nat
  BY <1>1, WindowFacts
<1>4. clock < k[2] * W + 2 * W
  BY <1>1, <1>2, <1>3, WindowFacts
<1>5. hits[i][k] <= counter[k] /\ (hits[i][k] > 0 => clock < expires[k])
  <2>1. expires[k] \in Nat
    BY <1>1 DEF IInv, Typed
  <2>2. hits[i][k] > 0 => expires[k] >= k[2] * W + 2 * W
    BY <1>1 DEF IInv, Alive
  <2>3. hits[i][k] > 0 => clock < expires[k]
    BY <1>2, <1>3, <1>4, <2>1, <2>2, WindowFacts
  <2>4. hits[i][k] <= counter[k]
    BY <1>1, <1>4 DEF IInv, Counted
  <2> QED BY <2>3, <2>4
<1>6. hits[i][k] \in Nat /\ counter[k] \in Nat
  BY <1>1 DEF IInv, Typed
<1>7. hits[i][k] <= Value(k)
  BY <1>5, <1>6 DEF Value
<1> QED BY <1>4, <1>7 DEF k

(* What one execution of the script does to Redis.                         *)
LEMMA ExecuteStep ==
  ASSUME IInv, NEW req \in Requests, Execute(req)
  PROVE  /\ counter' \in [Keys -> Nat]
         /\ expires' \in [Keys -> Nat]
         /\ hits' \in [RuleIdx -> [Keys -> Nat]]
         /\ Alive' /\ Counted' /\ Idle'
         /\ \A i \in RuleIdx, k \in Keys : hits[i][k] <= hits'[i][k]
         /\ hits'[idx[req]][currentKey(req)] = hits[idx[req]][currentKey(req)] + 1
         /\ spent' \in [RuleIdx -> [Quotas -> Nat]]
<1> DEFINE k == currentKey(req)
<1>1. pc[req] = "script"
  BY DEF Execute
<1>2. /\ k \in Keys
      /\ k[2] \in Nat
      /\ k[2] * W <= now[req]
  BY <1>1, KeyFacts DEF IInv
<1>3. /\ Value(k) \in Nat
      /\ \A i \in RuleIdx : hits[i][k] <= Value(k)
  BY <1>1, <1>2, ValueTyped, KeyIsWhole DEF IInv
<1>4. /\ idx[req] \in RuleIdx
      /\ W > 0
      /\ now[req] \in Nat
      /\ clock \in Nat
      /\ now[req] <= clock
  BY <1>1 DEF IInv, Typed, Pending
<1>5. /\ counter' = [counter EXCEPT ![k] = Value(k) + 1]
      /\ expires' = [expires EXCEPT ![k] = clock + ttlSeconds]
      /\ hits' = [hits EXCEPT ![idx[req]][k] = @ + 1]
      /\ clock' = clock
  BY DEF Execute
<1> HIDE DEF k
<1>6. /\ counter \in [Keys -> Nat]
      /\ expires \in [Keys -> Nat]
      /\ hits \in [RuleIdx -> [Keys -> Nat]]
  BY DEF IInv, Typed
<1>7. /\ counter' \in [Keys -> Nat]
      /\ expires' \in [Keys -> Nat]
      /\ hits' \in [RuleIdx -> [Keys -> Nat]]
  BY <1>2, <1>3, <1>4, <1>5, <1>6, WindowFacts
<1>8. \A i \in RuleIdx, q \in Keys :
        hits'[i][q] = IF i = idx[req] /\ q = k THEN hits[i][q] + 1 ELSE hits[i][q]
  BY <1>2, <1>4, <1>5, <1>6
<1>9. Alive'
  <2> SUFFICES ASSUME NEW i \in RuleIdx, NEW q \in Keys, hits'[i][q] > 0
               PROVE  expires'[q] >= q[2] * W + 2 * W
    BY DEF Alive
  <2>1. CASE q = k
    <3>1. expires'[q] = clock + ttlSeconds
      BY <1>2, <1>5, <1>6, <2>1
    <3>2. k[2] * W \in Nat
      BY <1>2, WindowFacts
    <3> QED BY <1>2, <1>4, <2>1, <3>1, <3>2, WindowFacts
  <2>2. CASE q # k
    <3>1. expires'[q] = expires[q] /\ hits'[i][q] = hits[i][q]
      BY <1>5, <1>6, <1>8, <2>2
    <3> QED BY <3>1 DEF IInv, Alive
  <2> QED BY <2>1, <2>2
<1>10. Counted'
  <2> SUFFICES ASSUME NEW i \in RuleIdx, NEW q \in Keys, clock' < q[2] * W + 2 * W
               PROVE  hits'[i][q] <= counter'[q]
    BY DEF Counted
  <2>1. CASE q = k
    <3>1. counter'[q] = Value(k) + 1
      BY <1>2, <1>5, <1>6, <2>1
    <3>2. hits'[i][q] <= hits[i][k] + 1 /\ hits[i][k] \in Nat
      BY <1>2, <1>6, <1>8, <2>1
    <3>3. hits'[i][q] \in Nat
      BY <1>7
    <3> QED BY <1>3, <3>1, <3>2, <3>3
  <2>2. CASE q # k
    <3>1. counter'[q] = counter[q] /\ hits'[i][q] = hits[i][q]
      BY <1>5, <1>6, <1>8, <2>2
    <3> QED BY <1>5, <3>1 DEF IInv, Counted
  <2> QED BY <2>1, <2>2
<1>11. Idle'
  BY <1>4, WindowFacts DEF Idle
<1>12. \A i \in RuleIdx, q \in Keys : hits[i][q] <= hits'[i][q]
  <2> TAKE i \in RuleIdx, q \in Keys
  <2>1. hits[i][q] \in Nat
    BY <1>6
  <2> QED BY <1>8, <2>1
<1>13. hits'[idx[req]][k] = hits[idx[req]][k] + 1
  BY <1>2, <1>4, <1>8
<1>14. spent' \in [RuleIdx -> [Quotas -> Nat]]
  <2>1. quota(req) \in Quotas /\ spent \in [RuleIdx -> [Quotas -> Nat]]
    BY <1>1, KeyFacts DEF IInv, Typed
  <2>2. spent' = [spent EXCEPT ![idx[req]][quota(req)] = @ + 1]
    BY DEF Execute
  <2> QED BY <1>4, <2>1, <2>2
<1> QED BY <1>7, <1>9, <1>10, <1>11, <1>12, <1>13, <1>14 DEF k

LEMMA InitIInv == Init => IInv
<1> SUFFICES ASSUME Init PROVE IInv
  OBVIOUS
<1>1. Typed
  BY WindowFacts, RateLimitAssumption DEF Init, Typed
<1>2. Pending
  BY DEF Init, Pending
<1>3. Alive /\ Idle
  BY DEF Init, Alive, Idle
<1>4. Counted
  BY DEF Init, Counted
<1>5. AdmittedBound
  <2>1. IsFiniteSet(results)
    BY FS_EmptySet DEF Init
  <2>2. \A i \in RuleIdx, k \in Keys : Cardinality(Admitted(i, k)) = 0
    BY FS_EmptySet DEF Init, Admitted
  <2>3. \A i \in RuleIdx, k \in Keys : hits[i][k] = 0
    BY DEF Init
  <2> QED BY <2>1, <2>2, <2>3, RuleFacts DEF AdmittedBound
<1> QED BY <1>1, <1>2, <1>3, <1>4, <1>5 DEF IInv

(* A step that leaves Redis and the results alone only moves one request.  *)
LEMMA QuietStep ==
  ASSUME IInv, UNCHANGED <<clock, counter, expires, hits, results>>
  PROVE  Alive' /\ Counted' /\ AdmittedBound' /\ Idle'
  BY DEF IInv, Alive, Counted, AdmittedBound, Idle, Admitted

LEMMA AdvanceStep ==
  ASSUME IInv, NEW req \in Requests, idx[req] \in RuleIdx, Advance(req), clock' = clock
  PROVE  /\ pc' \in [Requests -> {"rule", "script"}]
         /\ idx' \in [Requests -> 1..Len(RuleList) + 1]
         /\ now' \in [Requests -> Nat]
         /\ tries' \in [Requests -> 0..MaxTries]
         /\ Pending'
<1>1. /\ pc' \in [Requests -> {"rule", "script"}]
      /\ now' \in [Requests -> Nat]
  BY DEF IInv, Typed, Advance
<1>2. idx' \in [Requests -> 1..Len(RuleList) + 1]
  <2>1. Len(RuleList) \in Nat
    BY RateLimitAssumption
  <2>2. idx \in [Requests -> 1..Len(RuleList) + 1] /\ idx[req] \in 1..Len(RuleList)
    BY DEF IInv, Typed, RuleIdx
  <2> QED BY <2>1, <2>2 DEF Advance
<1>3. tries' \in [Requests -> 0..MaxTries]
  BY RateLimitAssumption DEF IInv, Typed, Advance
<1>4. Pending'
  BY DEF IInv, Typed, Pending, Advance
<1> QED BY <1>1, <1>2, <1>3, <1>4

LEMMA SkipStep ==
  ASSUME IInv, NEW req \in Requests, Skip(req) \/ Fail(req)
  PROVE  IInv'
<1>1. /\ idx[req] \in RuleIdx
      /\ Advance(req)
      /\ UNCHANGED <<clock, counter, expires, hits, spent, results>>
  BY DEF Skip, Fail, IInv, Pending
<1>2. Typed' /\ Pending'
  <2>1. Pending' /\ pc' \in [Requests -> {"rule", "script"}]
                 /\ idx' \in [Requests -> 1..Len(RuleList) + 1]
                 /\ now' \in [Requests -> Nat]
                 /\ tries' \in [Requests -> 0..MaxTries]
    BY <1>1, AdvanceStep
  <2> QED BY <1>1, <2>1 DEF IInv, Typed
<1> QED BY <1>1, <1>2, QuietStep DEF IInv

LEMMA ReadClockStep ==
  ASSUME IInv, NEW req \in Requests, ReadClock(req)
  PROVE  IInv'
<1>1. UNCHANGED <<clock, idx, tries, counter, expires, hits, spent, results>>
  BY DEF ReadClock
<1>2. Typed'
  BY <1>1 DEF IInv, Typed, ReadClock
<1>3. Pending'
  <2> SUFFICES ASSUME NEW q \in Requests, pc'[q] = "script"
               PROVE  /\ W > 0
                      /\ idx'[q] \in RuleIdx
                      /\ W <= now'[q]
                      /\ now'[q] <= clock'
                      /\ clock' <= now'[q] + MaxDelay
    BY DEF Pending
  <2>1. CASE q = req
    <3>1. W # 0
      BY DEF ReadClock, NotCounted
    <3>2. now'[q] = clock /\ clock' = clock /\ idx'[q] \in RuleIdx
      BY <1>1, <2>1 DEF ReadClock, IInv, Typed
    <3>3. clock \in Nat /\ W <= clock
      BY DEF IInv, Typed
    <3> QED BY <3>1, <3>2, <3>3, WindowFacts
  <2>2. CASE q # req
    <3>1. pc[q] = "script" /\ now'[q] = now[q]
      BY <2>2 DEF ReadClock, IInv, Typed
    <3> QED BY <1>1, <3>1 DEF IInv, Pending
  <2> QED BY <2>1, <2>2
<1> QED BY <1>1, <1>2, <1>3, QuietStep DEF IInv

LEMMA LostStep ==
  ASSUME IInv, NEW req \in Requests, ScriptLost(req)
  PROVE  IInv'
<1>1. /\ Execute(req)
      /\ tries' = [tries EXCEPT ![req] = @ + 1]
      /\ UNCHANGED <<pc, idx, now, results, clock>>
  BY DEF ScriptLost, Execute
<1>2. /\ counter' \in [Keys -> Nat]
      /\ expires' \in [Keys -> Nat]
      /\ hits' \in [RuleIdx -> [Keys -> Nat]]
      /\ spent' \in [RuleIdx -> [Quotas -> Nat]]
      /\ Alive' /\ Counted' /\ Idle'
      /\ \A i \in RuleIdx, k \in Keys : hits[i][k] <= hits'[i][k]
  BY <1>1, ExecuteStep
<1>3. tries' \in [Requests -> 0..MaxTries]
  <2>1. tries[req] < MaxTries /\ tries \in [Requests -> 0..MaxTries] /\ MaxTries \in Nat
    BY <1>1, RateLimitAssumption DEF Execute, IInv, Typed
  <2> QED BY <1>1, <2>1
<1>4. Typed'
  BY <1>1, <1>2, <1>3 DEF IInv, Typed
<1>5. Pending'
  BY <1>1 DEF IInv, Pending
<1>6. AdmittedBound'
  <2>1. IsFiniteSet(results')
    BY <1>1 DEF IInv, AdmittedBound
  <2>2. ASSUME NEW i \in RuleIdx, NEW k \in Keys
        PROVE  /\ Cardinality(Admitted(i, k)') <= hits'[i][k]
               /\ Cardinality(Admitted(i, k)') <= RuleList[i].limit
    <3>1. Admitted(i, k)' = Admitted(i, k)
      BY <1>1 DEF Admitted
    <3>2. IsFiniteSet(Admitted(i, k))
      BY FS_Subset DEF Admitted, IInv, AdmittedBound
    <3>3. Cardinality(Admitted(i, k)) \in Nat
      BY <3>2, FS_CardinalityType
    <3>4. hits[i][k] \in Nat /\ hits'[i][k] \in Nat
      BY <1>2 DEF IInv, Typed
    <3> QED BY <1>2, <3>1, <3>3, <3>4 DEF IInv, AdmittedBound
  <2> QED BY <2>1, <2>2 DEF AdmittedBound
<1> QED BY <1>2, <1>4, <1>5, <1>6 DEF IInv

LEMMA OneMore ==
  ASSUME NEW S, NEW x, IsFiniteSet(S)
  PROVE  /\ Cardinality(S \cup {x}) \in Nat
         /\ Cardinality(S \cup {x}) <= Cardinality(S) + 1
<1>1. Cardinality(S) \in Nat
  BY FS_CardinalityType
<1>2. Cardinality(S \cup {x}) = IF x \in S THEN Cardinality(S) ELSE Cardinality(S) + 1
  BY FS_AddElement
<1> QED BY <1>1, <1>2

(* One more admitted request: it was counted, and the count is in limit.   *)
LEMMA ScriptStep ==
  ASSUME IInv, NEW req \in Requests, Script(req)
  PROVE  IInv'
<1> DEFINE key == currentKey(req)
           cur == Value(key) + 1
           prev == Value(previousKey(req))
           allow == WithinLimit(cur, prev, now[req] % W, rule(req).limit)
           late == bucket(clock) # bucket(now[req])
           x == [req |-> req, rule |-> idx[req], key |-> key, now |-> now[req],
                 late |-> late, allow |-> allow]
<1>1. /\ Execute(req)
      /\ Advance(req)
      /\ results' = results \cup {x}
      /\ pc[req] = "script"
      /\ clock' = clock
  BY DEF Script, Execute
<1>2. /\ counter' \in [Keys -> Nat]
      /\ expires' \in [Keys -> Nat]
      /\ hits' \in [RuleIdx -> [Keys -> Nat]]
      /\ spent' \in [RuleIdx -> [Quotas -> Nat]]
      /\ Alive' /\ Counted' /\ Idle'
      /\ \A i \in RuleIdx, k \in Keys : hits[i][k] <= hits'[i][k]
      /\ hits'[idx[req]][key] = hits[idx[req]][key] + 1
  BY <1>1, ExecuteStep
<1>3. /\ idx[req] \in RuleIdx
      /\ W > 0
      /\ now[req] \in Nat
      /\ W \in Nat
  BY <1>1, WindowFacts DEF IInv, Typed, Pending
<1>4. key \in Keys /\ previousKey(req) \in Keys
  BY <1>1, KeyFacts DEF IInv
<1>5. /\ Value(key) \in Nat
      /\ prev \in Nat
      /\ hits[idx[req]][key] <= Value(key)
  BY <1>1, <1>3, <1>4, ValueTyped, KeyIsWhole DEF IInv
<1>6. allow => cur <= RuleList[idx[req]].limit
  <2>1. W - (now[req] % W) \in Nat
    BY <1>3, ModFacts
  <2>2. RuleList[idx[req]].limit \in Nat /\ cur \in Nat
    BY <1>3, <1>5, RuleFacts
  <2>3. ASSUME allow
        PROVE  cur * W + prev * (W - (now[req] % W)) <= RuleList[idx[req]].limit * W
    BY <2>3 DEF WithinLimit, rule
  <2> HIDE DEF cur, prev, allow
  <2> QED BY <1>3, <1>5, <2>1, <2>2, <2>3, EstimateBounds
<1>7. late \in BOOLEAN /\ allow \in BOOLEAN
  BY DEF WithinLimit
<1> HIDE DEF allow, late, cur, prev, key
<1>8. x \in Result
  BY <1>3, <1>4, <1>7 DEF Result
<1>9. x.rule = idx[req] /\ x.key = key /\ x.allow = allow
  OBVIOUS
<1> HIDE DEF x
<1>10. /\ Pending'
       /\ pc' \in [Requests -> {"rule", "script"}]
       /\ idx' \in [Requests -> 1..Len(RuleList) + 1]
       /\ now' \in [Requests -> Nat]
       /\ tries' \in [Requests -> 0..MaxTries]
  BY <1>1, <1>3, AdvanceStep
<1>11. Typed'
  BY <1>1, <1>2, <1>8, <1>10 DEF IInv, Typed
<1>12. AdmittedBound'
  <2>1. IsFiniteSet(results')
    BY <1>1, FS_AddElement DEF IInv, AdmittedBound
  <2>2. ASSUME NEW i \in RuleIdx, NEW k \in Keys
        PROVE  /\ Cardinality(Admitted(i, k)') <= hits'[i][k]
               /\ Cardinality(Admitted(i, k)') <= RuleList[i].limit
    <3>1. IsFiniteSet(Admitted(i, k))
      BY FS_Subset DEF Admitted, IInv, AdmittedBound
    <3>2. Cardinality(Admitted(i, k)) \in Nat
      BY <3>1, FS_CardinalityType
    <3>3. /\ hits[i][k] \in Nat
          /\ hits'[i][k] \in Nat
          /\ hits[i][k] <= hits'[i][k]
          /\ RuleList[i].limit \in Nat
      BY <1>2, RuleFacts DEF IInv, Typed
    <3>4. /\ Cardinality(Admitted(i, k)) <= hits[i][k]
          /\ Cardinality(Admitted(i, k)) <= RuleList[i].limit
      BY DEF IInv, AdmittedBound
    <3>5. CASE i = idx[req] /\ k = key /\ allow
      <4>1. Admitted(i, k)' = Admitted(i, k) \cup {x}
        BY <1>1, <1>9, <3>5 DEF Admitted
      <4>2. Cardinality(Admitted(i, k)') <= Cardinality(Admitted(i, k)) + 1
            /\ Cardinality(Admitted(i, k)') \in Nat
        BY <3>1, <4>1, OneMore
      <4>3. hits'[i][k] = hits[i][k] + 1 /\ hits[i][k] + 1 <= RuleList[i].limit
        BY <1>2, <1>5, <1>6, <3>3, <3>5 DEF cur
      <4> QED BY <3>2, <3>3, <3>4, <4>2, <4>3
    <3>6. CASE ~(i = idx[req] /\ k = key /\ allow)
      <4>1. Admitted(i, k)' = Admitted(i, k)
        BY <1>1, <1>9, <3>6 DEF Admitted
      <4> QED BY <3>2, <3>3, <3>4, <4>1
    <3> QED BY <3>5, <3>6
  <2> QED BY <2>1, <2>2 DEF AdmittedBound
<1> QED BY <1>2, <1>10, <1>11, <1>12 DEF IInv

LEMMA TickStep ==
  ASSUME IInv, Tick
  PROVE  IInv'
<1>1. /\ clock' = clock + 1
      /\ clock < MaxTime
      /\ clock \in Nat
      /\ UNCHANGED <<pc, idx, now, tries, counter, expires, hits, spent, results>>
  BY DEF Tick, IInv, Typed
<1>2. Typed'
  BY <1>1, WindowFacts DEF IInv, Typed
<1>3. Pending'
  <2> SUFFICES ASSUME NEW q \in Requests, pc[q] = "script"
               PROVE  now[q] <= clock + 1 /\ clock + 1 <= now[q] + MaxDelay
    BY <1>1 DEF IInv, Pending
  <2>1. clock < now[q] + MaxDelay /\ now[q] \in Nat /\ now[q] <= clock
    BY DEF Tick, IInv, Typed, Pending
  <2> QED BY <1>1, <2>1, WindowFacts
<1>4. Counted'
  <2> SUFFICES ASSUME NEW i \in RuleIdx, NEW k \in Keys, clock + 1 < k[2] * W + 2 * W
               PROVE  hits[i][k] <= counter[k]
    BY <1>1 DEF Counted
  <2>1. CASE W = 0
    BY <2>1 DEF IInv, Idle, Typed
  <2>2. CASE W > 0
    <3>1. k[2] * W \in Nat
      BY <2>2, KeyTyped, WindowFacts
    <3>2. clock < k[2] * W + 2 * W
      BY <1>1, <3>1, WindowFacts
    <3> QED BY <3>2 DEF IInv, Counted
  <2> QED BY <2>1, <2>2, WindowFacts
<1>5. Alive' /\ AdmittedBound' /\ Idle'
  BY <1>1 DEF IInv, Alive, AdmittedBound, Idle, Admitted
<1> QED BY <1>2, <1>3, <1>4, <1>5 DEF IInv

LEMMA NextIInv == IInv /\ [Next]_vars => IInv'
<1> SUFFICES ASSUME IInv, [Next]_vars PROVE IInv'
  OBVIOUS
<1>1. ASSUME NEW req \in Requests, Skip(req) \/ Fail(req) PROVE IInv'
  BY <1>1, SkipStep
<1>2. ASSUME NEW req \in Requests, ReadClock(req) PROVE IInv'
  BY <1>2, ReadClockStep
<1>3. ASSUME NEW req \in Requests, ScriptLost(req) PROVE IInv'
  BY <1>3, LostStep
<1>4. ASSUME NEW req \in Requests, Script(req) PROVE IInv'
  BY <1>4, ScriptStep
<1>5. CASE Tick
  BY <1>5, TickStep
<1>6. CASE UNCHANGED vars
  BY <1>6 DEF vars, IInv, Typed, Pending, Alive, Counted, AdmittedBound, Idle, Admitted
<1> QED BY <1>1, <1>2, <1>3, <1>4, <1>5, <1>6 DEF Next

(* Spec keeps the inductive invariant.                                     *)
THEOREM RateLimitInvariant == Spec => []IInv
  BY InitIInv, NextIInv, PTL DEF Spec

(* Type correctness of the rate limit for every window, rule list and      *)
(* set of requests.                                                        *)
THEOREM RateLimitTypeOK == Spec => []TypeOK
<1>1. IInv => TypeOK
  BY DEF IInv, Typed, TypeOK
<1> QED BY <1>1, RateLimitInvariant, PTL

(* For every window of whole or broken seconds, the two-window expiry that *)
(* the script sets keeps each counter as long as an estimate reads it.     *)
THEOREM RateLimitKeysOutliveTheirUse == Spec => []KeysOutliveTheirUse
<1>1. IInv => KeysOutliveTheirUse
  <2> SUFFICES ASSUME IInv, NEW k \in Keys, NEW i \in RuleIdx,
                      k[2] + 1 >= bucket(clock)
               PROVE  hits[i][k] <= Value(k)
    BY DEF KeysOutliveTheirUse
  <2>1. /\ Value(k) \in Nat
        /\ hits[i][k] \in Nat
        /\ clock \in Nat
        /\ expires[k] \in Nat
    BY ValueTyped DEF IInv, Typed
  <2>2. CASE W = 0
    BY <2>1, <2>2 DEF IInv, Idle
  <2>3. CASE W > 0
    <3>1. /\ k[2] \in Nat
          /\ bucket(clock) \in Nat
          /\ clock < bucket(clock) * W + W
      BY <2>1, <2>3, KeyTyped, DivFacts, WindowFacts DEF bucket
    <3>2. bucket(clock) * W <= (k[2] + 1) * W
      BY <3>1, MultMonotone, WindowFacts
    <3>3. (k[2] + 1) * W = k[2] * W + W
      BY <3>1, WindowFacts
    <3>4. k[2] * W \in Nat /\ bucket(clock) * W \in Nat
      BY <3>1, WindowFacts
    <3>5. clock < k[2] * W + 2 * W
      BY <2>1, <3>1, <3>2, <3>3, <3>4, WindowFacts
    <3>6. hits[i][k] > 0 => clock < expires[k]
      BY <2>1, <3>4, <3>5, WindowFacts DEF IInv, Alive
    <3>7. hits[i][k] <= counter[k]
      BY <3>5 DEF IInv, Counted
    <3> QED BY <2>1, <3>6, <3>7 DEF Value
  <2> QED BY <2>2, <2>3, WindowFacts
<1> QED BY <1>1, RateLimitInvariant, PTL

(* For every limit, window and number of concurrent requests, and however  *)
(* often scripts are sent again, a rule admits at most limit requests of   *)
(* one key in one bucket.                                                  *)
THEOREM RateLimitBucketBound == Spec => []BucketBound
<1>1. IInv => BucketBound
  BY DEF IInv, AdmittedBound, BucketBound
<1> QED BY <1>1, RateLimitInvariant, PTL
----------------------------------------------------------------------------
(* The border of two buckets.                                              *)

(* A result carries the clock its call read, and the key of that bucket.   *)
Dated ==
  \A x \in results :
    /\ W > 0
    /\ W <= x.now
    /\ x.now <= clock
    /\ x.key[2] = bucket(x.now)

(* Requests admitted in their own bucket, and in its first e + 1 seconds.  *)
Timely(i, k) == {x \in Admitted(i, k) : ~x.late}
Early(i, k, e) == {x \in Timely(i, k) : x.now % W <= e}

(* Those admitted up to second e respect the estimate of second e: the     *)
(* previous bucket is complete by then and weighs least in that second.    *)
Smooth ==
  \A i \in RuleIdx, k \in Keys : \A e \in 0..W - 1 :
    Early(i, k, e) # {} =>
      Cardinality(Early(i, k, e)) * W
        + Cardinality(Timely(i, <<k[1], k[2] - 1>>)) * (W - e) <= RuleList[i].limit * W

BorderInv == Dated /\ Smooth

LEMMA TimelyFacts ==
  ASSUME IInv, NEW i \in RuleIdx, NEW k
  PROVE  /\ IsFiniteSet(Timely(i, k))
         /\ Cardinality(Timely(i, k)) \in Nat
         /\ IsFiniteSet(Admitted(i, k))
         /\ Cardinality(Timely(i, k)) <= Cardinality(Admitted(i, k))
         /\ Cardinality(Admitted(i, k)) \in Nat
<1>1. IsFiniteSet(Admitted(i, k))
  BY FS_Subset DEF Admitted, IInv, AdmittedBound
<1>2. Timely(i, k) \subseteq Admitted(i, k)
  BY DEF Timely
<1>3. /\ IsFiniteSet(Timely(i, k))
      /\ Cardinality(Timely(i, k)) <= Cardinality(Admitted(i, k))
  BY <1>1, <1>2, FS_Subset
<1> QED BY <1>1, <1>3, FS_CardinalityType

LEMMA EarlyFacts ==
  ASSUME IInv, NEW i \in RuleIdx, NEW k, NEW e
  PROVE  /\ IsFiniteSet(Early(i, k, e))
         /\ Cardinality(Early(i, k, e)) \in Nat
         /\ Cardinality(Early(i, k, e)) <= Cardinality(Admitted(i, k))
<1>1. /\ IsFiniteSet(Admitted(i, k))
      /\ Early(i, k, e) \subseteq Admitted(i, k)
  BY TimelyFacts DEF Early, Timely
<1>2. /\ IsFiniteSet(Early(i, k, e))
      /\ Cardinality(Early(i, k, e)) <= Cardinality(Admitted(i, k))
  BY <1>1, FS_Subset
<1> QED BY <1>2, FS_CardinalityType

(* In the bucket of its clock reading, a call sees all of the previous one.*)
LEMMA PreviousIsWhole ==
  ASSUME IInv, NEW req \in Requests, pc[req] = "script", NEW i \in RuleIdx,
         bucket(clock) = bucket(now[req])
  PROVE  hits[i][previousKey(req)] <= Value(previousKey(req))
<1> DEFINE k == previousKey(req)
<1>1. /\ k \in Keys
      /\ k[2] = currentKey(req)[2] - 1
      /\ currentKey(req)[2] = bucket(now[req])
  BY KeyFacts DEF IInv, currentKey, previousKey
<1>2. /\ clock \in Nat
      /\ now[req] \in Nat
      /\ W > 0
      /\ W \in Nat
  BY WindowFacts DEF IInv, Typed, Pending
<1>3. /\ hits[i][k] \in Nat
      /\ counter[k] \in Nat
      /\ expires[k] \in Nat
  BY <1>1 DEF IInv, Typed
<1>4. /\ k[2] \in Nat
      /\ k[2] + 1 = bucket(clock)
      /\ clock < bucket(clock) * W + W
  BY <1>1, <1>2, KeyTyped, DivFacts DEF bucket
<1> HIDE DEF k
<1>5. clock < k[2] * W + 2 * W /\ k[2] * W \in Nat
  BY <1>2, <1>4
<1>6. hits[i][k] <= counter[k]
  BY <1>1, <1>5 DEF IInv, Counted
<1>7. hits[i][k] > 0 => expires[k] >= k[2] * W + 2 * W
  BY <1>1 DEF IInv, Alive
<1>8. hits[i][k] > 0 => clock < expires[k]
  BY <1>2, <1>3, <1>5, <1>7
<1> QED BY <1>3, <1>6, <1>8 DEF Value, k

LEMMA Weighed ==
  ASSUME NEW b \in Nat, NEW a \in Nat, NEW c \in Nat, NEW p \in Nat,
         NEW V \in Nat, NEW d \in Nat, NEW f \in Nat, NEW m \in Nat,
         b <= c, a <= p, d <= f, c * V + p * f <= m
  PROVE  b * V + a * d <= m
<1>1. b * V <= c * V
  BY MultMonotone
<1>2. a * d <= p * d
  BY MultMonotone
<1>3. d * p <= f * p
  BY MultMonotone
<1>4. a * d \in Nat /\ p * d = d * p /\ p * f = f * p /\ b * V \in Nat
  OBVIOUS
<1> QED BY <1>1, <1>2, <1>3, <1>4

LEMMA ScriptBorder ==
  ASSUME IInv, BorderInv, NEW req \in Requests, Script(req)
  PROVE  BorderInv'
<1> DEFINE key == currentKey(req)
           pkey == previousKey(req)
           j == idx[req]
           cur == Value(key) + 1
           prev == Value(pkey)
           el == now[req] % W
           allow == WithinLimit(cur, prev, el, rule(req).limit)
           late == bucket(clock) # bucket(now[req])
           x == [req |-> req, rule |-> j, key |-> key, now |-> now[req],
                 late |-> late, allow |-> allow]
<1>1. /\ results' = results \cup {x}
      /\ pc[req] = "script"
      /\ clock' = clock
      /\ clock \in Nat
  BY DEF Script, Execute, IInv, Typed
<1>2. /\ j \in RuleIdx
      /\ W > 0
      /\ W \in Nat
      /\ now[req] \in Nat
      /\ W <= now[req]
      /\ now[req] <= clock
      /\ el \in Nat
      /\ el < W
  BY <1>1, WindowFacts, ModFacts DEF IInv, Typed, Pending
<1>3. /\ key \in Keys
      /\ pkey \in Keys
      /\ key[2] = bucket(now[req])
      /\ pkey = <<key[1], key[2] - 1>>
  <2>1. key \in Keys /\ pkey \in Keys /\ key[2] = bucket(now[req])
    BY <1>1, KeyFacts DEF IInv
  <2>2. pkey = <<key[1], key[2] - 1>>
    BY DEF currentKey, previousKey
  <2> QED BY <2>1, <2>2
<1>4. allow => cur * W + prev * (W - el) <= RuleList[j].limit * W
  BY DEF WithinLimit, rule
<1>5. /\ Value(key) \in Nat
      /\ prev \in Nat
      /\ hits[j][key] <= Value(key)
      /\ hits[j][key] \in Nat
      /\ hits[j][pkey] \in Nat
      /\ ~late => hits[j][pkey] <= prev
  BY <1>1, <1>2, <1>3, ValueTyped, KeyIsWhole, PreviousIsWhole DEF IInv, Typed
<1>6. /\ x.rule = j
      /\ x.key = key
      /\ x.now = now[req]
      /\ x.late = late
      /\ x.allow = allow
  OBVIOUS
<1>7. ~late => bucket(clock) = key[2]
  BY <1>3
<1> HIDE DEF allow, late, cur, prev, key, pkey, x, el
<1>8. Dated'
  BY <1>1, <1>2, <1>3, <1>6 DEF BorderInv, Dated
<1>9. Smooth'
  <2> SUFFICES ASSUME NEW i \in RuleIdx, NEW k \in Keys, NEW e \in 0..W - 1,
                      Early(i, k, e)' # {}
               PROVE  Cardinality(Early(i, k, e)') * W
                        + Cardinality(Timely(i, <<k[1], k[2] - 1>>)') * (W - e)
                          <= RuleList[i].limit * W
    BY DEF Smooth
  <2> DEFINE l == <<k[1], k[2] - 1>>
  <2>0. e \in Nat /\ e < W /\ k[2] \in Nat
    BY <1>2, KeyTyped
  <2>1. CASE i = j /\ k = key /\ allow /\ ~late /\ el <= e
    <3>1. Early(i, k, e)' = Early(i, k, e) \cup {x}
      BY <1>1, <1>6, <2>1 DEF Early, Timely, Admitted, el
    <3>2. Timely(i, l)' = Timely(i, l)
      BY <1>1, <1>6, <2>0, <2>1 DEF Timely, Admitted
    <3>3. /\ Cardinality(Early(i, k, e)') \in Nat
          /\ Cardinality(Early(i, k, e)') <= Cardinality(Early(i, k, e)) + 1
          /\ Cardinality(Early(i, k, e)) \in Nat
          /\ Cardinality(Early(i, k, e)) <= Cardinality(Admitted(i, k))
      BY <3>1, EarlyFacts, OneMore
    <3>4. Cardinality(Admitted(i, k)) <= hits[i][k] /\ Cardinality(Admitted(i, k)) \in Nat
      BY TimelyFacts DEF IInv, AdmittedBound
    <3>5. Cardinality(Early(i, k, e)') <= cur
      BY <1>5, <2>1, <3>3, <3>4 DEF cur
    <3>6. l = pkey
      BY <1>3, <2>1
    <3>7. /\ Cardinality(Timely(i, l)) \in Nat
          /\ Cardinality(Timely(i, l)) <= Cardinality(Admitted(i, l))
          /\ Cardinality(Admitted(i, l)) \in Nat
          /\ Cardinality(Admitted(i, l)) <= hits[i][l]
      BY <1>3, <3>6, TimelyFacts DEF IInv, AdmittedBound
    <3>8. Cardinality(Timely(i, l)) <= prev
      BY <1>5, <2>1, <3>6, <3>7
    <3>9. /\ W - e \in Nat
          /\ W - el \in Nat
          /\ W - e <= W - el
          /\ cur \in Nat
          /\ RuleList[i].limit * W \in Nat
      BY <1>2, <1>5, <2>0, <2>1, RuleFacts DEF cur
    <3>10. cur * W + prev * (W - el) <= RuleList[i].limit * W
      BY <1>4, <2>1
    <3> DEFINE b == Cardinality(Early(i, k, e)')
               a == Cardinality(Timely(i, l))
               m == RuleList[i].limit * W
    <3>11. b \in Nat /\ a \in Nat /\ b <= cur /\ a <= prev /\ m \in Nat
      BY <3>3, <3>5, <3>7, <3>8, <3>9
    <3> HIDE DEF b, a, m
    <3>12. b * W + a * (W - e) <= m
      BY <1>2, <1>5, <3>9, <3>10, <3>11, Weighed DEF m
    <3> QED BY <3>2, <3>12 DEF b, a, m
  <2>2. CASE ~(i = j /\ k = key /\ allow /\ ~late /\ el <= e)
    <3>1. Early(i, k, e)' = Early(i, k, e)
      BY <1>1, <1>6, <2>2 DEF Early, Timely, Admitted, el
    <3>2. PICK y \in results : y.key = k
      BY <3>1 DEF Early, Timely, Admitted
    <3>3. /\ y.now \in Nat
          /\ y.now <= clock
          /\ k[2] = bucket(y.now)
      BY <3>2 DEF BorderInv, Dated, IInv, Typed, Result
    <3>4. k[2] <= bucket(clock)
      <4>1. /\ k[2] \in Nat
            /\ bucket(clock) \in Nat
            /\ k[2] * W <= y.now
            /\ clock < bucket(clock) * W + W
        BY <1>1, <1>2, <3>3, DivFacts DEF bucket
      <4>2. SUFFICES ASSUME bucket(clock) + 1 <= k[2] PROVE FALSE
        BY <4>1
      <4>3. (bucket(clock) + 1) * W <= k[2] * W
        BY <1>2, <4>1, <4>2, MultMonotone
      <4> QED BY <1>1, <1>2, <3>3, <4>1, <4>3
    <3>5. ~(key = l /\ ~late)
      BY <1>7, <2>0, <3>4
    <3>6. Timely(i, l)' = Timely(i, l)
      BY <1>1, <1>6, <3>5 DEF Timely, Admitted
    <3> QED BY <3>1, <3>6 DEF BorderInv, Smooth
  <2> QED BY <2>1, <2>2
<1> QED BY <1>8, <1>9 DEF BorderInv

LEMMA NextBorder == IInv /\ BorderInv /\ [Next]_vars => BorderInv'
<1> SUFFICES ASSUME IInv, BorderInv, [Next]_vars PROVE BorderInv'
  OBVIOUS
<1>1. ASSUME NEW req \in Requests, Script(req) PROVE BorderInv'
  BY <1>1, ScriptBorder
<1>2. CASE results' = results /\ (clock' = clock \/ clock' = clock + 1)
  <2>1. Dated'
    <3> SUFFICES ASSUME NEW x \in results
                 PROVE  W > 0 /\ W <= x.now /\ x.now <= clock' /\ x.key[2] = bucket(x.now)
      BY <1>2 DEF Dated
    <3>1. /\ W > 0
          /\ W <= x.now
          /\ x.now <= clock
          /\ x.key[2] = bucket(x.now)
      BY DEF BorderInv, Dated
    <3>2. x.now \in Nat /\ clock \in Nat
      BY DEF IInv, Typed, Result
    <3> QED BY <1>2, <3>1, <3>2
  <2>2. Smooth'
    BY <1>2 DEF BorderInv, Smooth, Early, Timely, Admitted
  <2> QED BY <2>1, <2>2 DEF BorderInv
<1>3. ASSUME NEW req \in Requests, Skip(req) \/ ReadClock(req) \/ ScriptLost(req) \/ Fail(req)
      PROVE  results' = results /\ clock' = clock
  BY <1>3 DEF Skip, ReadClock, ScriptLost, Execute, Fail
<1>4. CASE Tick \/ UNCHANGED vars
  BY <1>2, <1>4 DEF Tick, vars
<1> QED BY <1>1, <1>2, <1>3, <1>4 DEF Next

(* The arithmetic of a window across a border: b requests after it and a   *)
(* before it, in a bucket that still weighs at least two seconds.          *)
LEMMA AcrossBorder ==
  ASSUME NEW a \in Nat, NEW b \in Nat, NEW V \in Nat, NEW m \in Nat, NEW f \in Nat,
         2 <= f, 2 <= V, a <= m, b * V + a * f <= m * V
  PROVE  (a + b) * V <= 2 * m * (V - 1)
<1>1. 2 * a <= f * a
  BY MultMonotone
<1>2. a * (V - 2) <= m * (V - 2)
  BY MultMonotone
<1>3. a * f = f * a /\ a * f \in Nat /\ b * V \in Nat /\ m * V \in Nat
  OBVIOUS
<1>4. b * V + 2 * a <= m * V
  BY <1>1, <1>3
<1>5. a * (V - 2) = a * V - 2 * a /\ m * (V - 2) = m * V - 2 * m
  OBVIOUS
<1>6. (a + b) * V = a * V + b * V /\ 2 * m * (V - 1) = m * V + m * V - 2 * m
  OBVIOUS
<1> QED BY <1>2, <1>3, <1>4, <1>5, <1>6

(* A window that starts at s ends in the next bucket, before the second of *)
(* that bucket that s has in its own.                                      *)
LEMMA WindowSpan ==
  ASSUME NEW s \in Nat, NEW t \in Nat, NEW V \in Nat, V > 0, s <= t, t <= s + V - 1
  PROVE  \/ t \div V = s \div V
         \/ t \div V = s \div V + 1 /\ t % V < s % V
<1> DEFINE b == s \div V
           c == t \div V
           f == s % V
           g == t % V
<1>1. /\ b \in Nat
      /\ c \in Nat
      /\ f \in Nat
      /\ g \in Nat
      /\ f < V
      /\ g < V
      /\ s = b * V + f
      /\ t = c * V + g
  OBVIOUS
<1> HIDE DEF b, c, f, g
<1>2. b * V \in Nat /\ c * V \in Nat
  BY <1>1
<1>3. b <= c
  <2>1. SUFFICES ASSUME c + 1 <= b PROVE FALSE
    BY <1>1
  <2>2. (c + 1) * V <= b * V
    BY <1>1, <2>1, MultMonotone
  <2>3. (c + 1) * V = c * V + V
    BY <1>1
  <2> QED BY <1>1, <1>2, <2>2, <2>3
<1>4. c <= b + 1
  <2>1. SUFFICES ASSUME b + 2 <= c PROVE FALSE
    BY <1>1
  <2>2. (b + 2) * V <= c * V
    BY <1>1, <2>1, MultMonotone
  <2>3. (b + 2) * V = b * V + 2 * V
    BY <1>1
  <2> QED BY <1>1, <1>2, <2>2, <2>3
<1>5. ASSUME c = b + 1 PROVE g < f
  <2>1. c * V = b * V + V
    BY <1>1, <1>5
  <2> QED BY <1>1, <1>2, <2>1
<1> QED BY <1>1, <1>3, <1>4, <1>5 DEF b, c, f, g

LEMMA BorderSlides ==
  ASSUME IInv, BorderInv, NEW i \in RuleIdx, NEW p \in Prefixes, NEW s \in 0..MaxTime,
         NEW S, S = {x \in results : /\ x.rule = i /\ x.key[1] = p /\ x.allow
                                     /\ x.now \in s..s + W - 1},
         \A x \in S : ~x.late
  PROVE  \/ Cardinality(S) <= RuleList[i].limit
         \/ Cardinality(S) * W <= 2 * RuleList[i].limit * (W - 1)
<1> DEFINE m == RuleList[i].limit
<1>1. m \in Nat /\ W \in Nat /\ s \in Nat
  BY RuleFacts, WindowFacts
<1>2. CASE S = {}
  <2>1. Cardinality(S) = 0
    BY <1>2, FS_EmptySet
  <2> QED BY <1>1, <2>1
<1>3. CASE S # {}
  <2>1. W > 0
    BY <1>3 DEF BorderInv, Dated
  <2> DEFINE b == s \div W
             f == s % W
             own == <<p, b>>
             next == <<p, b + 1>>
             B == {x \in S : x.key[2] = b + 1}
  <2>2. /\ b \in Nat
        /\ f \in Nat
        /\ f < W
    BY <1>1, <2>1, DivFacts, ModFacts
  <2>3. own \in Keys
    BY DEF Keys, Buckets, bucket
  <2>4. ASSUME NEW x \in S
        PROVE  /\ x \in Admitted(i, x.key) /\ ~x.late
               /\ x.key \in Keys
               /\ \/ x.key = own
                  \/ x.key = next /\ x.key[2] = b + 1 /\ x.now % W <= f - 1 /\ f > 0
    <3>1. /\ x \in results
          /\ x.rule = i
          /\ x.key[1] = p
          /\ x.allow
          /\ ~x.late
          /\ x.key[2] = x.now \div W
      BY DEF BorderInv, Dated, bucket
    <3>2. x.now \in Nat /\ x.key \in Keys
      BY <3>1 DEF IInv, Typed, Result
    <3>3. s <= x.now /\ x.now <= s + W - 1
      BY <1>1, <3>2
    <3>4. \/ x.key[2] = b
          \/ x.key[2] = b + 1 /\ x.now % W < f
      BY <1>1, <2>1, <3>1, <3>2, <3>3, WindowSpan
    <3>5. x.key = <<x.key[1], x.key[2]>>
      BY <3>2 DEF Keys
    <3>6. x.now % W \in Nat
      BY <1>1, <2>1, <3>2, ModFacts
    <3>7. x.now % W < f => x.now % W <= f - 1 /\ f > 0
      BY <2>2, <3>6
    <3> QED BY <3>1, <3>2, <3>4, <3>5, <3>7 DEF Admitted
  <2> HIDE DEF f, b
  <2>5. /\ IsFiniteSet(Timely(i, own))
        /\ Cardinality(Timely(i, own)) \in Nat
        /\ IsFiniteSet(Admitted(i, own))
        /\ Cardinality(Timely(i, own)) <= m
        /\ Cardinality(Admitted(i, own)) <= m
        /\ Cardinality(Admitted(i, own)) \in Nat
    <3>1. Cardinality(Admitted(i, own)) <= m
      BY <2>3 DEF IInv, AdmittedBound
    <3> HIDE DEF own, m
    <3> QED BY <1>1, <3>1, TimelyFacts
  <2>6. CASE B = {}
    <3>1. S \subseteq Admitted(i, own)
      BY <2>2, <2>4, <2>6
    <3>2. Cardinality(S) <= Cardinality(Admitted(i, own)) /\ Cardinality(S) \in Nat
      BY <2>5, <3>1, FS_Subset, FS_CardinalityType
    <3> QED BY <1>1, <2>5, <3>2
  <2>7. CASE B # {}
    <3> DEFINE e == f - 1
    <3>1. PICK y \in S : y.key[2] = b + 1
      BY <2>7
    <3>2. y.key = next /\ next \in Keys /\ f > 0
      BY <2>2, <2>4, <3>1
    <3>3. e \in 0..W - 1 /\ e \in Nat /\ W - e \in Nat /\ 2 <= W - e /\ 2 <= W
      BY <1>1, <2>2, <3>2
    <3>4. S \subseteq Timely(i, own) \cup Early(i, next, e)
      BY <2>4 DEF Timely, Early
    <3>5. Early(i, next, e) # {}
      <4>1. y \in Early(i, next, e)
        BY <2>2, <2>4, <3>1, <3>2 DEF Timely, Early
      <4> QED BY <4>1
    <3>6. Cardinality(Early(i, next, e)) * W
            + Cardinality(Timely(i, <<next[1], next[2] - 1>>)) * (W - e) <= m * W
      <4> HIDE DEF e, next
      <4> QED BY <3>2, <3>3, <3>5 DEF BorderInv, Smooth
    <3>7. <<next[1], next[2] - 1>> = own
      BY <2>2
    <3>8. IsFiniteSet(Early(i, next, e)) /\ Cardinality(Early(i, next, e)) \in Nat
      BY EarlyFacts
    <3> DEFINE T == Timely(i, own)
               E == Early(i, next, e)
    <3> HIDE DEF T, E, own, next, e, m
    <3>9. /\ IsFiniteSet(T)
          /\ IsFiniteSet(E)
          /\ S \subseteq T \cup E
          /\ Cardinality(T) \in Nat
          /\ Cardinality(E) \in Nat
          /\ Cardinality(T) <= m
      BY <2>5, <3>4, <3>8 DEF T, E
    <3>10. Cardinality(E) * W + Cardinality(T) * (W - e) <= m * W
      BY <3>6, <3>7 DEF T, E
    <3>11. /\ IsFiniteSet(T \cup E)
           /\ Cardinality(T \cup E) <= Cardinality(T) + Cardinality(E)
      <4>1. /\ IsFiniteSet(T \cup E)
            /\ Cardinality(T \cup E) = Cardinality(T) + Cardinality(E) - Cardinality(T \cap E)
        BY <3>9, FS_Union
      <4>2. Cardinality(T \cap E) \in Nat
        BY <3>9, FS_Intersection, FS_CardinalityType
      <4> QED BY <3>9, <4>1, <4>2
    <3>12. /\ Cardinality(S) \in Nat
           /\ Cardinality(S) <= Cardinality(T) + Cardinality(E)
      <4>1. IsFiniteSet(S) /\ Cardinality(S) <= Cardinality(T \cup E)
        BY <3>9, <3>11, FS_Subset
      <4>2. Cardinality(S) \in Nat /\ Cardinality(T \cup E) \in Nat
        BY <3>11, <4>1, FS_CardinalityType
      <4> QED BY <3>9, <3>11, <4>1, <4>2
    <3>13. (Cardinality(T) + Cardinality(E)) * W <= 2 * m * (W - 1)
      BY <1>1, <3>3, <3>9, <3>10, AcrossBorder
    <3>14. Cardinality(S) * W <= (Cardinality(T) + Cardinality(E)) * W
      BY <1>1, <3>9, <3>12, MultMonotone
    <3>15. /\ Cardinality(S) * W \in Nat
           /\ (Cardinality(T) + Cardinality(E)) * W \in Nat
           /\ 2 * m * (W - 1) \in Int
      BY <1>1, <3>9, <3>12
    <3>16. Cardinality(S) * W <= 2 * m * (W - 1)
      BY <3>13, <3>14, <3>15
    <3> QED BY <3>16 DEF m
  <2> QED BY <2>6, <2>7
<1> QED BY <1>2, <1>3

(* For every window, limit and interleaving of calls and seconds: the      *)
(* weighted count of the two buckets keeps any windowSeconds seconds at    *)
(* most at 2 * limit * (windowSeconds - 1) / windowSeconds, so long as     *)
(* each request was counted in the bucket of its clock reading.            *)
THEOREM RateLimitSlidingBound == Spec => []SlidingBound
<1>1. Init => BorderInv
  BY FS_EmptySet DEF Init, BorderInv, Dated, Smooth, Early, Timely, Admitted
<1>2. IInv /\ BorderInv /\ [Next]_vars => BorderInv'
  BY NextBorder
<1>3. IInv /\ BorderInv => SlidingBound
  BY BorderSlides DEF SlidingBound
<1> QED BY <1>1, <1>2, <1>3, RateLimitInvariant, PTL DEF Spec
----------------------------------------------------------------------------
(* Rules with keys of their own.                                           *)

(* The rule's action is the request's: it is counted.                      *)
Counts(i, q) == RuleList[i].action \in {AnyAction, ActionOf[q]}

Matching == \A q \in Requests : pc[q] = "script" => Counts(idx[q], q)

(* A counter holds no more than the executions of the rule that owns it,   *)
(* for the one subject that has its key.                                   *)
Own ==
  \A i \in RuleIdx, q \in Requests, k \in Keys :
    Counts(i, q) /\ k[1] = keyPrefix(RuleList[i], q) =>
      counter[k] <= spent[i][<<Subject(RuleList[i], q), k[2]>>]

(* What RefusedOverLimit says of one result, and that its two quotas exist.*)
OverQuota(x) ==
  LET i == x.rule
      cur == <<Subject(RuleList[i], x.req), x.key[2]>>
      prev == <<Subject(RuleList[i], x.req), x.key[2] - 1>>
  IN  /\ cur \in Quotas
      /\ prev \in Quotas
      /\ spent[i][cur] + spent[i][prev] > RuleList[i].limit

Refused == \A x \in results : ~x.allow => OverQuota(x)

QuotaInv == Matching /\ Own /\ Refused

LEMMA RuleTyped ==
  ASSUME NEW i \in RuleIdx
  PROVE  /\ RuleList[i].scope \in {"actor", "actor+action", "global"}
         /\ RuleList[i].action \in Actions \cup {AnyAction}
<1> DEFINE R == [scope : {"actor", "actor+action", "global"},
                 action : Actions \cup {AnyAction}, limit : Nat \ {0}]
<1>1. RuleList \in Seq(R)
  BY RateLimitAssumption
<1>2. \A r \in R : /\ r.scope \in {"actor", "actor+action", "global"}
                   /\ r.action \in Actions \cup {AnyAction}
  OBVIOUS
<1> HIDE DEF R
<1>3. RuleList[i] \in R
  BY <1>1 DEF RuleIdx
<1> QED BY <1>2, <1>3

LEMMA JoinFacts ==
  ASSUME NEW S, NEW a \in Seq(S), NEW x \in Seq(S), Len(x) = 1
  PROVE  /\ Len(a \o x) = Len(a) + 1
         /\ \A n \in 1..Len(a) : (a \o x)[n] = a[n]
         /\ (a \o x)[Len(a) + 1] = x[1]
<1>1. Len(a \o x) = Len(a) + Len(x)
  BY ConcatProperties, Zenon
<1>2. \A n \in 1..Len(a) + Len(x) : (a \o x)[n] = IF n <= Len(a) THEN a[n] ELSE x[n - Len(a)]
  BY ConcatProperties, Zenon
<1>3. Len(a) \in Nat
  OBVIOUS
<1> DEFINE m == Len(a)
           j == a \o x
<1>4. m \in Nat /\ \A n \in 1..m + 1 : j[n] = IF n <= m THEN a[n] ELSE x[n - m]
  BY <1>2, <1>3
<1> HIDE DEF m, j
<1>5. (\A n \in 1..m : j[n] = a[n]) /\ j[m + 1] = x[1]
  BY <1>4
<1> QED BY <1>1, <1>5 DEF m, j

(* A name that ends in one part has one beginning: joining an actor, even  *)
(* one with colons, to an action without colons loses nothing.             *)
LEMMA JoinInjective ==
  ASSUME NEW S, NEW a \in Seq(S), NEW b \in Seq(S), NEW x \in Seq(S), NEW y \in Seq(S),
         Len(x) = 1, Len(y) = 1, a \o x = b \o y
  PROVE  a = b /\ x = y
<1> DEFINE j == a \o x
<1>1. /\ Len(j) = Len(a) + 1
      /\ \A n \in 1..Len(a) : j[n] = a[n]
      /\ j[Len(a) + 1] = x[1]
  BY JoinFacts
<1>2. /\ Len(j) = Len(b) + 1
      /\ \A n \in 1..Len(b) : j[n] = b[n]
      /\ j[Len(b) + 1] = y[1]
  BY JoinFacts
<1> HIDE DEF j
<1>3. Len(a) = Len(b)
  <2>1. Len(a) \in Nat /\ Len(b) \in Nat
    OBVIOUS
  <2> QED BY <1>1, <1>2, <2>1
<1>4. a = b
  <2>1. \A n \in 1..Len(a) : a[n] = b[n]
    BY <1>1, <1>2, <1>3
  <2> QED BY <1>3, <2>1, SeqEqual
<1>5. x = y
  <2>1. x[1] = y[1]
    BY <1>1, <1>2, <1>3
  <2> QED BY <2>1, SeqEqual
<1> QED BY <1>4, <1>5

(* The prefix of a counted request names the global scope, or joins the    *)
(* actor and one of the actions the rule keeps keys for.                   *)
LEMMA PrefixShape ==
  ASSUME NEW i \in RuleIdx, NEW q \in Requests, Counts(i, q)
  PROVE  LET p == keyPrefix(RuleList[i], q)
             o == Subject(RuleList[i], q)
         IN  IF RuleList[i].scope = "global" THEN p = Global /\ o = <<Global, AnyAction>>
             ELSE \E a \in KeyActions(RuleList[i]) :
                    p = ActorOf[q] \o a /\ o = <<ActorOf[q], a>>
<1> DEFINE r == RuleList[i]
           p == keyPrefix(r, q)
           o == Subject(r, q)
<1>1. /\ r.scope \in {"actor", "actor+action", "global"}
      /\ r.action \in {AnyAction, ActionOf[q]}
      /\ ActionOf[q] \in Actions
  BY RuleTyped, RateLimitAssumption DEF Counts
<1> HIDE DEF r
<1>2. CASE r.scope = "global"
  BY <1>2 DEF keyPrefix, Subject, r
<1>3. ASSUME r.scope # "global", NEW a \in KeyActions(r), o = <<ActorOf[q], a>>
      PROVE  p = ActorOf[q] \o a
  <2>1. o[1] = ActorOf[q] /\ o[2] = a
    BY <1>3
  <2> HIDE DEF o
  <2>2. p = o[1] \o o[2]
    BY <1>3 DEF keyPrefix, o
  <2> QED BY <2>1, <2>2
<1>4. CASE r.scope = "actor"
  <2>1. o = <<ActorOf[q], r.action>>
    BY <1>4 DEF Subject
  <2>2. r.action \in KeyActions(r)
    BY <1>4 DEF KeyActions
  <2>3. p = ActorOf[q] \o r.action
    BY <1>3, <1>4, <2>1, <2>2
  <2> QED BY <1>4, <2>1, <2>2, <2>3 DEF r
<1>5. CASE r.scope = "actor+action"
  <2>1. o = <<ActorOf[q], ActionOf[q]>>
    BY <1>5 DEF Subject
  <2>2. ActionOf[q] \in KeyActions(r)
    BY <1>1, <1>5 DEF KeyActions
  <2>3. p = ActorOf[q] \o ActionOf[q]
    BY <1>3, <1>5, <2>1, <2>2
  <2> QED BY <1>5, <2>1, <2>2, <2>3 DEF r
<1> QED BY <1>1, <1>2, <1>4, <1>5

(* The names a rule's prefixes are joined from, when keys are its own.     *)
LEMMA PartFacts ==
  ASSUME OwnKeys, NEW i \in RuleIdx, RuleList[i].scope # "global",
         NEW a \in KeyActions(RuleList[i]), NEW q \in Requests
  PROVE  /\ a \in Seq(Parts) /\ Len(a) = 1
         /\ ActorOf[q] \in Seq(Parts) /\ Len(ActorOf[q]) \in Nat \ {0}
<1>1. a \in Actions \cup {AnyAction}
  BY RuleTyped DEF KeyActions
<1>2. AnyAction \in Seq(Parts)
  <2>1. Blank \in Parts
    BY RateLimitAssumption
  <2> QED BY <2>1 DEF AnyAction
<1>3. Actions \subseteq Seq(Parts)
  BY RateLimitAssumption DEF Names
<1>4. Len(a) = 1
  BY DEF OwnKeys
<1>5. ActorOf[q] \in Seq(Parts) /\ ActorOf[q] # <<>>
  BY RateLimitAssumption DEF Names
<1>6. Len(ActorOf[q]) \in Nat \ {0}
  BY <1>5
<1> QED BY <1>1, <1>2, <1>3, <1>4, <1>5, <1>6

(* One key has one rule and one subject.                                   *)
LEMMA OwnPrefix ==
  ASSUME OwnKeys,
         NEW i \in RuleIdx, NEW q \in Requests, Counts(i, q),
         NEW j \in RuleIdx, NEW s \in Requests, Counts(j, s),
         keyPrefix(RuleList[i], q) = keyPrefix(RuleList[j], s)
  PROVE  i = j /\ Subject(RuleList[i], q) = Subject(RuleList[j], s)
<1> DEFINE r == RuleList[i]
           t == RuleList[j]
           p == keyPrefix(r, q)
           o == Subject(r, q)
           p2 == keyPrefix(t, s)
           o2 == Subject(t, s)
<1>1. i # j => IF r.scope = "global" THEN t.scope # "global"
               ELSE t.scope = "global" \/ KeyActions(r) \cap KeyActions(t) = {}
  BY DEF OwnKeys
<1>2. IF r.scope = "global" THEN p = Global /\ o = <<Global, AnyAction>>
      ELSE \E a \in KeyActions(r) : p = ActorOf[q] \o a /\ o = <<ActorOf[q], a>>
  BY PrefixShape
<1>3. IF t.scope = "global" THEN p2 = Global /\ o2 = <<Global, AnyAction>>
      ELSE \E a \in KeyActions(t) : p2 = ActorOf[s] \o a /\ o2 = <<ActorOf[s], a>>
  BY PrefixShape
<1>4. p = p2
  OBVIOUS
<1>5. r.scope # "global" => p # Global
  <2> SUFFICES ASSUME r.scope # "global", p = Global PROVE FALSE
    OBVIOUS
  <2> HIDE DEF p, o
  <2>1. PICK a \in KeyActions(r) : p = ActorOf[q] \o a
    BY <1>2
  <2>2. /\ a \in Seq(Parts) /\ Len(a) = 1
        /\ ActorOf[q] \in Seq(Parts) /\ Len(ActorOf[q]) \in Nat \ {0}
    BY PartFacts
  <2>3. Len(p) = Len(ActorOf[q]) + 1
    BY <2>1, <2>2, JoinFacts
  <2>4. Len(p) = 1
    BY DEF Global
  <2>5. \A n \in Nat \ {0} : n + 1 # 1
    OBVIOUS
  <2> QED BY <2>2, <2>3, <2>4, <2>5
<1>6. t.scope # "global" => p2 # Global
  <2> SUFFICES ASSUME t.scope # "global", p2 = Global PROVE FALSE
    OBVIOUS
  <2> HIDE DEF p2, o2
  <2>1. PICK a \in KeyActions(t) : p2 = ActorOf[s] \o a
    BY <1>3
  <2>2. /\ a \in Seq(Parts) /\ Len(a) = 1
        /\ ActorOf[s] \in Seq(Parts) /\ Len(ActorOf[s]) \in Nat \ {0}
    BY PartFacts
  <2>3. Len(p2) = Len(ActorOf[s]) + 1
    BY <2>1, <2>2, JoinFacts
  <2>4. Len(p2) = 1
    BY DEF Global
  <2>5. \A n \in Nat \ {0} : n + 1 # 1
    OBVIOUS
  <2> QED BY <2>2, <2>3, <2>4, <2>5
<1>7. CASE r.scope = "global" /\ t.scope = "global"
  BY <1>1, <1>2, <1>3, <1>7
<1>8. CASE r.scope # "global" /\ t.scope # "global"
  <2> HIDE DEF p, o, p2, o2
  <2>1. PICK a \in KeyActions(r) : p = ActorOf[q] \o a /\ o = <<ActorOf[q], a>>
    BY <1>2, <1>8
  <2>2. PICK b \in KeyActions(t) : p2 = ActorOf[s] \o b /\ o2 = <<ActorOf[s], b>>
    BY <1>3, <1>8
  <2>3. /\ a \in Seq(Parts) /\ Len(a) = 1 /\ ActorOf[q] \in Seq(Parts)
        /\ b \in Seq(Parts) /\ Len(b) = 1 /\ ActorOf[s] \in Seq(Parts)
    BY <1>8, PartFacts
  <2>4. ActorOf[q] = ActorOf[s] /\ a = b
    BY <1>4, <2>1, <2>2, <2>3, JoinInjective
  <2>5. i = j
    BY <1>1, <1>8, <2>4
  <2> QED BY <2>1, <2>2, <2>4, <2>5 DEF o, o2
<1>9. ~(r.scope = "global" /\ t.scope # "global") /\ ~(r.scope # "global" /\ t.scope = "global")
  BY <1>2, <1>3, <1>4, <1>5, <1>6
<1> QED BY <1>7, <1>8, <1>9

LEMMA HitsStep ==
  ASSUME IInv, NEW req \in Requests, Execute(req)
  PROVE  LET k == currentKey(req) IN
         /\ k \in Keys
         /\ idx[req] \in RuleIdx
         /\ counter'[k] = Value(k) + 1
         /\ \A l \in Keys : l # k => counter'[l] = counter[l]
         /\ spent' \in [RuleIdx -> [Quotas -> Nat]]
         /\ \A i \in RuleIdx, s \in Quotas :
              spent'[i][s] = IF i = idx[req] /\ s = quota(req) THEN spent[i][s] + 1
                             ELSE spent[i][s]
         /\ \A i \in RuleIdx, s \in Quotas : spent[i][s] <= spent'[i][s]
<1> DEFINE k == currentKey(req)
<1>1. pc[req] = "script"
  BY DEF Execute
<1>2. k \in Keys /\ idx[req] \in RuleIdx /\ quota(req) \in Quotas
  BY <1>1, KeyFacts DEF IInv, Pending
<1>3. /\ counter' = [counter EXCEPT ![k] = Value(k) + 1]
      /\ spent' = [spent EXCEPT ![idx[req]][quota(req)] = @ + 1]
  BY DEF Execute
<1>4. /\ counter \in [Keys -> Nat]
      /\ spent \in [RuleIdx -> [Quotas -> Nat]]
  BY DEF IInv, Typed
<1> HIDE DEF k
<1>5. /\ counter'[k] = Value(k) + 1
      /\ \A l \in Keys : l # k => counter'[l] = counter[l]
  BY <1>2, <1>3, <1>4
<1>6. \A i \in RuleIdx, s \in Quotas :
        spent'[i][s] = IF i = idx[req] /\ s = quota(req) THEN spent[i][s] + 1 ELSE spent[i][s]
  BY <1>2, <1>3, <1>4
<1>7. \A i \in RuleIdx, s \in Quotas : spent[i][s] <= spent'[i][s]
  <2> TAKE i \in RuleIdx, s \in Quotas
  <2>1. spent[i][s] \in Nat
    BY <1>4
  <2> QED BY <1>6, <2>1
<1>8. spent' \in [RuleIdx -> [Quotas -> Nat]]
  BY ExecuteStep
<1> QED BY <1>2, <1>5, <1>6, <1>7, <1>8 DEF k

(* Executions only add to what makes a refusal right.                      *)
LEMMA RefusedStays ==
  ASSUME IInv, Refused, NEW x \in results, ~x.allow,
         spent' \in [RuleIdx -> [Quotas -> Nat]],
         \A i \in RuleIdx, s \in Quotas : spent[i][s] <= spent'[i][s]
  PROVE  OverQuota(x)'
<1> DEFINE i == x.rule
           c == <<Subject(RuleList[i], x.req), x.key[2]>>
           p == <<Subject(RuleList[i], x.req), x.key[2] - 1>>
<1>1. i \in RuleIdx
  BY DEF IInv, Typed, Result
<1>2. c \in Quotas /\ p \in Quotas /\ spent[i][c] + spent[i][p] > RuleList[i].limit
  BY DEF Refused, OverQuota
<1> SUFFICES spent'[i][c] + spent'[i][p] > RuleList[i].limit
  BY <1>2 DEF OverQuota, Subject
<1> HIDE DEF i, c, p
<1>3. /\ spent[i][c] \in Nat
      /\ spent[i][p] \in Nat
      /\ spent'[i][c] \in Nat
      /\ spent'[i][p] \in Nat
      /\ spent[i][c] <= spent'[i][c]
      /\ spent[i][p] <= spent'[i][p]
      /\ RuleList[i].limit \in Nat
  BY <1>1, <1>2, RuleFacts DEF IInv, Typed
<1> QED BY <1>2, <1>3

(* A key of a counted request has a quota.                                 *)
LEMMA KeyQuota ==
  ASSUME NEW i \in RuleIdx, NEW q \in Requests, NEW k \in Keys
  PROVE  <<Subject(RuleList[i], q), k[2]>> \in Quotas
  BY DEF Keys, Quotas

LEMMA OwnStep ==
  ASSUME OwnKeys, IInv, Matching, Own, NEW req \in Requests, Execute(req)
  PROVE  Own'
<1> DEFINE k == currentKey(req)
<1>1. /\ k \in Keys
      /\ idx[req] \in RuleIdx
      /\ counter'[k] = Value(k) + 1
      /\ \A l \in Keys : l # k => counter'[l] = counter[l]
      /\ spent' \in [RuleIdx -> [Quotas -> Nat]]
      /\ \A i \in RuleIdx, s \in Quotas :
           spent'[i][s] = IF i = idx[req] /\ s = quota(req) THEN spent[i][s] + 1
                          ELSE spent[i][s]
      /\ \A i \in RuleIdx, s \in Quotas : spent[i][s] <= spent'[i][s]
  BY HitsStep
<1>2. /\ Counts(idx[req], req)
      /\ k[1] = keyPrefix(RuleList[idx[req]], req)
      /\ quota(req) = <<Subject(RuleList[idx[req]], req), k[2]>>
  BY DEF Execute, Matching, currentKey, quota, rule
<1> HIDE DEF k
<1> SUFFICES ASSUME NEW i \in RuleIdx, NEW q \in Requests, NEW l \in Keys,
                    Counts(i, q), l[1] = keyPrefix(RuleList[i], q)
             PROVE  counter'[l] <= spent'[i][<<Subject(RuleList[i], q), l[2]>>]
  BY DEF Own, Counts, keyPrefix, Subject
<1> DEFINE s == <<Subject(RuleList[i], q), l[2]>>
<1>3. /\ s \in Quotas
      /\ counter[l] \in Nat
      /\ counter[l] <= spent[i][s]
  BY KeyQuota DEF IInv, Typed, Own
<1>4. /\ spent[i][s] \in Nat
      /\ spent'[i][s] \in Nat
      /\ spent[i][s] <= spent'[i][s]
  <2> HIDE DEF s
  <2> QED BY <1>1, <1>3 DEF IInv, Typed
<1>5. CASE l # k
  <2>1. counter'[l] = counter[l]
    BY <1>1, <1>5
  <2> HIDE DEF s
  <2> QED BY <1>3, <1>4, <2>1 DEF s
<1>6. CASE l = k
  <2>1. i = idx[req] /\ s = quota(req)
    BY <1>1, <1>2, <1>6, OwnPrefix
  <2> HIDE DEF s
  <2>2. spent'[i][s] = spent[i][s] + 1
    BY <1>1, <1>3, <2>1
  <2>3. Value(k) <= counter[k]
    BY <1>3, <1>6 DEF Value
  <2>4. Value(k) \in Nat
    BY <1>1, ValueTyped DEF IInv
  <2> QED BY <1>1, <1>3, <1>4, <1>6, <2>2, <2>3, <2>4 DEF s
<1> QED BY <1>5, <1>6

(* A refusal exceeds the limit even with the previous bucket in full.      *)
LEMMA OverLimit ==
  ASSUME NEW c \in Nat, NEW p \in Nat, NEW e \in Nat, NEW l \in Nat,
         NEW V \in Nat, V > 0, e < V, ~(c * V + p * (V - e) <= l * V)
  PROVE  c + p > l
<1>1. p * (V - e) <= p * V
  OBVIOUS
<1>2. c * V + p * V > l * V
  BY <1>1
<1>3. SUFFICES ASSUME c + p <= l PROVE FALSE
  OBVIOUS
<1>4. (c + p) * V <= l * V
  BY <1>3, MultMonotone
<1> QED BY <1>2, <1>4

LEMMA ScriptQuota ==
  ASSUME OwnKeys, IInv, QuotaInv, NEW req \in Requests, Script(req)
  PROVE  QuotaInv'
<1> DEFINE key == currentKey(req)
           pkey == previousKey(req)
           i == idx[req]
           o == quota(req)
           po == <<Subject(rule(req), req), bucket(now[req]) - 1>>
           cur == Value(key) + 1
           prev == Value(pkey)
           e == now[req] % W
           allow == WithinLimit(cur, prev, e, rule(req).limit)
           late == bucket(clock) # bucket(now[req])
           x == [req |-> req, rule |-> i, key |-> key, now |-> now[req],
                 late |-> late, allow |-> allow]
<1>1. /\ Execute(req)
      /\ Advance(req)
      /\ results' = results \cup {x}
      /\ pc[req] = "script"
  BY DEF Script, Execute
<1>2. /\ i \in RuleIdx
      /\ W > 0
      /\ now[req] \in Nat
      /\ W \in Nat
  BY <1>1, WindowFacts DEF IInv, Typed, Pending
<1>3. /\ key \in Keys
      /\ pkey \in Keys
      /\ o \in Quotas
      /\ po \in Quotas
      /\ key[2] = bucket(now[req])
  BY <1>1, KeyFacts DEF IInv
<1>4. /\ spent' \in [RuleIdx -> [Quotas -> Nat]]
      /\ \A j \in RuleIdx, s \in Quotas : spent[j][s] <= spent'[j][s]
      /\ spent'[i][o] = spent[i][o] + 1
  <2>1. /\ spent' \in [RuleIdx -> [Quotas -> Nat]]
        /\ \A j \in RuleIdx, s \in Quotas :
             spent'[j][s] = IF j = i /\ s = o THEN spent[j][s] + 1 ELSE spent[j][s]
        /\ \A j \in RuleIdx, s \in Quotas : spent[j][s] <= spent'[j][s]
    BY <1>1, HitsStep
  <2> HIDE DEF i, o
  <2> QED BY <1>2, <1>3, <2>1
<1>5. /\ key[1] = keyPrefix(RuleList[i], req)
      /\ pkey[1] = keyPrefix(RuleList[i], req)
      /\ o = <<Subject(RuleList[i], req), key[2]>>
      /\ po = <<Subject(RuleList[i], req), key[2] - 1>>
      /\ po = <<Subject(RuleList[i], req), pkey[2]>>
  BY DEF currentKey, previousKey, rule, quota
<1>6. Own' /\ Matching'
  <2>1. Own'
    BY <1>1, OwnStep DEF QuotaInv
  <2>2. Matching'
    BY <1>1 DEF QuotaInv, Matching, Advance, Counts, IInv, Typed
  <2> QED BY <2>1, <2>2
<1>7. /\ prev \in Nat
      /\ Value(key) \in Nat
      /\ spent[i][o] \in Nat
      /\ spent[i][po] \in Nat
      /\ spent'[i][o] \in Nat
      /\ spent'[i][po] \in Nat
      /\ spent[i][po] <= spent'[i][po]
  <2>1. prev \in Nat /\ Value(key) \in Nat
    BY <1>3, ValueTyped DEF IInv
  <2> HIDE DEF i, o, po
  <2> QED BY <1>2, <1>3, <1>4, <2>1 DEF IInv, Typed
<1>8. Value(key) <= spent[i][o] /\ prev <= spent[i][po]
  <2>1. Counts(i, req)
    BY <1>1 DEF QuotaInv, Matching
  <2>2. counter[key] <= spent[i][o] /\ counter[pkey] <= spent[i][po]
    <3> HIDE DEF i, o, po, key, pkey
    <3> QED BY <1>2, <1>3, <1>5, <2>1 DEF QuotaInv, Own
  <2>3. counter[key] \in Nat /\ counter[pkey] \in Nat
    BY <1>3 DEF IInv, Typed
  <2> HIDE DEF i, o, po
  <2> QED BY <1>7, <2>2, <2>3 DEF Value
<1>9. ~allow => spent'[i][o] + spent'[i][po] > RuleList[i].limit
  <2>1. RuleList[i].limit \in Nat /\ cur \in Nat
    BY <1>2, <1>7, RuleFacts
  <2>2. e \in Nat /\ e < W
    BY <1>2, ModFacts
  <2>3. ASSUME ~allow
        PROVE  ~(cur * W + prev * (W - e) <= RuleList[i].limit * W)
    BY <2>3 DEF WithinLimit, rule
  <2> HIDE DEF o, po, i
  <2>4. cur <= spent'[i][o]
    BY <1>4, <1>7, <1>8
  <2> HIDE DEF cur, prev, allow, e
  <2>5. ~allow => cur + prev > RuleList[i].limit
    BY <1>2, <1>7, <2>1, <2>2, <2>3, OverLimit
  <2> QED BY <1>7, <1>8, <2>1, <2>4, <2>5
<1>10. Refused'
  <2> SUFFICES ASSUME NEW y \in results', ~y.allow PROVE OverQuota(y)'
    BY DEF Refused
  <2>1. CASE y \in results
    BY <1>4, <2>1, RefusedStays DEF QuotaInv
  <2>2. CASE y = x
    <3>1. y.rule = i /\ y.key = key /\ y.req = req /\ ~allow
      BY <2>2
    <3>2. spent'[i][o] + spent'[i][po] > RuleList[i].limit
      BY <1>9, <3>1
    <3> HIDE DEF x, allow
    <3>3. /\ <<Subject(RuleList[y.rule], y.req), y.key[2]>> = o
          /\ <<Subject(RuleList[y.rule], y.req), y.key[2] - 1>> = po
      BY <1>5, <3>1
    <3> HIDE DEF i, o, po, key
    <3> QED BY <1>3, <3>1, <3>2, <3>3 DEF OverQuota, Subject
  <2> QED BY <1>1, <2>1, <2>2
<1> QED BY <1>6, <1>10 DEF QuotaInv

LEMMA QuietQuota ==
  ASSUME QuotaInv, UNCHANGED <<counter, spent, results>>
  PROVE  Own' /\ Refused'
  BY DEF QuotaInv, Own, Refused, OverQuota, Counts, keyPrefix, Subject

LEMMA NextQuota == ASSUME OwnKeys PROVE IInv /\ QuotaInv /\ [Next]_vars => QuotaInv'
<1> SUFFICES ASSUME IInv, QuotaInv, [Next]_vars PROVE QuotaInv'
  OBVIOUS
<1>1. ASSUME NEW req \in Requests, Skip(req) \/ Fail(req) PROVE QuotaInv'
  <2>1. Advance(req) /\ UNCHANGED <<counter, spent, results>>
    BY <1>1 DEF Skip, Fail
  <2>2. Matching'
    BY <2>1 DEF QuotaInv, Matching, Advance, Counts, IInv, Typed
  <2> QED BY <2>1, <2>2, QuietQuota DEF QuotaInv
<1>2. ASSUME NEW req \in Requests, ReadClock(req) PROVE QuotaInv'
  <2>1. /\ pc' = [pc EXCEPT ![req] = "script"]
        /\ RuleList[idx[req]].action \in {AnyAction, ActionOf[req]}
        /\ UNCHANGED <<idx, counter, spent, results>>
    BY <1>2 DEF ReadClock, NotCounted, rule
  <2>2. Matching'
    BY <2>1 DEF QuotaInv, Matching, Counts, IInv, Typed
  <2> QED BY <2>1, <2>2, QuietQuota DEF QuotaInv
<1>3. ASSUME NEW req \in Requests, ScriptLost(req) PROVE QuotaInv'
  <2>1. Execute(req) /\ UNCHANGED <<pc, idx, results>>
    BY <1>3 DEF ScriptLost
  <2>2. Own'
    BY <2>1, OwnStep DEF QuotaInv
  <2>3. Matching'
    BY <2>1 DEF QuotaInv, Matching, Counts
  <2>4. /\ spent' \in [RuleIdx -> [Quotas -> Nat]]
        /\ \A i \in RuleIdx, s \in Quotas : spent[i][s] <= spent'[i][s]
    BY <2>1, HitsStep
  <2>5. Refused'
    <3> SUFFICES ASSUME NEW y \in results', ~y.allow PROVE OverQuota(y)'
      BY DEF Refused
    <3> QED BY <2>1, <2>4, RefusedStays DEF QuotaInv
  <2> QED BY <2>2, <2>3, <2>5 DEF QuotaInv
<1>4. ASSUME NEW req \in Requests, Script(req) PROVE QuotaInv'
  BY <1>4, ScriptQuota
<1>5. CASE Tick \/ UNCHANGED vars
  <2>1. UNCHANGED <<pc, idx, counter, spent, results>>
    BY <1>5 DEF Tick, vars
  <2>2. Matching'
    BY <2>1 DEF QuotaInv, Matching, Counts
  <2> QED BY <2>1, <2>2, QuietQuota DEF QuotaInv
<1> QED BY <1>1, <1>2, <1>3, <1>4, <1>5 DEF Next

(* For every window, limit, interleaving and set of names, colons in       *)
(* actors included: when no two rules count one action of an actor, and no *)
(* action they count has a colon, a refused request was over the limit by  *)
(* what the rule counted for its own actor and action alone.               *)
THEOREM RateLimitRefusedOverLimit ==
  ASSUME OwnKeys
  PROVE  Spec => []RefusedOverLimit
<1>1. Init => QuotaInv
  <2> SUFFICES ASSUME Init PROVE QuotaInv
    OBVIOUS
  <2>1. Own
    <3> SUFFICES ASSUME NEW i \in RuleIdx, NEW q \in Requests, NEW k \in Keys
                 PROVE  counter[k] <= spent[i][<<Subject(RuleList[i], q), k[2]>>]
      BY DEF Own
    <3>1. <<Subject(RuleList[i], q), k[2]>> \in Quotas
      BY KeyQuota
    <3> QED BY <3>1 DEF Init
  <2> QED BY <2>1 DEF Init, QuotaInv, Matching, Refused
<1>2. IInv /\ QuotaInv /\ [Next]_vars => QuotaInv'
  BY NextQuota
<1>3. QuotaInv => RefusedOverLimit
  BY DEF QuotaInv, Refused, OverQuota, RefusedOverLimit
<1> QED BY <1>1, <1>2, <1>3, RateLimitInvariant, PTL DEF Spec
=============================================================================
