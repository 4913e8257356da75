----------------------------- MODULE RateLimit -----------------------------
(***************************************************************************)
(* RateLimitRule.Evaluate (internal/rules/rate_limit.go): requests         *)
(* evaluate the rate-limit rules of a snapshot one after the other.  Each  *)
(* reads the clock, derives two Redis keys from it, and later runs a       *)
(* script in Redis that increments the key of its own bucket and reads the *)
(* previous one.  Other requests, and seconds, pass between the two.       *)
(*                                                                         *)
(* Redis is a counter and an expiry time per key.  The client sends the    *)
(* script again when an answer is lost, so one evaluation may count        *)
(* several times.  The rules of an instance share one window.              *)
(*                                                                         *)
(* A name (an actor id or an action type) is the sequence of its parts     *)
(* between colons: "a:b" is <<"a", "b">>.  Joining names with a colon is   *)
(* concatenation, and, as in the code, different pairs may join to one key.*)
(***************************************************************************)
EXTENDS Naturals, Sequences, FiniteSets

CONSTANTS Parts,               \* what stands between two colons of a name
          Requests, Actors, Actions,
          ActorOf, ActionOf,   \* actor and action type of each request
          RuleList,            \* the rate-limit rules: [scope, action, limit]
          Window,              \* their window, in half seconds
          MaxTries,            \* executions of the script one call may cause
          MaxDelay,            \* seconds from reading the clock to the last of them
          MaxTime              \* bound on the clock

Blank == ""
AnyAction == <<Blank>>         \* a rule without an action is about all of them
Global == <<"global">>

Names == Seq(Parts) \ {<<>>}

windowSeconds == Window \div 2
ttlSeconds_OneWindow == windowSeconds
ttlSeconds == Window           \* Ceil(2 * window)

ASSUME RateLimitAssumption ==
  /\ Window \in Nat /\ MaxTries \in Nat /\ MaxTime \in Nat
  /\ windowSeconds <= MaxTime /\ MaxDelay \in 0..windowSeconds
  /\ Blank \in Parts
  /\ Actors \subseteq Names /\ Actions \subseteq Names \ {AnyAction}
  /\ ActorOf \in [Requests -> Actors] /\ ActionOf \in [Requests -> Actions]
  /\ RuleList \in Seq([scope : {"actor", "actor+action", "global"},
                       action : Actions \cup {AnyAction}, limit : Nat \ {0}])

VARIABLES
  clock,     \* seconds since the epoch
  pc,        \* "rule": between two rules; "script": the Redis call is under way
  idx,       \* the rule a request evaluates, or evaluates next
  now,       \* the clock as the call under way read it
  tries,     \* executions of its script so far
  counter,   \* Redis: the value stored under a key
  expires,   \* Redis: the second from which the key is gone
  hits,      \* executions of the script per rule and key, ever
  spent,     \* executions of the script per rule, subject and bucket, ever
  results    \* the calls that Redis answered

vars == <<clock, pc, idx, now, tries, counter, expires, hits, spent, results>>

RuleIdx == 1..Len(RuleList)
bucket(t) == t \div windowSeconds

(* Whose quota a request uses up: everyone's, or the actor's for an action.*)
Subject(rule, req) ==
  CASE rule.scope = "global" -> <<Global, AnyAction>>
    [] rule.scope = "actor+action" -> <<ActorOf[req], ActionOf[req]>>
    [] rule.scope = "actor" -> <<ActorOf[req], rule.action>>

(* The prefix forgets the actor.                                           *)
keyPrefix_NoActor(rule, req) ==
  IF rule.scope = "actor+action" THEN ActionOf[req] ELSE rule.action

(* The name of the subject; the "pds:rl:" that every key starts with is    *)
(* left out.                                                               *)
keyPrefix(rule, req) ==
  IF rule.scope = "global" THEN Global
  ELSE Subject(rule, req)[1] \o Subject(rule, req)[2]

Buckets == {bucket(t) : t \in 0..MaxTime}
Prefixes == {keyPrefix(RuleList[i], req) : i \in RuleIdx, req \in Requests}
Keys == Prefixes \X Buckets
Quotas == {Subject(RuleList[i], req) : i \in RuleIdx, req \in Requests} \X Buckets

Init ==
  /\ clock = windowSeconds
  /\ pc = [req \in Requests |-> "rule"]
  /\ idx = [req \in Requests |-> 1]
  /\ now = [req \in Requests |-> 0]
  /\ tries = [req \in Requests |-> 0]
  /\ counter = [k \in Keys |-> 0]
  /\ expires = [k \in Keys |-> 0]
  /\ hits = [i \in RuleIdx |-> [k \in Keys |-> 0]]
  /\ spent = [i \in RuleIdx |-> [s \in Quotas |-> 0]]
  /\ results = {}

Value(k) == IF clock < expires[k] THEN counter[k] ELSE 0

rule(req) == RuleList[idx[req]]
currentKey(req) == <<keyPrefix(rule(req), req), bucket(now[req])>>
previousKey(req) == <<keyPrefix(rule(req), req), bucket(now[req]) - 1>>
quota(req) == <<Subject(rule(req), req), bucket(now[req])>>

(* The counts before this request.                                         *)
WithinLimit_Before(current, previous, elapsed, limit) ==
  (current - 1) * windowSeconds + previous * (windowSeconds - elapsed) <= limit * windowSeconds

(* The previous bucket weighs more the longer it is over.                  *)
WithinLimit_Elapsed(current, previous, elapsed, limit) ==
  current * windowSeconds + previous * elapsed <= limit * windowSeconds

(* current + previous * (windowSeconds - elapsed) / windowSeconds <= limit *)
WithinLimit(current, previous, elapsed, limit) ==
  current * windowSeconds + previous * (windowSeconds - elapsed) <= limit * windowSeconds
----------------------------------------------------------------------------
(* The call returns: its clock reading is forgotten.                       *)
Advance(req) ==
  /\ idx' = [idx EXCEPT ![req] = @ + 1]
  /\ pc' = [pc EXCEPT ![req] = "rule"]
  /\ now' = [now EXCEPT ![req] = 0]
  /\ tries' = [tries EXCEPT ![req] = 0]

(* Not the rule's action (no match), or a window below one second (error). *)
NotCounted(req) ==
  \/ rule(req).action \notin {AnyAction, ActionOf[req]}
  \/ windowSeconds = 0

Skip(req) ==
  /\ pc[req] = "rule" /\ idx[req] \in RuleIdx
  /\ NotCounted(req)
  /\ Advance(req)
  /\ UNCHANGED <<clock, counter, expires, hits, spent, results>>

ReadClock(req) ==
  /\ pc[req] = "rule" /\ idx[req] \in RuleIdx
  /\ ~NotCounted(req)
  /\ now' = [now EXCEPT ![req] = clock]
  /\ pc' = [pc EXCEPT ![req] = "script"]
  /\ UNCHANGED <<clock, idx, tries, counter, expires, hits, spent, results>>

(* The client never stops sending the script.                              *)
Execute_Unbounded(req) ==
  LET k == currentKey(req) IN
  /\ pc[req] = "script"
  /\ counter' = [counter EXCEPT ![k] = Value(k) + 1]
  /\ expires' = [expires EXCEPT ![k] = clock + ttlSeconds]
  /\ hits' = [hits EXCEPT ![idx[req]][k] = @ + 1]
  /\ spent' = [spent EXCEPT ![idx[req]][quota(req)] = @ + 1]
  /\ UNCHANGED clock

(* INCR and EXPIRE of the current key: atomic in Redis.                    *)
Execute(req) ==
  LET k == currentKey(req) IN
  /\ pc[req] = "script" /\ tries[req] < MaxTries
  /\ counter' = [counter EXCEPT ![k] = Value(k) + 1]
  /\ expires' = [expires EXCEPT ![k] = clock + ttlSeconds]
  /\ hits' = [hits EXCEPT ![idx[req]][k] = @ + 1]
  /\ spent' = [spent EXCEPT ![idx[req]][quota(req)] = @ + 1]
  /\ UNCHANGED clock

(* The answer is lost: the client tries again, or gives up (Fail).         *)
ScriptLost(req) ==
  /\ Execute(req)
  /\ tries' = [tries EXCEPT ![req] = @ + 1]
  /\ UNCHANGED <<pc, idx, now, results>>

Script(req) ==
  LET elapsed == now[req] % windowSeconds
      allow == WithinLimit(Value(currentKey(req)) + 1, Value(previousKey(req)),
                           elapsed, rule(req).limit)
  IN  /\ Execute(req)
      /\ results' = results \cup
           {[req |-> req, rule |-> idx[req], key |-> currentKey(req), now |-> now[req],
             late |-> bucket(clock) # bucket(now[req]), allow |-> allow]}
      /\ Advance(req)

(* Redis unreachable, the retries used up, or the context done: an error.  *)
Fail(req) ==
  /\ pc[req] = "script"
  /\ Advance(req)
  /\ UNCHANGED <<clock, counter, expires, hits, spent, results>>

(* Time passes, but no call outlives the client's timeouts.                *)
Tick ==
  /\ clock < MaxTime
  /\ \A req \in Requests : pc[req] = "script" => clock < now[req] + MaxDelay
  /\ clock' = clock + 1
  /\ UNCHANGED <<pc, idx, now, tries, counter, expires, hits, spent, results>>

Next ==
  \/ \E req \in Requests :
       Skip(req) \/ ReadClock(req) \/ ScriptLost(req) \/ Script(req) \/ Fail(req)
  \/ Tick

Spec == Init /\ [][Next]_vars
----------------------------------------------------------------------------
Result == [req : Requests, rule : RuleIdx, key : Keys, now : Nat,
           late : BOOLEAN, allow : BOOLEAN]

Admitted(i, k) == {x \in results : x.rule = i /\ x.key = k /\ x.allow}

(* Every variable has its type, and one evaluation counts at most MaxTries *)
(* times.                                                                  *)
TypeOK ==
  /\ clock \in Nat
  /\ pc \in [Requests -> {"rule", "script"}]
  /\ idx \in [Requests -> 1..Len(RuleList) + 1]
  /\ now \in [Requests -> Nat]
  /\ tries \in [Requests -> 0..MaxTries]
  /\ counter \in [Keys -> Nat]
  /\ expires \in [Keys -> Nat]
  /\ hits \in [RuleIdx -> [Keys -> Nat]]
  /\ spent \in [RuleIdx -> [Quotas -> Nat]]
  /\ results \subseteq Result

(* A counter lives as long as an estimate needs it: no key of the current  *)
(* or of the previous bucket has expired with executions in it.            *)
KeysOutliveTheirUse ==
  \A k \in Keys, i \in RuleIdx :
    k[2] + 1 >= bucket(clock) => hits[i][k] <= Value(k)

(* However requests interleave, and however often scripts are sent again,  *)
(* a rule lets at most limit requests of one key through in one bucket.    *)
BucketBound ==
  \A i \in RuleIdx, k \in Keys : Cardinality(Admitted(i, k)) <= RuleList[i].limit

(* The estimate smooths the border of two buckets: any windowSeconds       *)
(* seconds whose requests were counted in their own bucket hold at most    *)
(* 2 * limit * (windowSeconds - 1) / windowSeconds admitted requests of a  *)
(* rule and prefix, and not the 2 * limit of two separate buckets.         *)
SlidingBound ==
  \A i \in RuleIdx, p \in Prefixes, s \in 0..MaxTime :
    LET limit == RuleList[i].limit
        inWindow == {x \in results : /\ x.rule = i /\ x.key[1] = p /\ x.allow
                                     /\ x.now \in s..s + windowSeconds - 1}
    IN  (\A x \in inWindow : ~x.late) =>
          \/ Cardinality(inWindow) <= limit
          \/ Cardinality(inWindow) * windowSeconds <= 2 * limit * (windowSeconds - 1)

(* The actions that appear in the prefixes a rule counts under.            *)
KeyActions(r) == IF r.scope = "actor+action" /\ r.action = AnyAction
                 THEN Actions ELSE {r.action}

(* Rules that count in keys of their own: at most one is global, no two of *)
(* the others count one action of an actor, and no action they count has a *)
(* colon in it.  Actors may have colons.                                   *)
OwnKeys ==
  \A i, j \in RuleIdx :
    LET r == RuleList[i]
        s == RuleList[j]
    IN  /\ r.scope # "global" => \A a \in KeyActions(r) : Len(a) = 1
        /\ i # j => IF r.scope = "global" THEN s.scope # "global"
                    ELSE s.scope = "global" \/ KeyActions(r) \cap KeyActions(s) = {}

(* A rule stops a request only when the rule's executions for the very     *)
(* subject of the request, in the two buckets it looked at, exceed the     *)
(* limit: if the rules have keys of their own, no other rule, actor or     *)
(* action uses up its quota.                                               *)
RefusedOverLimit ==
  \A x \in results : ~x.allow =>
    LET i == x.rule
        subject == Subject(RuleList[i], x.req)
    IN  spent[i][<<subject, x.key[2]>>] + spent[i][<<subject, x.key[2] - 1>>]
          > RuleList[i].limit
=============================================================================
