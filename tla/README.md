# A TLA+ model of the policy decision service

The policy decision service answers `Decide` requests: it runs a list of rules
over a request, combines their results into *allow*, *flag* or *block*, and
records each decision in Postgres and in Kafka. The rules come from a YAML file
and can be replaced while the service runs. This directory holds TLA+ modules
translated from the Go source, the TLC configurations that check them on small
instances, and proofs, checked by TLAPS, that hold for every instance.
`PROJECT.json` is the index: components, runs, the source lines each definition
models, hazards, findings and theorems.

## The system

| component | state | operations | interaction |
|---|---|---|---|
| `RuleEngine` (`internal/engine`) | none of its own; per call: results so far | `Evaluate`, `Combine` | one goroutine per request; calls the rules, the feature provider, the sinks |
| rules (`internal/rules`) | rate limits keep counters in Redis | `Evaluate`, `EvaluateWithResults` | a combiner reads the results of rules evaluated before it; rate limits of all requests share Redis |
| loader (`internal/rules/loader.go`) | none | `LoadFile`, `orderRules`, `buildRule` | at startup and on reload; its snapshot is what the engine runs |
| `engineHolder`, reload (`cmd/server/main.go`) | the current engine | `Evaluate`, `Store`, `reload` | SIGHUP goroutine, HTTP handler and requests, without a lock |
| `AuditWriter` (`internal/store/audit.go`) | channel, batch, `closed`, `dropped` | `Enqueue`, `Run`, `flush` | requests enqueue, one goroutine batches and inserts |
| `KafkaDecisionSink` (`internal/sink/kafka.go`) | channel, `closed`, `dropped`, gauge, counters | `Enqueue`, `Run`, `drain` | requests enqueue, one goroutine publishes |
| `MultiDecisionSink` | none | `Enqueue` | calls each sink in turn |
| keyword matcher | an automaton | `match` | used by keyword rules |
| servers and shutdown (`cmd/server/main.go`) | contexts, channels between goroutines | start, signals, shutdown, `main`'s end | handlers, the shutdown goroutine, `main` and the sinks' goroutines |
| HTTP/gRPC API (`internal/api`) | none | decide, `readyz`, `reload` | one goroutine per request, calls the engine holder and the reload closure |
| feature provider, config, telemetry | - | - | one HTTP call, set-up |

What makes it hard: reloads in the middle of requests; contexts that end between
any two tests; rules that fail while others match; queues that fill; batches
that fail half way and are written again; publishes and INSERTs whose answer is
lost; reloads that overlap; Redis scripts that run late or twice, across the
border of two buckets; shutdown, with its timeout, that meets requests still
enqueueing; `select`s that choose among ready channels at random.

What makes each part correct: a decision belongs to one snapshot and follows
from what its rules did; rule failures are never matches and never fail a
request; a snapshot is complete and in dependency order; a sink delivers at
most once and in order, loses nothing silently when it stops in time, and never
blocks a request; a rate limit admits no more than it says and, where keys
can be told apart, refuses nobody for another's traffic; a reload is atomic,
moves forward and is not lost; every sink took an answered decision over or
counted it as dropped, and none is still queued when the process exits; shutdown
goes in its order, and ends; a keyword rule finds exactly the values that contain a keyword.

## Modules

| module | models |
|---|---|
| `Rules` | rule results, the combiner, the outcomes of each kind of rule, `Combine` |
| `RuleEngine` | `Evaluate` for concurrent requests, cancellation, `engineHolder.Store` |
| `Loader` | `LoadBytes` and the depth-first `orderRules`, one step per iteration or call |
| `DecisionSink` | what a decision sink promises, stated abstractly |
| `KafkaSink` | the Kafka sink; implements `DecisionSink` with `Lossy = TRUE` |
| `AuditWriter` | the audit writer; implements `DecisionSink` with `Lossy = FALSE` |
| `RateLimit` | `RateLimitRule.Evaluate` of concurrent requests, its keys, its Redis script, clock and expiry |
| `Reload` | the closure `reload`, called by the SIGHUP goroutine and by HTTP handlers at once while files are edited |
| `Server` | handlers, `MultiDecisionSink`, the shutdown goroutine, `main` and what it waits for in the sinks |
| `AhoMatcher` | `newAhoMatcher`, `buildFailures`, `match` against substring search |
| `MC*` | the instances TLC checks |
| `*_proofs` | inductive invariants and proofs |

Definitions named `X_Something` in front of `X` are faulty variants of `X`, each
a plausible slip in the code it models. `PROJECT.json` ("mutants") names the
property that finds each of them; no specification uses them.

### RuleEngine

A request is idle, looks its features up, alternates between the context test at
the top of the loop (`loop`) and one rule (`rule`), and ends `done` or `failed`.
`Enter` is `engineHolder.Evaluate`'s load together with the first context test,
`LookupFeatures` the feature provider (degraded or not; always degraded under a
done context), `EvalRule` the loop's body including the fail-open replacement,
`Respond` everything after the loop. `Store` may replace the current snapshot,
and `Cancel` end a context, between any two steps. Keyword, CEL and rate-limit
rules may return any result their code can produce; the combiner is modelled
exactly. `byID` is derived from `results`. Decision ids, latency and score carry
no information for the properties. `audit` holds what the sink is offered under
a live context: both sinks return at once from `Enqueue` under a done one.

### Loader

A rule file is a record of what the checks look at. The variable `stack` holds
the calls of the closure `visit` under way, with the index of the next
reference, so a run of the recursion is a sequence of small steps; `temporary`,
`permanent`, `ordered` and `built` are the code's variables. YAML, keyword files
and the constructors' checks of single fields are the flags `header` and
`valid`; whether Redis was reachable at startup is `redis`.

### KafkaSink

The channel is a window on the history of the records it took: `accepted` is the
history, `taken` counts receives, `depth` is `len(s.queue)`. `topic` lists
positions in `accepted`. Each record is offered by its own request. The mutex is
explicit where a call holds it over more than one step (`mu`), because
`updateQueueDepth` reads the length and sets the gauge in two steps, in `Run`
without the mutex. `Run` is a program counter with `after`, the place it goes on
to when the gauge is set. A publish succeeds, fails, or fails after the event
reached the broker; after `drainTimeout` it cannot succeed. `stray` is history:
the publishes made between the cancellation of `sinkCtx` and `close()`.

### AuditWriter

The same representation, with `cleared` between batch and table:
`accepted[cleared + 1 .. taken]` is the batch. `next` is the record `flush`
writes next. An INSERT succeeds when Postgres is up, the context it runs under
is live and the record is not in `Poison` (records the JSON encoder or Postgres
rejects every time); a failed INSERT may have been applied. `DatabaseChange`
fails and restores Postgres at any time. The critical section of `Enqueue` is
one step here: nothing else happens in it.

### RateLimit

A request goes through the rate-limit rules of the snapshot. `ReadClock` takes
the time the keys and the estimate are computed from; the script runs later, in
another step, when the clock may have moved on and other requests have counted.
Redis is a counter and an expiry second per key, a key being a prefix and a bucket
number. `ScriptLost` is an execution whose answer the client never sees: it sends
the script again (`Script`), or the call fails (`Fail`, also Redis down or the
context done). `hits`, `spent` and `results` are history: executions per rule and
key, executions per rule, subject and bucket, and the answered calls.

An actor id or an action type is the sequence of its parts between colons, so
that `keyPrefix`, which joins the two with a colon and escapes nothing, is
concatenation and, as in the code, not injective: the actor `a` with the action
`b:c` and the actor `a:b` with the action `c` have one prefix. `Subject` is whom a
prefix is meant to stand for, and `spent` counts by it.

The window is kept in half seconds, so that both roundings of the code are
there: `windowSeconds` rounds down, `ttlSeconds` rounds `2 * window` up, and a
window under one second is the code's error. The rules of an instance share one
window. The prefix does not name the window, so rules with different windows can
meet in a key as well: by the numbers of their buckets, or, when the windows
differ by less than a second (60 s and 60.5 s), in every key, each setting its own
expiry. That is not modelled. The code computes the estimate in
`float64`; the model compares the same quantities multiplied by `windowSeconds`,
in integers, so a rounding error exactly at the limit is not modelled.

`RefusedOverLimit` says that a refused request was over the limit of its own
subject. It is claimed of configurations for which `OwnKeys` holds: at most one
rule is global, no two others count an action of an actor, and no counted action
has a colon in it (actors may). Without the first two, rules share a counter and
each uses up the quota of the other. Without the third, two actors do; and a rule
of scope `actor+action` that names no action counts under the action type the
client sent, which nothing in the code keeps free of colons. `BucketBound` and
`SlidingBound` need no such condition.

### Reload

The contents of the rule file and of a keyword file are edit numbers; what the
loader rejects is a set of them. `Begin` to `Return` are the steps of the
closure: context, rule file, keyword file, context and `Store`. `Request` and
`Receive` start one; the channel of SIGHUP has room for one signal (`pending`).
`Version` is what `rules_version` depends on, the rule file. `start`,
`overlapped`, `served`, `signalled` and `logged` are history. How requests use
the engine across a `Store` is `RuleEngine`'s subject; how a file becomes a
snapshot is `Loader`'s.

### Server

`attached` is what `main` could create at start. `fate` follows each decision
through each sink: ignored under a done context, late at a closed sink, dropped
at a full queue, or queued and then written or given up by the sink's `Run`
(`Write`, `GiveUp`), which returns when the sink is closed and nothing is queued.
That is what `AuditWriter` and `KafkaSink` show of the two sinks: each loss shows
in a metric, a count of dropped records or publish errors, the queue-depth gauge,
or one write error for all that a failed final flush left behind.
A handler validates, evaluates, offers the decision to each
attached sink in the order of `MultiDecisionSink`, and answers; contexts end
between any two of these steps. The shutdown goroutine is `shut`, with one
timeout (`timeUp`) for both servers; `main` is the `select` at its end, the wait
for the shutdown, `stopSinks` and the wait for the sinks. Of `net/http` and gRPC
the model has what the code relies on: `Shutdown` and `GracefulStop` wait for
handlers, `Close` cuts connections and waits for nobody (`forced`), `Stop` ends the
contexts of RPCs while the pending `GracefulStop` goes on waiting for their
handlers. An answer is heard (`answered`) when the connection is still there; an
HTTP client that closed its sending side may hear one although its context is
done, and the properties that promise an answered client something are about
live contexts. Readiness changes no state and is left out.

### AhoMatcher

A node is named by the bytes that lead to it; `fail`, `terminal` and the queue are
the code's. Keywords are inserted, root children queued and children linked in
every order, as the maps may be ranged over in any. Keywords go through
`NewKeywordRule`'s trimming and lower-casing, values through `Evaluate`'s.

## Runs

| run | instance | result |
|---|---|---|
| `engine` | 2 requests, 2 snapshots of 3 rules, reloads at any time | 242,192 states, passes |
| `engine_skipdep` | 1 request | `SkippedDepsReported` is violated |
| `kafka` | 2 records, queue of 1 | 29,487 states, passes |
| `audit` | 3 records (1 rejected), queue of 1, batch of 2 | 12,528 states, passes |
| `audit_poison` | the same | `DurableWhenReachable` is violated |
| `ratelimit` | 2 requests of the actor `a` and 1 of `a:b`, 2 rules of limit 1, window of 2 s, clock over 3 buckets, 2 tries | 687,456 states, passes |
| `reload` | SIGHUP and one HTTP reload, 2 edits of each file, the first of each broken | 706,227 states, passes |
| `reload_stale` | SIGHUP and one HTTP reload | `ReloadedIsCurrent` is violated |
| `reload_version` | the same | `VersionIdentifies` is violated |
| `server` | an HTTP and a gRPC request, any sinks attached | 525,472 states, passes |
| `aho` | every set of at most 3 keywords of 20, every value of at most 5 bytes | 920,929 states, passes |
| `loader` | all 3,375 files of 3 rules over 15 choices each, and 10 malformed ones, with and without Redis | 95,661 states, passes |

What the properties say is written above each of them. In short:

* `engine`: `SnapshotConsistent` (rules and version of a decision are those of
  one snapshot), `CombinerSound` and `DecisionSound` (what fired decides and is
  reported, once and in order; errors never count), `OnlyCancellationFails` (fail-open), `AuditedDecisionsAreWhole`
  (a rule that returned the context's error never appears in an audited
  decision, although such a decision may be returned to the caller).
* `loader`: `DependenciesFirst`, `SnapshotComplete`, `CyclesExact`, `LoadEnds`.
* `kafka`: `DrainComplete`, `GaugeSettled`, `StopIsPrompt` (at most one publish
  comes between the cancellation and `close()`, so that a queue which requests keep
  filling does not put the shutdown off), `ImplementsDecisionSink` (at most once,
  in order), `EnqueueReturns`, `RunReturns`.
* `audit`: `ClearedIsDurable`, `StopIsDurable`, `ImplementsDecisionSink` (once,
  in order, without a gap), `RunReturns`, `OutageOnlyDelays`; its `TypeOK` also
  says that the batch outgrows `batchSize` only behind a record that could not be
  written.
* `ratelimit`: `KeysOutliveTheirUse` (expiry never takes a count an estimate
  needs), `BucketBound` (at most `limit` per key and bucket, whatever is repeated),
  `SlidingBound` (less than two full buckets around a border), `RefusedOverLimit`
  (nobody else's requests count against an actor).
* `reload`: `NoRollback` (a reload that none overlapped moves forward),
  `SignalServed` (no SIGHUP is lost).
* `server`: `AnsweredIsRecorded` (taken over or counted as dropped), `ExitLosesNothingUnseen`
  (nothing is queued at the exit, and what a live client was answered has been
  written or its loss shows), `EventHasAudit`, `StopOrder`, `ShutdownEnds`.
* `aho`: `FailExact` (failure links are longest suffixes), `MatchExact` (matching
  is substring search).

The four violations are findings, places where the repository's README or an
answer of the service says more than the code does:

* A combiner that skipped a failed dependency and *did not match* has its
  `skipped_dep` detail thrown away by `Combine`, so the provenance is missing
  from the decision in the case it is meant for.
* A record that Postgres rejects every time stays at the head of the batch;
  every later record waits behind it for as long as the process runs.
* Overlapping reloads are not ordered. The one that read the older files may
  store last, after the other's client was told "reloaded".
* `rules_version` hashes the rule file and not the keyword files it names: an edit
  of a keyword file and a reload change the rules under the same version.

**Bounds.** Two requests are enough for the engine: requests share only
`current`, which `Store` changes at will, and the proofs cover any number. The
snapshots have leaves of each kind, a combiner over leaves that both can fail, a
combiner with a disabled dependency, and a combiner over that one. Queues of one
make full and empty one step apart; two Kafka records let one call hold the
mutex, or find the queue full, while another is in flight; three audit records
let a batch fill, keep a failed batch beside a queued record, and put a rejected
record before, between and after good ones. Three rules give self-references,
rings of two and three, diamonds, and roots visited before and after the rules
that refer to them.

Two records cannot keep the queue from running empty for ever; `StopIsPrompt`
counts the publishes instead, and two records are one more than it allows.

For the rate limit, requests of one actor are the ones that share counters, and
limit 1 makes two of them meet it; a third of an actor whose id begins like the
other's would use up that quota if the key forgot where the id ends; a second rule,
for another action, is passed by. With three buckets a count is current,
previous and forgotten. `MaxDelay`, the longest time from reading the clock to the
last execution of the script, is at most one window: the client's timeouts bound
it to a few seconds, and a rule whose window is shorter than that gets no promise
about expiry. Two edits of each file let a reload meet an old, a broken and a new
content; one HTTP reload beside SIGHUP is enough for two to overlap. One request
per server lets each outlive a shutdown; the proofs cover any number. The
keywords are all words of up to three letters over two, two longer ones whose
links pass through several nodes, and lines with blanks and capitals; five bytes
hold the longest keyword at both offsets, or two overlapping ones.

**Deadlock** checking is off: each system really ends (all requests answered,
the file loaded, `Run` returned).

**Fairness.** The loader runs alone (`WF` of its next step). Sinks: `WF` of `Run`
and of each `Enqueue` call, which is what the Go scheduler, `sync.Mutex`'s
starvation-free mode and the ends of publishes and INSERTs give. A publish has a
timeout, which is worth what the Kafka client makes of it: that `ProduceSync`
returns once its context is done is assumed of the library. The INSERTs of the
final flush have one as well; those of a regular flush run under `sinkCtx` alone,
and end with it, or when Postgres answers or the connection fails. The audit
writer's `Run` also has `SF` of leaving by `ctx.Done()`: its ticker can keep the
`select` busy for ever while Postgres is down, and Go's `select` picks at random
among ready cases. Cancellation, the sinks' timeouts and the database carry no
fairness. `Reload`: `WF` of the SIGHUP goroutine; editors, clients and signals are
free. `Server`: `WF` of `main`, the shutdown goroutine and its timer, the sinks
(whose `Run` returns, as `kafka` and `audit` show) and gRPC handlers, because each
call a handler makes (features, Redis) has a timeout; HTTP handlers have none,
since `Close` makes the shutdown independent of them.

## Proofs

Every theorem is of the form `Spec => []P` or `Spec => Abstract!Spec`, for all
values of the constants under the assumptions named in the modules: queue and
batch sizes are positive, `Poison` is a subset of `Records`, `Free` is not a
record, names are not empty, ids of a snapshot's rules are unique, blank ids and codes are not ids
and codes, limits are positive and `MaxDelay` is at most a window, keywords are
sequences of bytes and lower case stays within them, the first contents load, and
no request belongs to both servers. One theorem has a hypothesis of its own:
`RefusedOverLimit` is claimed of rule lists for which `OwnKeys` holds (below).

The library's induction theorems take an operator as a parameter, which the
installed provers cannot instantiate. Where an argument goes by induction over a
loop's turns or a word's length, the property is given as a *set* of numbers
instead: `SetInduction`, proved from the well-foundedness of `<`, says that a set
that has 0 and is closed under successor has every number. That a recursive
definition of the model (`ReasonsUpTo`, `nextState`, `Fallback`) is a function
with the expected equations is proved the same way, by building it up to each
number.

* `RuleEngine_proofs`: `TypeOK`, `SnapshotConsistent`, `CombinerSound`,
  `DecisionSound`, `OnlyCancellationFails` and `AuditedDecisionsAreWhole`. The invariant says that
  the results of a request are those of a prefix of its own snapshot's rules
  (id, verdict, error discipline), that a finished request answered with the
  combination of all of them, and that an audited request is finished and was
  never cut short. Two arguments carry it. `CountedIsFired`: since ids are
  unique, what a combiner finds under an id is the result of the one earlier
  rule with that id. `ReasonsExact`: by induction over the turns of `Combine`'s
  loop, its reasons are those of the matched results that have a code, one for
  each and in their order.
* `Loader_proofs`: `TypeOK`, `DependenciesFirst`, `SnapshotComplete` and
  `CyclesExact`. The first invariant (`IInv`): `ordered` is a topological order of
  what is `permanent`, and each call of `visit` on the stack has finished with the
  references before its next one, except for the one whose visit it is waiting
  for. The second (`JInv`) accounts for what the visit has done: ids are unique
  once checked, the calls on the stack form a chain of references through the
  `temporary` ids, every root passed is visited, each visited id is in `ordered`
  once and each enabled one is built once; and no set of `permanent` ids is a
  ring, because a rule becomes permanent after all it refers to, so that a ring
  without its last rule would have been one before. A rejected file has a ring: the chain on the stack from
  the id met again back to itself.
* `AhoMatcher_proofs`: `FailExact` and `MatchExact`, for every set of keywords and
  every value. `WalkExact` is the core: where the failure links of all nodes up to
  a depth are exact, the walk along them from a node finds the longest suffix, with
  the next byte appended, that is in the trie. `AhoInv` then says how far
  `buildFailures` is: the queue holds the rest of one level of the trie and the
  beginning of the next; links and end marks are exact at the level of its head,
  above it and in the queue; and of a node at that level and its child, one is in
  the queue, so that nothing is forgotten when the queue moves on. A match stands
  at the longest suffix of what it has seen that is a node, and an end mark there
  is a keyword that ends at the byte just read.
* `KafkaSink_proofs`: `TypeOK`, `DrainComplete`, `GaugeSettled`, `StopIsPrompt` and
  the refinement.
  `DrainComplete` accounts for every record taken over: published, failed and
  counted, or, if `drainTimeout` passed, still shown by the gauge. The invariant
  counts the record in `Run`'s hands against published and failed ones, ties `closed` to where `Run` is, and says which of the two gauge writers
  can still be ahead of the other once the sink is closed. For `StopIsPrompt` it says
  that a sink about to publish and not closed has not yet published after its
  cancellation: the test after each receive sends every later record to the drain.
* `AuditWriter_proofs`: `TypeOK`, `ClearedIsDurable`, `StopIsDurable` and the
  refinement. The invariant: the table is exactly the first rows of `accepted`,
  in order, it covers what was cleared, `flush` is never more than one record
  past it, and a batch at its size is on its way to a flush or held up by one.
* `RateLimit_proofs`: `TypeOK`, `KeysOutliveTheirUse`, `BucketBound`,
  `SlidingBound` and `RefusedOverLimit`. The
  invariant: a call under way is at most `MaxDelay` old, so what it counts in
  expires no earlier than the end of the next bucket; until then the counter
  holds at least the executions of each rule; and what was admitted was counted,
  within the limit. The bound rests on the expiry: a counter that restarted within
  its bucket would admit again. `SlidingBound` adds what the estimate gives: at
  each offset `e` into a bucket, if anything was admitted up to `e`, what was so
  admitted and the share of the previous bucket that `e` leaves fit the limit
  together (`Smooth`). The two buckets under a window then add up to the bound.
  `RefusedOverLimit` goes the other way: a counter holds no more than the
  executions of one rule for one subject, so an estimate over the limit is one of
  the subject's own traffic. That a key has one subject is `KeyQuota`: joined names
  can be taken apart again when the last one is a single part (`JoinInjective`), and
  by `OwnKeys` the part it ends in names the rule. The run assumes `OwnKeys` as well.
* `Reload_proofs`: `TypeOK` (the engine in use was built from files that load) and
  `NoRollback`. The invariant: nothing is newer than the disk, reloads under way
  together know of each other, and what a reload has read is no older than its
  start nor, when it is alone, than the engine in use.
* `Server_proofs`: `TypeOK`, `AnsweredIsRecorded`, `ExitLosesNothingUnseen`,
  `EventHasAudit` and `StopOrder`. The invariant has an order of the shutdown (how
  the places of the shutdown goroutine and of `main` bound what servers and sinks
  do), the fates of a decision (what a handler's place tells of what each sink
  did), and that a sink whose `Run` has returned is closed and has nothing queued.
  They depend on each other: a decision is refused as late only because a sink is
  closed, and by the order a sink is closed only when no handler but one cut off by
  `Close` is left, whose answer nobody hears; and since a closed sink takes nothing
  over, what is queued when `Run` returns is all there will be.

Every invariant that a run checks is also proved. Only model-checked are the
liveness properties (`LoadEnds`, `EnqueueReturns`, `RunReturns`,
`OutageOnlyDelays`, `SignalServed`, `ShutdownEnds`), because the prover has no
fairness. Each inductive invariant was checked with TLC before it was proved.

## Not modelled

* Conversions between wire formats and engine types, `healthz`, `readyz`, metrics, logging,
  the generated bindings: no state, and no decision is taken there.
* Configuration and the set-up of connections: they run once, before anything
  else does. What remains of them is the sinks that are attached and the flag
  that says whether Redis was reachable. A start that ends in `Fatal` has no
  behaviour.
* `AllowEngine`, `StaticProvider`, `FallbackProvider` and the `RequestID`
  middleware, which the server does not use.
* Rate-limit rules with different windows in one instance.
* What a CEL expression computes and what features hold: choices of the
  environment in `Rules` and `RuleEngine`.

## What is left

The safety argument behind each liveness property, which needs no fairness: that
some step of the process it is about is possible until it is done (`ENABLED`
written out as a condition on the state), and a measure that each of its steps
lowers.
