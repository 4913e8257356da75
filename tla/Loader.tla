------------------------------- MODULE Loader -------------------------------
(***************************************************************************)
(* LoadBytes and orderRules (internal/rules/loader.go): a rule file is     *)
(* checked, its rules are put in dependency order by a depth-first visit,  *)
(* and the enabled ones are built, in that order, into the snapshot the    *)
(* engine evaluates.                                                       *)
(*                                                                         *)
(* A file is [header, rules]: header says whether it parses, has version 1 *)
(* and no unsupported default; a raw rule is [id, type, enabled, op, of,   *)
(* valid], where valid stands for the checks of the rule's constructor     *)
(* that look at nothing else (window, limit, scope, field, keywords file,  *)
(* expression, action).                                                    *)
(***************************************************************************)
EXTENDS Naturals, Sequences

CONSTANTS Ids,       \* rule ids a file may use or refer to
          Files      \* the rule files considered

Blank == ""          \* an id that is empty when trimmed
Types == {"rate_limit", "keyword_match", "cel", "combiner"}   \* knownRuleType

RawRule == [id : Ids \cup {Blank}, type : Types \cup {"other"}, enabled : BOOLEAN,
            op : {"all", "any", "other"}, of : Seq(Ids), valid : BOOLEAN]

ASSUME FilesAssumption ==
  /\ Blank \notin Ids
  /\ Files \subseteq [header : BOOLEAN, rules : Seq(RawRule)]

VARIABLES
  file,        \* the file that is loaded
  redis,       \* opts.Redis is not nil
  stage,       \* where LoadBytes is
  cause,       \* why the file was rejected
  i,           \* index of the current loop
  ids,         \* ids seen by the first loop
  stack,       \* the calls of visit under way: [id, k], k the next reference
  temporary,   \* ids whose visit is under way
  permanent,   \* ids whose visit is over
  ordered,     \* ids in the order their visits ended
  built        \* ids of the rules built

vars == <<file, redis, stage, cause, i, ids, stack, temporary, permanent, ordered, built>>

Init ==
  /\ file \in Files
  /\ redis \in BOOLEAN
  /\ stage = "header"
  /\ cause = "none"
  /\ i = 1
  /\ ids = {}
  /\ stack = <<>>
  /\ temporary = {}
  /\ permanent = {}
  /\ ordered = <<>>
  /\ built = <<>>

Raw(id) == file.rules[CHOOSE n \in DOMAIN file.rules : file.rules[n].id = id]   \* byID
Refs(id) == IF Raw(id).type = "combiner" THEN Raw(id).of ELSE <<>>
RuleEnabled(id) == Raw(id).enabled

Reject(why) ==
  /\ stage' = "rejected"
  /\ cause' = why
  /\ UNCHANGED <<file, redis, i, ids, stack, temporary, permanent, ordered, built>>
----------------------------------------------------------------------------
Header ==
  /\ stage = "header"
  /\ \/ ~file.header /\ Reject("header")
     \/ /\ file.header
        /\ stage' = "ids"
        /\ UNCHANGED <<file, redis, cause, i, ids, stack, temporary, permanent, ordered, built>>

(* The first loop takes an id that is blank.                               *)
CheckId_AllowsBlank ==
  /\ stage = "ids"
  /\ i <= Len(file.rules)
  /\ LET raw == file.rules[i]
     IN  \/ raw.id \in ids /\ Reject("duplicate")
         \/ raw.id \notin ids /\ raw.type \notin Types /\ Reject("type")
         \/ /\ raw.id \notin ids /\ raw.type \in Types
            /\ ids' = ids \cup {raw.id}
            /\ i' = i + 1
            /\ UNCHANGED <<file, redis, stage, cause, stack, temporary, permanent, ordered, built>>

(* The first loop: ids are given and unique, types are known.              *)
CheckId ==
  /\ stage = "ids"
  /\ i <= Len(file.rules)
  /\ LET raw == file.rules[i]
     IN  \/ raw.id = Blank /\ Reject("blank")
         \/ raw.id # Blank /\ raw.id \in ids /\ Reject("duplicate")
         \/ raw.id # Blank /\ raw.id \notin ids /\ raw.type \notin Types /\ Reject("type")
         \/ /\ raw.id # Blank /\ raw.id \notin ids /\ raw.type \in Types
            /\ ids' = ids \cup {raw.id}
            /\ i' = i + 1
            /\ UNCHANGED <<file, redis, stage, cause, stack, temporary, permanent, ordered, built>>

(* The second loop: a combiner refers to rules of the file.                *)
CheckRefs ==
  /\ stage = "refs"
  /\ i <= Len(file.rules)
  /\ LET raw == file.rules[i]
         unknown == raw.type = "combiner" /\ \E n \in DOMAIN raw.of : raw.of[n] \notin ids
     IN  \/ unknown /\ Reject("reference")
         \/ /\ ~unknown
            /\ i' = i + 1
            /\ UNCHANGED <<file, redis, stage, cause, ids, stack, temporary, permanent, ordered, built>>

(* A loop over the file ends, and the next stage starts from the top.      *)
NextStage ==
  /\ \/ stage = "ids" /\ stage' = "refs"
     \/ stage = "refs" /\ stage' = "order"
     \/ stage = "order" /\ stack = <<>> /\ stage' = "build"
  /\ i > Len(file.rules)
  /\ i' = 1
  /\ UNCHANGED <<file, redis, cause, ids, stack, temporary, permanent, ordered, built>>
----------------------------------------------------------------------------
(* visit's early return does not wait for the visit to be over.            *)
Skips_WhileVisiting(id) == id \in permanent \cup temporary

(* visit returns at once on an id it has finished with.                    *)
Skips(id) == id \in permanent

(* The call visit(id), made with calls under way.  An id outside byID is   *)
(* an error too, but CheckRefs has let none through.                       *)
Visit(id, calls) ==
  \/ Skips(id) /\ stack' = calls /\ UNCHANGED <<temporary, stage, cause>>
  \/ ~Skips(id) /\ id \in temporary /\ stage' = "rejected" /\ cause' = "cycle"
     /\ UNCHANGED <<stack, temporary>>
  \/ ~Skips(id) /\ id \notin temporary
     /\ stack' = Append(calls, [id |-> id, k |-> 1])
     /\ temporary' = temporary \cup {id}
     /\ UNCHANGED <<stage, cause>>

(* The loop at the end of orderRules.                                      *)
VisitRoot ==
  /\ stage = "order"
  /\ stack = <<>>
  /\ i <= Len(file.rules)
  /\ Visit(file.rules[i].id, stack)
  /\ i' = i + 1
  /\ UNCHANGED <<file, redis, ids, permanent, ordered, built>>

Top == stack[Len(stack)]

(* The innermost visit calls visit on the same reference again.            *)
VisitRef_Repeats ==
  /\ stage = "order"
  /\ stack # <<>>
  /\ Top.k <= Len(Refs(Top.id))
  /\ Visit(Refs(Top.id)[Top.k], stack)
  /\ UNCHANGED <<file, redis, i, ids, permanent, ordered, built>>

(* The innermost visit calls visit on its next reference.                  *)
VisitRef ==
  /\ stage = "order"
  /\ stack # <<>>
  /\ Top.k <= Len(Refs(Top.id))
  /\ Visit(Refs(Top.id)[Top.k], [stack EXCEPT ![Len(stack)].k = @ + 1])
  /\ UNCHANGED <<file, redis, i, ids, permanent, ordered, built>>

(* The rule is put in front of the ones it refers to.                      *)
Placed_Front(id) == <<id>> \o ordered

Placed(id) == Append(ordered, id)

(* A visit that returns forgets to mark its rule permanent.                *)
VisitReturn_Unmarked ==
  /\ stage = "order"
  /\ stack # <<>>
  /\ Top.k > Len(Refs(Top.id))
  /\ stack' = SubSeq(stack, 1, Len(stack) - 1)
  /\ temporary' = temporary \ {Top.id}
  /\ ordered' = Placed(Top.id)
  /\ UNCHANGED <<file, redis, stage, cause, i, ids, permanent, built>>

(* The innermost visit has seen its references and returns.                *)
VisitReturn ==
  /\ stage = "order"
  /\ stack # <<>>
  /\ Top.k > Len(Refs(Top.id))
  /\ stack' = SubSeq(stack, 1, Len(stack) - 1)
  /\ temporary' = temporary \ {Top.id}
  /\ permanent' = permanent \cup {Top.id}
  /\ ordered' = Placed(Top.id)
  /\ UNCHANGED <<file, redis, stage, cause, i, ids, built>>
----------------------------------------------------------------------------
(* The constructors that return a rule and no error.                       *)
NewKeywordRule(raw) == raw.valid
NewCELRule(raw) == raw.valid
NewRateLimitRule(raw) == redis /\ raw.valid
NewCombinerRule(raw) == raw.op \in {"all", "any"} /\ raw.of # <<>> /\ raw.valid

(* buildRule returns no error.                                             *)
Buildable(raw) ==
  \/ raw.type = "keyword_match" /\ NewKeywordRule(raw)
  \/ raw.type = "cel" /\ NewCELRule(raw)
  \/ raw.type = "rate_limit" /\ NewRateLimitRule(raw)
  \/ raw.type = "combiner" /\ NewCombinerRule(raw)

BuildRule ==
  /\ stage = "build"
  /\ i <= Len(ordered)
  /\ LET id == ordered[i]
     IN  \/ RuleEnabled(id) /\ ~Buildable(Raw(id)) /\ Reject("build")
         \/ /\ ~RuleEnabled(id) \/ Buildable(Raw(id))
            /\ built' = IF RuleEnabled(id) THEN Append(built, id) ELSE built
            /\ i' = i + 1
            /\ UNCHANGED <<file, redis, stage, cause, ids, stack, temporary, permanent, ordered>>

Loaded ==
  /\ stage = "build"
  /\ i > Len(ordered)
  /\ stage' = "loaded"
  /\ UNCHANGED <<file, redis, cause, i, ids, stack, temporary, permanent, ordered, built>>

Next ==
  \/ Header \/ CheckId \/ CheckRefs \/ NextStage
  \/ VisitRoot \/ VisitRef \/ VisitReturn
  \/ BuildRule \/ Loaded

Spec == Init /\ [][Next]_vars

(* LoadBytes runs in one goroutine and waits for nobody.                   *)
FairSpec == Spec /\ WF_vars(Next)
----------------------------------------------------------------------------
Causes == {"none", "header", "blank", "duplicate", "type", "reference", "cycle", "build"}

(* Every variable of the loader has its type.                              *)
TypeOK ==
  /\ file \in Files
  /\ redis \in BOOLEAN
  /\ stage \in {"header", "ids", "refs", "order", "build", "loaded", "rejected"}
  /\ cause \in Causes
  /\ i \in Nat \ {0}
  /\ ids \subseteq Ids
  /\ stack \in Seq([id : Ids, k : Nat \ {0}])
  /\ temporary \subseteq Ids
  /\ permanent \subseteq Ids
  /\ ordered \in Seq(Ids)
  /\ built \in Seq(Ids)

(* What the engine relies on: in a snapshot each rule a combiner refers to *)
(* comes before the combiner, unless the file disables it.                 *)
DependenciesFirst ==
  stage = "loaded" =>
    \A n \in DOMAIN built : \A q \in DOMAIN Refs(built[n]) :
      LET ref == Refs(built[n])[q]
      IN  RuleEnabled(ref) => \E m \in 1..(n - 1) : built[m] = ref

(* Nothing is lost and nothing is evaluated twice: a snapshot has each     *)
(* enabled rule of the file exactly once.                                  *)
SnapshotComplete ==
  stage = "loaded" =>
    /\ \A n, m \in DOMAIN built : built[n] = built[m] => n = m
    /\ \A n \in DOMAIN file.rules :
         file.rules[n].enabled <=> \E m \in DOMAIN built : built[m] = file.rules[n].id

(* Rules that refer to one another in a ring: a set in which each rule     *)
(* refers to one of the set.                                               *)
Ring(S) == S # {} /\ \A id \in S : \E q \in DOMAIN Refs(id) : Refs(id)[q] \in S

(* Cycles are found exactly: a file whose ids and references are in order  *)
(* is rejected for a cycle if and only if some of its rules form a ring.   *)
CyclesExact ==
  /\ cause = "cycle" => \E S \in SUBSET ids : Ring(S)
  /\ stage \in {"build", "loaded"} => ~\E S \in SUBSET ids : Ring(S)

(* Loading ends for every file, cycles and self-references included.       *)
LoadEnds == <>(stage \in {"loaded", "rejected"})
=============================================================================
