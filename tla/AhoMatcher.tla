----------------------------- MODULE AhoMatcher -----------------------------
(***************************************************************************)
(* The matcher of a keyword rule (internal/rules/aho_matcher.go): keywords *)
(* are cleaned by NewKeywordRule and put into a trie, buildFailures links  *)
(* every node breadth first, and match runs over a value byte by byte.     *)
(*                                                                         *)
(* A node is named by the bytes that lead to it, so that the root is <<>>  *)
(* and next[b] of a node is the node with b appended, where there is one.  *)
(* Go ranges over a map in any order, and so do the actions here.  One     *)
(* letter has an upper case, and Space stands for white space.             *)
(***************************************************************************)
EXTENDS Naturals, Sequences, FiniteSets, SequencesExt

CONSTANTS
  Bytes,         \* bytes of a value
  Keywords,      \* lines of a keywords file
  MaxKeywords,   \* bound: keywords of one rule
  MaxValue       \* bound: bytes of a value

ASSUME AhoAssumption ==
  /\ MaxKeywords \in Nat /\ MaxValue \in Nat
  /\ Keywords \subseteq Seq(Bytes)
  /\ "A" \in Bytes => "a" \in Bytes

VARIABLES
  keywords,   \* the rule's keywords
  phase,      \* what the matcher is doing: "insert", "link" or "match"
  pending,    \* keywords not in the trie yet
  nodes,      \* the trie
  fail,       \* the failure link of each node
  terminal,   \* nodes at which a keyword ends
  queue,      \* nodes whose children are still to be linked
  value,      \* the bytes of the value matched so far
  state,      \* the node they lead to
  matched     \* match returned true

vars == <<keywords, phase, pending, nodes, fail, terminal, queue, value, state, matched>>

Root == <<>>
Space == "_"
ToLower(s) == [i \in DOMAIN s |-> IF s[i] = "A" THEN "a" ELSE s[i]]

TrimSpace(s) ==
  LET text == {i \in DOMAIN s : s[i] # Space}
  IN IF text = {} THEN <<>> ELSE SubSeq(s, Min(text), Max(text))

(* NewKeywordRule keeps the keywords that are not blank, in lower case.    *)
Clean(lines) == {ToLower(TrimSpace(kw)) : kw \in lines} \ {<<>>}

Init ==
  /\ \E k \in 0 .. MaxKeywords : keywords \in kSubset(k, Keywords)
  /\ phase = "insert"
  /\ pending = Clean(keywords)
  /\ nodes = {Root}
  /\ fail = [n \in {Root} |-> Root]
  /\ terminal = {}
  /\ queue = <<>>
  /\ value = <<>>
  /\ state = Root
  /\ matched = FALSE

Child(n, b) == Append(n, b)
HasNext(n, b) == Child(n, b) \in nodes   \* nodes[n].next has b
----------------------------------------------------------------------------
(* A keyword is walked from the root, with a new node, linked to the root, *)
(* wherever one is missing.                                                *)
Insert(kw) ==
  /\ phase = "insert" /\ kw \in pending
  /\ pending' = pending \ {kw}
  /\ nodes' = nodes \cup Prefixes(kw)
  /\ fail' = [n \in nodes' |-> Root]
  /\ terminal' = terminal \cup {kw}
  /\ UNCHANGED <<keywords, phase, queue, value, state, matched>>

(* buildFailures begins: the root's children are queued in any order.      *)
LinkRoots ==
  /\ phase = "insert" /\ pending = {}
  /\ phase' = "link"
  /\ queue' \in SetToSeqs({n \in nodes : Len(n) = 1})
  /\ UNCHANGED <<keywords, pending, nodes, fail, terminal, value, state, matched>>

(* A child falls back to a child of the root, or to the root.              *)
Fallback_RootOnly(parent, b) ==
  IF HasNext(Root, b) /\ <<b>> # Child(parent, b) THEN <<b>> ELSE Root

(* The failure link of a child: along the failure links of its parent to   *)
(* the first node that has its byte, the root being asked last.            *)
Fallback(parent, b) ==
  LET from[n \in nodes] ==
        IF n = Root THEN IF HasNext(Root, b) /\ <<b>> # Child(parent, b) THEN <<b>> ELSE Root
        ELSE IF HasNext(n, b) THEN Child(n, b)
        ELSE from[fail[n]]
  IN from[fail[parent]]

(* A node is terminal only if a keyword ends there.                        *)
Link_TerminalKept(b) ==
  LET child == Child(Head(queue), b)
  IN /\ phase = "link" /\ queue # <<>>
     /\ child \in nodes \ ToSet(queue)
     /\ fail' = [fail EXCEPT ![child] = Fallback(Head(queue), b)]
     /\ queue' = Append(queue, child)
     /\ UNCHANGED <<keywords, phase, pending, nodes, terminal, value, state, matched>>

(* One child of the node at the head of the queue is linked, made terminal *)
(* when its failure link is, and queued.                                   *)
Link(b) ==
  LET child == Child(Head(queue), b)
  IN /\ phase = "link" /\ queue # <<>>
     /\ child \in nodes \ ToSet(queue)
     /\ fail' = [fail EXCEPT ![child] = Fallback(Head(queue), b)]
     /\ terminal' = terminal \cup {n \in {child} : fail'[child] \in terminal}
     /\ queue' = Append(queue, child)
     /\ UNCHANGED <<keywords, phase, pending, nodes, value, state, matched>>

(* All children of the head are queued: on to the next, until none is left.*)
Dequeue ==
  /\ phase = "link"
  /\ IF queue = <<>> THEN phase' = "match" /\ UNCHANGED queue
     ELSE /\ \A b \in Bytes : HasNext(Head(queue), b) => Child(Head(queue), b) \in ToSet(queue)
          /\ queue' = Tail(queue)
          /\ UNCHANGED phase
  /\ UNCHANGED <<keywords, pending, nodes, fail, terminal, value, state, matched>>
----------------------------------------------------------------------------
(* nextState: along the failure links to a node that has the byte.         *)
nextState(n, b) ==
  LET from[m \in nodes] ==
        IF HasNext(m, b) THEN Child(m, b)
        ELSE IF m = Root THEN Root
        ELSE from[fail[m]]
  IN from[n]

(* The next byte of the value, which Evaluate has put in lower case; match *)
(* returns at the first terminal node.                                     *)
Scan(b) ==
  /\ phase = "match" /\ ~matched /\ Len(value) < MaxValue
  /\ value' = Append(value, b)
  /\ state' = nextState(state, ToLower(<<b>>)[1])
  /\ matched' = (state' \in terminal)
  /\ UNCHANGED <<keywords, phase, pending, nodes, fail, terminal, queue>>

Next ==
  \/ \E kw \in pending : Insert(kw)
  \/ LinkRoots
  \/ \E b \in Bytes : Link(b) \/ Scan(b)
  \/ Dequeue

Spec == Init /\ [][Next]_vars
----------------------------------------------------------------------------
(* Every link buildFailures has set, in whatever order the maps were       *)
(* ranged over, leads to the longest proper suffix of the node that is in  *)
(* the trie: a shorter one would lose matches that overlap.                *)
FailExact ==
  \A n \in nodes :
    phase = "match" \/ (phase = "link" /\ n \in ToSet(queue)) =>
      /\ IsStrictSuffix(fail[n], n) \/ n = Root
      /\ \A m \in nodes : IsStrictSuffix(m, n) => Len(m) <= Len(fail[n])

Occurs(kw, s) == \E i \in 0 .. Len(s) - Len(kw) : SubSeq(s, i + 1, i + Len(kw)) = kw

(* match is right about every value: it has returned true exactly when a   *)
(* keyword that is not blank occurs in what it has seen, letters compared  *)
(* without case, and a rule without keywords matches nothing.              *)
MatchExact ==
  phase = "match" =>
    (matched <=> \E line \in keywords :
                   LET kw == ToLower(TrimSpace(line))
                   IN kw # <<>> /\ Occurs(kw, ToLower(value)))
=============================================================================
