-------------------------- MODULE AhoMatcher_proofs --------------------------
(***************************************************************************)
(* Proofs about AhoMatcher, for every set of keywords and every value: the *)
(* failure links are exact, and so is the match.                           *)
(*                                                                         *)
(* The argument is in four parts: suffixes as positions of a sequence; the *)
(* walk along exact links, which finds the longest suffix that is a node   *)
(* (by induction over the depth, a property being a set of numbers);       *)
(* cleaned keywords and values; and the levels of the breadth-first queue, *)
(* for which the invariant AhoInv is inductive.                            *)
(***************************************************************************)
EXTENDS AhoMatcher, SequenceTheorems, FiniteSetTheorems, WellFoundedInduction, TLAPS

(* m is a suffix of n, in terms of positions.                              *)
Suf(m, n) == /\ Len(m) <= Len(n)
             /\ \A i \in 1 .. Len(m) : m[i] = n[Len(n) - Len(m) + i]

(* The specification takes suffixes from SequencesExt, which reverses.     *)
LEMMA SuffixIs ==
  ASSUME NEW B, NEW m \in Seq(B), NEW n \in Seq(B)
  PROVE  IsSuffix(m, n) <=> Suf(m, n)
<1> DEFINE M == Reverse(m)
           N == Reverse(n)
<1>1. /\ Len(m) \in Nat
      /\ Len(n) \in Nat
      /\ M \in Seq(B)
      /\ N \in Seq(B)
      /\ Len(M) = Len(m)
      /\ Len(N) = Len(n)
      /\ \A i \in 1 .. Len(m) : M[i] = m[Len(m) - i + 1]
      /\ \A i \in 1 .. Len(n) : N[i] = n[Len(n) - i + 1]
  BY DEF Reverse
<1> HIDE DEF M, N
<1>2. IsSuffix(m, n) <=> (Len(m) <= Len(n) /\ \A i \in 1 .. Len(m) : M[i] = N[i])
  <2>1. SubSeq(M, 1, Len(M)) = M
    BY <1>1
  <2>2. ASSUME Len(m) <= Len(n) 
        PROVE /\ SubSeq(N, 1, Len(m)) \in Seq(B) /\ Len(SubSeq(N, 1, Len(m))) = Len(m) 
              /\ \A i \in 1 .. Len(m) : SubSeq(N, 1, Len(m))[i] = N[i]
    BY <1>1, <2>2
  <2>3. ASSUME Len(m) <= Len(n), \A i \in 1 .. Len(m) : M[i] = N[i]
        PROVE  M = SubSeq(N, 1, Len(m))
    BY <1>1, <2>2, <2>3, SeqEqual
  <2> QED BY <1>1, <2>1, <2>2, <2>3 DEF IsSuffix, IsPrefix, M, N
<1>3. ASSUME Len(m) <= Len(n)
      PROVE  (\A i \in 1 .. Len(m) : M[i] = N[i]) <=> \A i \in 1 .. Len(m) : m[i] = n[Len(n) - Len(m) + i]
  <2>1. ASSUME \A i \in 1 .. Len(m) : M[i] = N[i], NEW i \in 1 .. Len(m)
        PROVE  m[i] = n[Len(n) - Len(m) + i]
    <3>1. Len(m) - i + 1 \in 1 .. Len(m) /\ Len(m) - i + 1 \in 1 .. Len(n)
      BY <1>1, <1>3
    <3>2. /\ Len(m) - (Len(m) - i + 1) + 1 = i
          /\ Len(n) - (Len(m) - i + 1) + 1 = Len(n) - Len(m) + i
      BY <1>1
    <3> QED BY <1>1, <2>1, <3>1, <3>2
  <2>2. ASSUME \A i \in 1 .. Len(m) : m[i] = n[Len(n) - Len(m) + i], NEW i \in 1 .. Len(m)
        PROVE  M[i] = N[i]
    <3>1. Len(m) - i + 1 \in 1 .. Len(m) /\ i \in 1 .. Len(n)
      BY <1>1, <1>3
    <3>2. Len(n) - Len(m) + (Len(m) - i + 1) = Len(n) - i + 1
      BY <1>1
    <3> QED BY <1>1, <2>2, <3>1, <3>2
  <2> QED BY <2>1, <2>2
<1> QED BY <1>2, <1>3 DEF Suf

(* A sequence is a suffix of itself, and the empty one of every sequence.  *)
LEMMA SufBasic ==
  ASSUME NEW B, NEW n \in Seq(B)
  PROVE  Suf(n, n) /\ Suf(<<>>, n) /\ Len(n) \in Nat
  BY DEF Suf

(* Suffixes of suffixes.                                                   *)
LEMMA SufTrans ==
  ASSUME NEW B, NEW l \in Seq(B), NEW m \in Seq(B), NEW n \in Seq(B), Suf(l, m), Suf(m, n)
  PROVE  Suf(l, n)
<1>1. Len(l) \in Nat /\ Len(m) \in Nat /\ Len(n) \in Nat /\ Len(l) <= Len(m) /\ Len(m) <= Len(n)
  BY DEF Suf
<1>2. ASSUME NEW i \in 1 .. Len(l) PROVE l[i] = n[Len(n) - Len(l) + i]
  <2>1. Len(m) - Len(l) + i \in 1 .. Len(m)
    BY <1>1
  <2>2. l[i] = m[Len(m) - Len(l) + i]
    BY DEF Suf
  <2>3. m[Len(m) - Len(l) + i] = n[Len(n) - Len(m) + (Len(m) - Len(l) + i)]
    BY <2>1 DEF Suf
  <2>4. Len(n) - Len(m) + (Len(m) - Len(l) + i) = Len(n) - Len(l) + i
    BY <1>1
  <2> QED BY <2>2, <2>3, <2>4
<1> QED BY <1>1, <1>2 DEF Suf

(* Of two suffixes of a sequence the shorter is one of the longer.         *)
LEMMA SufNested ==
  ASSUME NEW B, NEW l \in Seq(B), NEW m \in Seq(B), NEW n \in Seq(B),
         Suf(l, n), Suf(m, n), Len(l) <= Len(m)
  PROVE  Suf(l, m)
<1>1. Len(l) \in Nat /\ Len(m) \in Nat /\ Len(n) \in Nat /\ Len(m) <= Len(n)
  BY DEF Suf
<1>2. ASSUME NEW i \in 1 .. Len(l) PROVE l[i] = m[Len(m) - Len(l) + i]
  <2>1. Len(m) - Len(l) + i \in 1 .. Len(m)
    BY <1>1
  <2>2. l[i] = n[Len(n) - Len(l) + i]
    BY DEF Suf
  <2>3. m[Len(m) - Len(l) + i] = n[Len(n) - Len(m) + (Len(m) - Len(l) + i)]
    BY <2>1 DEF Suf
  <2>4. Len(n) - Len(m) + (Len(m) - Len(l) + i) = Len(n) - Len(l) + i
    BY <1>1
  <2> QED BY <2>2, <2>3, <2>4
<1> QED BY <1>2 DEF Suf

(* A suffix that is not shorter is the sequence.                           *)
LEMMA SufEqual ==
  ASSUME NEW B, NEW m \in Seq(B), NEW n \in Seq(B), Suf(m, n), Len(n) <= Len(m)
  PROVE  m = n
<1>1. Len(m) \in Nat /\ Len(n) \in Nat /\ Len(m) = Len(n)
  BY DEF Suf
<1>2. \A i \in 1 .. Len(m) : m[i] = n[i]
  <2> TAKE i \in 1 .. Len(m)
  <2>1. Len(n) - Len(m) + i = i
    BY <1>1
  <2> QED BY <2>1 DEF Suf
<1> QED BY <1>1, <1>2, SeqEqual

(* A byte appended to both.                                                *)
LEMMA SufAppend ==
  ASSUME NEW B, NEW m \in Seq(B), NEW n \in Seq(B), NEW b \in B, Suf(m, n)
  PROVE  Suf(Append(m, b), Append(n, b))
<1> DEFINE M == Append(m, b)
           N == Append(n, b)
<1>1. /\ Len(m) \in Nat /\ Len(n) \in Nat /\ Len(m) <= Len(n)
      /\ Len(M) = Len(m) + 1
      /\ Len(N) = Len(n) + 1
      /\ M[Len(m) + 1] = b
      /\ N[Len(n) + 1] = b
      /\ \A i \in 1 .. Len(m) : M[i] = m[i]
      /\ \A i \in 1 .. Len(n) : N[i] = n[i]
  BY DEF Suf
<1> HIDE DEF M, N
<1>2. ASSUME NEW i \in 1 .. Len(m) + 1
      PROVE  M[i] = N[Len(n) + 1 - (Len(m) + 1) + i]
  <2>1. CASE i = Len(m) + 1
    <3>1. Len(n) + 1 - (Len(m) + 1) + i = Len(n) + 1
      BY <1>1, <2>1
    <3> QED BY <1>1, <2>1, <3>1
  <2>2. CASE i \in 1 .. Len(m)
    <3>1. Len(n) + 1 - (Len(m) + 1) + i = Len(n) - Len(m) + i /\ Len(n) - Len(m) + i \in 1 .. Len(n)
      BY <1>1, <2>2
    <3> QED BY <1>1, <2>2, <3>1 DEF Suf
  <2> QED BY <1>1, <2>1, <2>2
<1>3. Suf(M, N)
  BY <1>1, <1>2 DEF Suf
<1> QED BY <1>3 DEF M, N

(* The last byte taken from both.                                          *)
LEMMA SufSplit ==
  ASSUME NEW B, NEW m \in Seq(B), NEW n \in Seq(B), NEW b \in B, Suf(m, Append(n, b)), m # <<>>
  PROVE  \E s \in Seq(B) : m = Append(s, b) /\ Suf(s, n)
<1> DEFINE N == Append(n, b)
<1>1. PICK s \in Seq(B), c \in B : m = Append(s, c)
  BY SequenceEmptyOrAppend
<1>2. /\ Len(s) \in Nat /\ Len(n) \in Nat
      /\ Len(m) = Len(s) + 1
      /\ Len(N) = Len(n) + 1
      /\ m[Len(s) + 1] = c
      /\ N[Len(n) + 1] = b
      /\ \A i \in 1 .. Len(s) : m[i] = s[i]
      /\ \A i \in 1 .. Len(n) : N[i] = n[i]
  BY <1>1
<1>3. Suf(m, N)
  BY DEF N
<1> HIDE DEF N
<1>4. Len(m) <= Len(n) + 1 /\ \A i \in 1 .. Len(m) : m[i] = N[Len(n) + 1 - Len(m) + i]
  BY <1>2, <1>3 DEF Suf
<1>5. c = b
  <2>1. Len(s) + 1 \in 1 .. Len(m) /\ Len(n) + 1 - Len(m) + (Len(s) + 1) = Len(n) + 1
    BY <1>2
  <2> QED BY <1>2, <1>4, <2>1
<1>6. ASSUME NEW i \in 1 .. Len(s) PROVE s[i] = n[Len(n) - Len(s) + i]
  <2>1. /\ i \in 1 .. Len(m)
        /\ Len(n) + 1 - Len(m) + i = Len(n) - Len(s) + i
        /\ Len(n) - Len(s) + i \in 1 .. Len(n)
    BY <1>2, <1>4
  <2> QED BY <1>2, <1>4, <2>1
<1>7. Suf(s, n)
  BY <1>2, <1>4, <1>6 DEF Suf
<1> QED BY <1>1, <1>5, <1>7
-----------------------------------------------------------------------------
(* Induction over the natural numbers, for a property given as a set.      *)
LEMMA LeastNat ==
  ASSUME NEW T \in SUBSET Nat, T # {}
  PROVE  \E m \in T : \A n \in T : m <= n
<1> DEFINE R == OpToRel(<, Nat)
<1>1. IsWellFoundedOn(R, Nat)
  BY NatLessThanWellFounded
<1>2. \A x, y \in Nat : x < y => <<x, y>> \in R
  BY DEF OpToRel
<1> HIDE DEF R
<1>3. PICK x \in T : \A y \in T : ~(<<y, x>> \in R)
  BY <1>1, WFMin
<1>4. \A y \in T : ~(y < x)
  BY <1>2, <1>3
<1> QED BY <1>4

LEMMA SetInduction ==
  ASSUME NEW S, 0 \in S, \A n \in Nat : n \in S => n + 1 \in S
  PROVE  Nat \subseteq S
<1> DEFINE T == Nat \ S
<1> SUFFICES ASSUME T # {} PROVE FALSE
  OBVIOUS
<1>1. PICK m \in T : \A n \in T : m <= n
  BY LeastNat
<1>2. CASE m = 0
  BY <1>2
<1>3. CASE m # 0
  <2>1. m - 1 \in Nat /\ m - 1 \notin T /\ m = (m - 1) + 1
    BY <1>1, <1>3
  <2> QED BY <2>1
<1> QED BY <1>2, <1>3

(* A set of nodes: with each node, the one it is a child of.               *)
Trie(T) ==
  /\ T \subseteq Seq(Bytes)
  /\ Root \in T
  /\ \A n \in Seq(Bytes), b \in Bytes : Append(n, b) \in T => n \in T

(* Links that lead to shorter nodes.                                       *)
Shorter(T, f) == f \in [T -> T] /\ \A n \in T : n # Root => Len(f[n]) < Len(n)

(* m is the longest node that is a suffix, or a proper suffix, of s.       *)
Longest(m, s, T) ==
  /\ m \in T
  /\ Suf(m, s)
  /\ \A l \in T : Suf(l, s) => Len(l) <= Len(m)

LongestProper(m, s, T) ==
  /\ m \in T
  /\ Suf(m, s)
  /\ m # s
  /\ \A l \in T : Suf(l, s) /\ l # s => Len(l) <= Len(m)

(* The walk along the links to the first node that has byte b.             *)
Walk(T, f, b, g) ==
  \A n \in T : g[n] = IF Append(n, b) \in T THEN Append(n, b)
                      ELSE IF n = Root THEN Root ELSE g[f[n]]

(* Links lead to shorter nodes, so that a walk ends: the recursion of      *)
(* nextState and buildFailures defines a function.                         *)
LEMMA WalkExists ==
  ASSUME NEW T, Trie(T), NEW f, Shorter(T, f), NEW b \in Bytes,
         NEW d \in Nat, \A n \in T : Len(n) <= d
  PROVE  \E g \in [T -> T] : Walk(T, f, b, g)
<1> DEFINE Upto(k) == {n \in T : Len(n) <= k}
           Turn(g, n) == IF Append(n, b) \in T THEN Append(n, b)
                         ELSE IF n = Root THEN Root ELSE g[f[n]]
           Q(k) == \E g \in [Upto(k) -> T] : \A n \in Upto(k) : g[n] = Turn(g, n)
           S == {k \in Nat : Q(k)}
<1>1. \A n \in T : Len(n) \in Nat /\ (n # Root => f[n] \in T /\ Len(f[n]) \in Nat /\ Len(f[n]) < Len(n))
  BY DEF Trie, Shorter
<1>2. Root \in T /\ Len(Root) = 0
  BY DEF Trie, Root
<1>3. ASSUME NEW k \in Nat, NEW h \in [Upto(k) -> T] PROVE \A n \in Upto(k + 1) : Turn(h, n) \in T
  <2> TAKE n \in Upto(k + 1)
  <2>1. n # Root => f[n] \in Upto(k)
    BY <1>1
  <2> QED BY <1>2, <2>1
<1>4. Q(0)
  <2> DEFINE g == [n \in Upto(0) |-> IF Append(n, b) \in T THEN Append(n, b) ELSE Root]
  <2>1. \A n \in Upto(0) : n = Root
    BY <1>1 DEF Trie, Root
  <2>2. g \in [Upto(0) -> T]
    BY <1>2
  <2>3. \A n \in Upto(0) : g[n] = Turn(g, n)
    BY <2>1
  <2> HIDE DEF g
  <2> QED BY <2>2, <2>3
<1>5. ASSUME NEW k \in Nat, Q(k) PROVE Q(k + 1)
  <2>1. PICK h \in [Upto(k) -> T] : \A n \in Upto(k) : h[n] = Turn(h, n)
    BY <1>5
  <2> DEFINE g == [n \in Upto(k + 1) |-> Turn(h, n)]
  <2>2. g \in [Upto(k + 1) -> T]
    BY <1>3
  <2>3. \A n \in Upto(k) : n \in Upto(k + 1) /\ g[n] = h[n]
    BY <1>1, <2>1
  <2>4. ASSUME NEW n \in Upto(k + 1) PROVE g[n] = Turn(g, n)
    <3>1. g[n] = Turn(h, n)
      OBVIOUS
    <3>2. n # Root => f[n] \in Upto(k)
      BY <1>1
    <3> HIDE DEF g
    <3> QED BY <2>3, <3>1, <3>2
  <2> HIDE DEF g
  <2> QED BY <2>2, <2>4
<1>6. Q(d)
  <2> HIDE DEF Q
  <2>1. 0 \in S /\ \A n \in Nat : n \in S => n + 1 \in S
    BY <1>4, <1>5
  <2> HIDE DEF S
  <2>2. Nat \subseteq S
    BY <2>1, SetInduction
  <2> QED BY <2>2 DEF S
<1>7. Upto(d) = T
  OBVIOUS
<1>8. PICK g \in [T -> T] : \A n \in T : g[n] = Turn(g, n)
  BY <1>6, <1>7
<1> QED BY <1>8 DEF Walk

(* A proper suffix of a node with a byte appended is the byte appended to  *)
(* a proper suffix of the node, or empty.                                  *)
LEMMA WalkStep ==
  ASSUME NEW T, Trie(T), NEW b \in Bytes, NEW n \in T, Append(n, b) \notin T,
         NEW m, LongestProper(m, n, T), NEW g, Longest(g, Append(m, b), T)
  PROVE  Longest(g, Append(n, b), T)
<1>1. /\ n \in Seq(Bytes)
      /\ m \in Seq(Bytes)
      /\ g \in Seq(Bytes)
      /\ Suf(m, n)
      /\ Append(n, b) \in Seq(Bytes)
      /\ Append(m, b) \in Seq(Bytes)
  BY DEF Trie, LongestProper, Longest
<1>2. Suf(Append(m, b), Append(n, b))
  BY <1>1, SufAppend
<1>3. Suf(g, Append(n, b))
  BY <1>1, <1>2, SufTrans DEF Longest
<1>4. ASSUME NEW l \in T, Suf(l, Append(n, b)) PROVE Len(l) <= Len(g)
  <2>1. l \in Seq(Bytes) /\ Len(l) \in Nat /\ Len(g) \in Nat
    BY <1>1 DEF Trie
  <2>2. CASE l = <<>>
    BY <2>1, <2>2
  <2>3. CASE l # <<>>
    <3>1. PICK s \in Seq(Bytes) : l = Append(s, b) /\ Suf(s, n)
      BY <1>1, <1>4, <2>1, <2>3, SufSplit
    <3>2. s \in T /\ s # n
      BY <3>1 DEF Trie
    <3>3. Len(s) <= Len(m)
      BY <3>1, <3>2 DEF LongestProper
    <3>4. Suf(s, m)
      BY <1>1, <3>1, <3>3, SufNested
    <3>5. Suf(l, Append(m, b))
      BY <1>1, <3>1, <3>4, SufAppend
    <3> QED BY <3>5 DEF Longest
  <2> QED BY <2>2, <2>3
<1> QED BY <1>3, <1>4 DEF Longest

(* Where links are exact, the walk finds the longest suffix.               *)
LEMMA WalkExact ==
  ASSUME NEW T, Trie(T), NEW f, Shorter(T, f), NEW b \in Bytes, NEW g, Walk(T, f, b, g),
         NEW d \in Nat, \A n \in T : n # Root /\ Len(n) <= d => LongestProper(f[n], n, T)
  PROVE  \A n \in T : Len(n) <= d => Longest(g[n], Append(n, b), T)
<1> DEFINE Q(k) == \A n \in T : Len(n) <= k /\ Len(n) <= d => Longest(g[n], Append(n, b), T)
           S == {k \in Nat : Q(k)}
<1>1. \A n \in T : /\ n \in Seq(Bytes)
                   /\ Len(n) \in Nat
                   /\ Append(n, b) \in Seq(Bytes)
                   /\ n # Root => f[n] \in T /\ Len(f[n]) < Len(n) /\ Len(f[n]) \in Nat
  BY DEF Trie, Shorter
<1>2. ASSUME NEW n \in T, Append(n, b) \in T
      PROVE  Longest(g[n], Append(n, b), T)
  <2>1. g[n] = Append(n, b)
    BY <1>2 DEF Walk
  <2>2. Suf(Append(n, b), Append(n, b))
    BY <1>1, SufBasic
  <2>3. \A l \in T : Suf(l, Append(n, b)) => Len(l) <= Len(Append(n, b))
    BY DEF Suf
  <2> QED BY <1>2, <2>1, <2>2, <2>3 DEF Longest
<1>3. ASSUME Append(Root, b) \notin T PROVE Longest(g[Root], Append(Root, b), T)
  <2>1. Root \in T
    BY DEF Trie
  <2>2. g[Root] = Root
    BY <1>3, <2>1 DEF Walk
  <2>3. Suf(Root, Append(Root, b))
    BY <1>1, <2>1, SufBasic DEF Root
  <2>4. ASSUME NEW l \in T, Suf(l, Append(Root, b)) PROVE Len(l) <= Len(Root)
    <3>1. l \in Seq(Bytes) /\ Root \in Seq(Bytes)
      BY <1>1, <2>1
    <3>2. l = <<>>
      <4>1. SUFFICES ASSUME l # <<>> PROVE FALSE
        OBVIOUS
      <4>2. PICK s \in Seq(Bytes) : l = Append(s, b) /\ Suf(s, Root)
        BY <2>4, <3>1, <4>1, SufSplit
      <4>3. s = Root
        BY <4>2 DEF Suf, Root
      <4> QED BY <1>3, <4>2, <4>3
    <3> QED BY <3>2 DEF Root
  <2> QED BY <2>1, <2>2, <2>3, <2>4 DEF Longest
<1>4. ASSUME NEW n \in T, n # Root, Append(n, b) \notin T, Len(n) <= d,
             Longest(g[f[n]], Append(f[n], b), T)
      PROVE  Longest(g[n], Append(n, b), T)
  <2>1. g[n] = g[f[n]]
    BY <1>4 DEF Walk
  <2>2. LongestProper(f[n], n, T)
    BY <1>4
  <2> QED BY <1>4, <2>1, <2>2, WalkStep
<1>5. Q(0)
  <2>1. \A n \in T : Len(n) <= 0 => n = Root
    BY <1>1 DEF Root
  <2> QED BY <1>2, <1>3, <2>1
<1>6. ASSUME NEW k \in Nat, Q(k) PROVE Q(k + 1)
  <2> SUFFICES ASSUME NEW n \in T, Len(n) <= k + 1, Len(n) <= d
               PROVE  Longest(g[n], Append(n, b), T)
    OBVIOUS
  <2>1. CASE n # Root /\ Append(n, b) \notin T
    <3>1. f[n] \in T /\ Len(f[n]) <= k /\ Len(f[n]) <= d
      BY <1>1, <2>1
    <3>2. Longest(g[f[n]], Append(f[n], b), T)
      BY <1>6, <3>1
    <3> QED BY <1>4, <2>1, <3>2
  <2> QED BY <1>2, <1>3, <2>1
<1>7. Q(d)
  <2> HIDE DEF Q
  <2>1. 0 \in S /\ \A n \in Nat : n \in S => n + 1 \in S
    BY <1>5, <1>6
  <2> HIDE DEF S
  <2>2. Nat \subseteq S
    BY <2>1, SetInduction
  <2> QED BY <2>2 DEF S
<1> QED BY <1>7
-----------------------------------------------------------------------------
(* No keyword is longer than d.                                            *)
Deep(T, d) == d \in Nat /\ \A n \in T : Len(n) <= d

(* nextState is the walk from the match's node.                            *)
LEMMA NextStateWalks ==
  ASSUME Trie(nodes), Shorter(nodes, fail), NEW d, Deep(nodes, d), NEW b \in Bytes
  PROVE  \E g : Walk(nodes, fail, b, g) /\ \A n \in nodes : nextState(n, b) = g[n]
<1> DEFINE P(g) == g = [m \in nodes |-> IF HasNext(m, b) THEN Child(m, b)
                                       ELSE IF m = Root THEN Root ELSE g[fail[m]]]
<1>1. \E g : P(g)
  <2>1. PICK g \in [nodes -> nodes] : Walk(nodes, fail, b, g)
    BY WalkExists DEF Deep
  <2>2. P(g)
    BY <2>1 DEF Walk, HasNext, Child
  <2> QED BY <2>2
<1>2. \A n : nextState(n, b) = (CHOOSE g : P(g))[n]
  BY Zenon DEF nextState
<1> HIDE DEF P
<1>3. P(CHOOSE g : P(g))
  BY <1>1, Zenon
<1>4. PICK g : P(g) /\ \A n : nextState(n, b) = g[n]
  BY <1>2, <1>3
<1>5. Walk(nodes, fail, b, g)
  BY <1>4 DEF P, Walk, HasNext, Child
<1> QED BY <1>4, <1>5

(* Fallback is the walk from the link of the parent: its case for the root *)
(* is the walk's, as the parent is not the root.                           *)
LEMMA FallbackWalks ==
  ASSUME Trie(nodes), Shorter(nodes, fail), NEW d, Deep(nodes, d), NEW b \in Bytes,
         NEW parent \in nodes, parent # Root
  PROVE  \E g : Walk(nodes, fail, b, g) /\ Fallback(parent, b) = g[fail[parent]]
<1> DEFINE P(g) == g = [n \in nodes |->
             IF n = Root THEN IF HasNext(Root, b) /\ <<b>> # Child(parent, b) THEN <<b>> ELSE Root
             ELSE IF HasNext(n, b) THEN Child(n, b)
             ELSE g[fail[n]]]
<1>1. parent \in Seq(Bytes) /\ Append(Root, b) = <<b>> /\ Append(parent, b) # <<b>>
  <2>1. parent \in Seq(Bytes)
    BY DEF Trie
  <2>2. Len(parent) # 0 /\ Len(parent) \in Nat
    BY <2>1 DEF Root
  <2>3. Len(Append(parent, b)) = Len(parent) + 1 /\ Len(<<b>>) = 1
    BY <2>1
  <2>4. Append(parent, b) # <<b>>
    BY <2>2, <2>3
  <2>5. Append(Root, b) = <<b>>
    BY DEF Root
  <2> QED BY <2>1, <2>4, <2>5
<1>2. \E g : P(g)
  <2>1. PICK g \in [nodes -> nodes] : Walk(nodes, fail, b, g)
    BY WalkExists DEF Deep
  <2>2. P(g)
    BY <1>1, <2>1 DEF Walk, HasNext, Child
  <2> QED BY <2>2
<1>3. Fallback(parent, b) = (CHOOSE g : P(g))[fail[parent]]
  BY Zenon DEF Fallback
<1> HIDE DEF P
<1>4. P(CHOOSE g : P(g))
  BY <1>2, Zenon
<1>5. PICK g : P(g) /\ Fallback(parent, b) = g[fail[parent]]
  BY <1>3, <1>4
<1>6. Walk(nodes, fail, b, g)
  BY <1>1, <1>5 DEF P, Walk, HasNext, Child
<1> QED BY <1>5, <1>6

(* nextState follows the longest suffix from byte to byte.                 *)
LEMMA NextStateExact ==
  ASSUME Trie(nodes), Shorter(nodes, fail), NEW d, Deep(nodes, d), NEW b \in Bytes,
         \A n \in nodes : n # Root => LongestProper(fail[n], n, nodes),
         NEW v \in Seq(Bytes), NEW n \in nodes, Longest(n, v, nodes)
  PROVE  Longest(nextState(n, b), Append(v, b), nodes)
<1>1. PICK g : Walk(nodes, fail, b, g) /\ nextState(n, b) = g[n]
  BY NextStateWalks
<1>2. Longest(g[n], Append(n, b), nodes)
  BY <1>1, WalkExact DEF Deep
<1>3. /\ n \in Seq(Bytes)
      /\ g[n] \in Seq(Bytes)
      /\ Append(n, b) \in Seq(Bytes)
      /\ Append(v, b) \in Seq(Bytes)
      /\ Suf(n, v)
  BY <1>2 DEF Trie, Longest
<1>4. Suf(g[n], Append(v, b))
  BY <1>2, <1>3, SufAppend, SufTrans DEF Longest
<1>5. ASSUME NEW l \in nodes, Suf(l, Append(v, b)) PROVE Len(l) <= Len(g[n])
  <2>1. l \in Seq(Bytes) /\ Len(l) \in Nat /\ Len(g[n]) \in Nat
    BY <1>3 DEF Trie
  <2>2. CASE l = <<>>
    BY <2>1, <2>2
  <2>3. CASE l # <<>>
    <3>1. PICK s \in Seq(Bytes) : l = Append(s, b) /\ Suf(s, v)
      BY <1>5, <2>1, <2>3, SufSplit
    <3>2. s \in nodes
      BY <3>1 DEF Trie
    <3>3. Suf(s, n)
      BY <1>3, <3>1, <3>2, SufNested DEF Longest
    <3>4. Suf(l, Append(n, b))
      BY <1>3, <3>1, <3>3, SufAppend
    <3> QED BY <1>2, <3>4 DEF Longest
  <2> QED BY <2>2, <2>3
<1>6. g[n] \in nodes
  BY <1>2 DEF Longest
<1> QED BY <1>1, <1>4, <1>5, <1>6 DEF Longest

(* The failure link of a child is exact when those of the nodes no longer  *)
(* than its parent are.                                                    *)
LEMMA FallbackExact ==
  ASSUME Trie(nodes), Shorter(nodes, fail), NEW d, Deep(nodes, d), NEW b \in Bytes,
         NEW parent \in nodes, parent # Root, Append(parent, b) \in nodes,
         \A n \in nodes : n # Root /\ Len(n) <= Len(parent) => LongestProper(fail[n], n, nodes)
  PROVE  LongestProper(Fallback(parent, b), Append(parent, b), nodes)
<1> DEFINE child == Append(parent, b)
           to == Fallback(parent, b)
           m == fail[parent]
<1>1. PICK g : Walk(nodes, fail, b, g) /\ to = g[m]
  BY FallbackWalks
<1>2. LongestProper(m, parent, nodes) /\ Len(parent) \in Nat
  BY DEF Trie
<1>3. m \in nodes /\ m \in Seq(Bytes) /\ parent \in Seq(Bytes) /\ Suf(m, parent) /\ child \in Seq(Bytes)
  BY <1>2 DEF LongestProper, Trie
<1>4. Len(m) < Len(parent) /\ Len(m) \in Nat
  BY <1>3 DEF Shorter
<1>5. Longest(to, Append(m, b), nodes)
  <2>1. \A n \in nodes : Len(n) <= Len(parent) => Longest(g[n], Append(n, b), nodes)
    BY <1>1, <1>2, WalkExact
  <2> QED BY <1>1, <1>2, <1>3, <1>4, <2>1
<1>6. to \in nodes /\ to \in Seq(Bytes) /\ Suf(to, Append(m, b))
  BY <1>5 DEF Longest, Trie
<1>7. Append(m, b) \in Seq(Bytes) /\ Suf(Append(m, b), child)
  BY <1>3, SufAppend
<1>8. Suf(to, child)
  BY <1>3, <1>6, <1>7, SufTrans
<1>9. to # child
  <2>1. Len(to) <= Len(m) + 1
    BY <1>3, <1>6 DEF Suf
  <2>2. Len(child) = Len(parent) + 1
    BY <1>3
  <2> QED BY <1>2, <1>4, <1>6, <2>1, <2>2
<1>10. ASSUME NEW l \in nodes, Suf(l, child), l # child PROVE Len(l) <= Len(to)
  <2>1. l \in Seq(Bytes) /\ Len(l) \in Nat /\ Len(to) \in Nat
    BY <1>6 DEF Trie
  <2>2. CASE l = <<>>
    BY <2>1, <2>2
  <2>3. CASE l # <<>>
    <3>1. PICK s \in Seq(Bytes) : l = Append(s, b) /\ Suf(s, parent)
      BY <1>3, <1>10, <2>1, <2>3, SufSplit
    <3>2. s \in nodes /\ s # parent
      BY <1>10, <3>1 DEF Trie
    <3>3. Suf(s, m)
      BY <1>2, <1>3, <3>1, <3>2, SufNested DEF LongestProper
    <3>4. Suf(l, Append(m, b))
      BY <1>3, <3>1, <3>3, SufAppend
    <3> QED BY <1>5, <3>4 DEF Longest
  <2> QED BY <2>2, <2>3
<1> QED BY <1>6, <1>8, <1>9, <1>10 DEF LongestProper

(* A word occurs in a longer value where it did, or at its end.            *)
LEMMA OccursAppend ==
  ASSUME NEW kw \in Seq(Bytes), NEW v \in Seq(Bytes), NEW b \in Bytes
  PROVE  Occurs(kw, Append(v, b)) <=> Occurs(kw, v) \/ Suf(kw, Append(v, b))
<1> DEFINE V == Append(v, b)
<1>1. /\ Len(kw) \in Nat
      /\ Len(v) \in Nat
      /\ V \in Seq(Bytes)
      /\ Len(V) = Len(v) + 1
      /\ \A i \in 1 .. Len(v) : V[i] = v[i]
  OBVIOUS
<1> HIDE DEF V
<1>2. ASSUME NEW s \in Seq(Bytes), NEW i \in 0 .. Len(s) - Len(kw)
      PROVE  SubSeq(s, i + 1, i + Len(kw)) = kw <=> \A j \in 1 .. Len(kw) : s[i + j] = kw[j]
  <2> DEFINE u == SubSeq(s, i + 1, i + Len(kw))
  <2>1. Len(s) \in Nat /\ i \in Nat /\ i + Len(kw) <= Len(s)
    BY <1>1
  <2>2. u \in Seq(Bytes) /\ Len(u) = Len(kw) /\ \A j \in 1 .. Len(kw) : u[j] = s[i + j]
    BY <1>1, <2>1
  <2> HIDE DEF u
  <2>3. u = kw <=> \A j \in 1 .. Len(kw) : u[j] = kw[j]
    BY <1>1, <2>2, SeqEqual
  <2> QED BY <2>2, <2>3 DEF u
<1>3. ASSUME NEW i \in 0 .. Len(v) - Len(kw)
      PROVE  /\ i \in 0 .. Len(V) - Len(kw)
             /\ SubSeq(V, i + 1, i + Len(kw)) = kw <=> SubSeq(v, i + 1, i + Len(kw)) = kw
  <2>1. i \in 0 .. Len(V) - Len(kw) /\ i \in Nat /\ i + Len(kw) <= Len(v)
    BY <1>1
  <2>2. \A j \in 1 .. Len(kw) : V[i + j] = v[i + j]
    <3> TAKE j \in 1 .. Len(kw)
    <3>1. i + j \in 1 .. Len(v)
      BY <1>1, <2>1
    <3> QED BY <1>1, <3>1
  <2> QED BY <1>1, <1>2, <2>1, <2>2
<1>4. ASSUME NEW i \in 0 .. Len(V) - Len(kw), i = Len(V) - Len(kw)
      PROVE  SubSeq(V, i + 1, i + Len(kw)) = kw <=> Suf(kw, V)
  <2>1. Len(kw) <= Len(V)
    BY <1>1, <1>4
  <2>2. Suf(kw, V) <=> \A j \in 1 .. Len(kw) : V[i + j] = kw[j]
    BY <1>1, <1>4, <2>1 DEF Suf
  <2> QED BY <1>1, <1>2, <2>2
<1>5. ASSUME Occurs(kw, V) PROVE Occurs(kw, v) \/ Suf(kw, V)
  <2>1. PICK i \in 0 .. Len(V) - Len(kw) : SubSeq(V, i + 1, i + Len(kw)) = kw
    BY <1>5 DEF Occurs
  <2>2. CASE i = Len(V) - Len(kw)
    BY <1>4, <2>1, <2>2
  <2>3. CASE i # Len(V) - Len(kw)
    <3>1. i \in 0 .. Len(v) - Len(kw)
      BY <1>1, <2>3
    <3> QED BY <1>3, <2>1, <3>1 DEF Occurs
  <2> QED BY <2>2, <2>3
<1>6. ASSUME Occurs(kw, v) PROVE Occurs(kw, V)
  <2>1. PICK i \in 0 .. Len(v) - Len(kw) : SubSeq(v, i + 1, i + Len(kw)) = kw
    BY <1>6 DEF Occurs
  <2> QED BY <1>3, <2>1 DEF Occurs
<1>7. ASSUME Suf(kw, V) PROVE Occurs(kw, V)
  <2> DEFINE i == Len(V) - Len(kw)
  <2>1. i \in 0 .. Len(V) - Len(kw)
    BY <1>1, <1>7 DEF Suf
  <2>2. SubSeq(V, i + 1, i + Len(kw)) = kw
    BY <1>4, <1>7, <2>1
  <2> QED BY <2>1, <2>2 DEF Occurs
<1> QED BY <1>5, <1>6, <1>7 DEF V
-----------------------------------------------------------------------------
(* What cleaning a keyword or a value yields.                              *)
LEMMA ToLowerTyped ==
  ASSUME NEW s \in Seq(Bytes)
  PROVE  /\ ToLower(s) \in Seq(Bytes)
         /\ Len(ToLower(s)) = Len(s)
         /\ \A i \in 1 .. Len(s) : ToLower(s)[i] = IF s[i] = "A" THEN "a" ELSE s[i]
<1>1. Len(s) \in Nat /\ DOMAIN s = 1 .. Len(s)
  OBVIOUS
<1>2. \A i \in 1 .. Len(s) : (IF s[i] = "A" THEN "a" ELSE s[i]) \in Bytes
  BY AhoAssumption
<1> QED BY <1>1, <1>2 DEF ToLower

(* Lower case byte by byte, as match sees the value.                       *)
LEMMA ToLowerAppend ==
  ASSUME NEW v \in Seq(Bytes), NEW b \in Bytes
  PROVE  /\ ToLower(<<b>>)[1] \in Bytes
         /\ ToLower(Append(v, b)) = Append(ToLower(v), ToLower(<<b>>)[1])
<1> DEFINE c == ToLower(<<b>>)[1]
           V == Append(v, b)
           L == ToLower(V)
           R == Append(ToLower(v), c)
<1>1. <<b>> \in Seq(Bytes) /\ Len(<<b>>) = 1 /\ <<b>>[1] = b
  OBVIOUS
<1>2. c = (IF b = "A" THEN "a" ELSE b) /\ c \in Bytes
  <2> DEFINE one == <<b>>
  <2> HIDE DEF one
  <2>1. one \in Seq(Bytes) /\ Len(one) = 1 /\ one[1] = b
    BY <1>1 DEF one
  <2>2. ToLower(one)[1] = IF one[1] = "A" THEN "a" ELSE one[1]
    BY <2>1, ToLowerTyped
  <2> QED BY <2>1, <2>2, AhoAssumption DEF one
<1>3. V \in Seq(Bytes) /\ Len(V) = Len(v) + 1 /\ V[Len(v) + 1] = b /\ \A i \in 1 .. Len(v) : V[i] = v[i]
  OBVIOUS
<1>4. /\ ToLower(v) \in Seq(Bytes)
      /\ Len(ToLower(v)) = Len(v)
      /\ Len(v) \in Nat
      /\ \A i \in 1 .. Len(v) : ToLower(v)[i] = IF v[i] = "A" THEN "a" ELSE v[i]
  BY ToLowerTyped
<1> HIDE DEF c, V
<1>5. /\ L \in Seq(Bytes)
      /\ Len(L) = Len(v) + 1
      /\ \A i \in 1 .. Len(v) + 1 : L[i] = IF V[i] = "A" THEN "a" ELSE V[i]
  BY <1>3, ToLowerTyped
<1>6. /\ R \in Seq(Bytes)
      /\ Len(R) = Len(v) + 1
      /\ R[Len(v) + 1] = c
      /\ \A i \in 1 .. Len(v) : R[i] = ToLower(v)[i]
  BY <1>2, <1>4
<1> HIDE DEF L, R
<1>7. \A i \in 1 .. Len(v) + 1 : L[i] = R[i]
  <2> TAKE i \in 1 .. Len(v) + 1
  <2>1. CASE i = Len(v) + 1
    BY <1>2, <1>3, <1>5, <1>6, <2>1
  <2>2. CASE i \in 1 .. Len(v)
    BY <1>3, <1>4, <1>5, <1>6, <2>2
  <2> QED BY <1>4, <2>1, <2>2
<1>8. L = R
  BY <1>5, <1>6, <1>7, SeqEqual
<1> QED BY <1>2, <1>8 DEF c, V, L, R

LEMMA TrimSpaceTyped ==
  ASSUME NEW s \in Seq(Bytes)
  PROVE  TrimSpace(s) \in Seq(Bytes)
<1> DEFINE text == {i \in DOMAIN s : s[i] # Space}
<1>1. Len(s) \in Nat /\ text \subseteq 1 .. Len(s)
  OBVIOUS
<1> HIDE DEF text
<1>2. ASSUME text # {} PROVE Min(text) \in text /\ Max(text) \in text
  <2>1. \E x \in text : \A y \in text : x <= y
    BY <1>1, <1>2, LeastNat
  <2>2. Min(text) \in text
    BY <2>1 DEF Min
  <2>3. \E x \in text : \A y \in text : x >= y
    <3> DEFINE T == {Len(s) - x : x \in text}
    <3>1. T \in SUBSET Nat /\ T # {}
      <4>1. \A x \in text : Len(s) - x \in Nat
        BY <1>1
      <4>2. PICK x : x \in text
        BY <1>2
      <4>3. Len(s) - x \in T
        BY <4>2
      <4> QED BY <4>1, <4>3
    <3>2. PICK m \in T : \A n \in T : m <= n
      BY <3>1, LeastNat
    <3>3. PICK x \in text : m = Len(s) - x
      BY <3>2
    <3>4. ASSUME NEW y \in text PROVE x >= y
      <4>1. Len(s) - x <= Len(s) - y
        BY <3>2, <3>3
      <4> QED BY <1>1, <4>1
    <3> QED BY <3>4
  <2>4. Max(text) \in text
    BY <2>3 DEF Max
  <2> QED BY <2>2, <2>4
<1>3. TrimSpace(s) = IF text = {} THEN <<>> ELSE SubSeq(s, Min(text), Max(text))
  BY DEF TrimSpace, text
<1>4. ASSUME NEW i \in 1 .. Len(s), NEW j \in 1 .. Len(s) PROVE SubSeq(s, i, j) \in Seq(Bytes)
  <2>1. CASE i <= j
    BY <2>1, SubSeqProperties
  <2>2. CASE i > j
    BY <1>1, <2>2
  <2> QED BY <1>1, <2>1, <2>2
<1>5. CASE text = {}
  BY <1>3, <1>5
<1>6. CASE text # {}
  <2>1. Min(text) \in 1 .. Len(s) /\ Max(text) \in 1 .. Len(s)
    BY <1>1, <1>2, <1>6
  <2>2. SubSeq(s, Min(text), Max(text)) \in Seq(Bytes)
    BY <2>1, <1>4
  <2> QED BY <1>3, <1>6, <2>2
<1> QED BY <1>5, <1>6

(* No keyword of a rule is blank.                                          *)
LEMMA CleanTyped ==
  ASSUME NEW lines, lines \subseteq Keywords
  PROVE  \A kw \in Clean(lines) : kw \in Seq(Bytes) /\ kw # Root /\ Len(kw) \in Nat /\ Len(kw) > 0
<1> SUFFICES ASSUME NEW kw \in Clean(lines)
             PROVE  kw \in Seq(Bytes) /\ kw # Root /\ Len(kw) \in Nat /\ Len(kw) > 0
  OBVIOUS
<1>1. PICK line \in lines : kw = ToLower(TrimSpace(line)) /\ kw # <<>>
  BY DEF Clean
<1>2. kw \in Seq(Bytes)
  BY <1>1, TrimSpaceTyped, ToLowerTyped, AhoAssumption
<1> QED BY <1>1, <1>2 DEF Root

(* Every node but the root is the child of a node.                         *)
LEMMA Parent ==
  ASSUME NEW T, Trie(T), NEW n \in T, n # Root
  PROVE  \E m \in T, b \in Bytes : n = Append(m, b) /\ Len(m) \in Nat /\ Len(n) = Len(m) + 1
<1>1. n \in Seq(Bytes)
  BY DEF Trie
<1>2. PICK m \in Seq(Bytes), b \in Bytes : n = Append(m, b)
  BY <1>1, SequenceEmptyOrAppend DEF Root
<1>3. m \in T
  BY <1>2 DEF Trie
<1> QED BY <1>2, <1>3

(* A level without nodes has none below.                                   *)
LEMMA NoDeeper ==
  ASSUME NEW T, Trie(T), NEW d \in Nat, \A n \in T : Len(n) # d + 1
  PROVE  \A n \in T : Len(n) <= d
<1> DEFINE Q(k) == \A n \in T : Len(n) # d + 1 + k
           S == {k \in Nat : Q(k)}
<1>1. ASSUME NEW k \in Nat, Q(k) PROVE Q(k + 1)
  <2> SUFFICES ASSUME NEW n \in T, Len(n) = d + 1 + (k + 1) PROVE FALSE
    OBVIOUS
  <2>1. n # Root
    BY DEF Root
  <2>2. PICK m \in T : Len(m) \in Nat /\ Len(n) = Len(m) + 1
    BY <2>1, Parent
  <2> QED BY <1>1, <2>2
<1>2. Q(0)
  OBVIOUS
<1>3. \A k \in Nat : Q(k)
  <2> HIDE DEF Q
  <2>1. 0 \in S /\ \A k \in Nat : k \in S => k + 1 \in S
    BY <1>1, <1>2
  <2> HIDE DEF S
  <2>2. Nat \subseteq S
    BY <2>1, SetInduction
  <2> QED BY <2>2 DEF S
<1>4. ASSUME NEW n \in T, ~(Len(n) <= d) PROVE FALSE
  <2>1. Len(n) \in Nat
    BY DEF Trie
  <2>2. Len(n) - (d + 1) \in Nat /\ Len(n) = d + 1 + (Len(n) - (d + 1))
    BY <1>4, <2>1
  <2> QED BY <1>3, <2>2
<1> QED BY <1>4
-----------------------------------------------------------------------------
(* A node whose children are still to be linked.                           *)
InQueue(n) == \E i \in 1 .. Len(queue) : queue[i] = n

(* What the rule looks for.                                                *)
Wanted == Clean(keywords)

(* A node is terminal exactly when a keyword is a suffix of it.            *)
Marked(n) == n \in terminal <=> \E kw \in Wanted : Suf(kw, n)

(* buildFailures is done with a node.                                      *)
Linked(n) == LongestProper(fail[n], n, nodes) /\ Marked(n)

(* The trie at any time.                                                   *)
Built ==
  /\ keywords \subseteq Keywords
  /\ phase \in {"insert", "link", "match"}
  /\ pending \subseteq Wanted
  /\ phase # "insert" => pending = {}
  /\ Trie(nodes) /\ IsFiniteSet(nodes)
  /\ \E d : Deep(nodes, d)
  /\ Shorter(nodes, fail)
  /\ terminal \subseteq nodes /\ Root \notin terminal
  /\ Wanted \ pending \subseteq terminal
  /\ queue \in Seq(nodes)

(* Before the failure links are built only keywords are terminal, and      *)
(* before they are complete no value is matched.                           *)
Waiting ==
  /\ phase = "insert" => terminal \subseteq Wanted /\ queue = <<>>
  /\ phase # "match" => value = <<>> /\ state = Root /\ matched = FALSE

(* The links are built level by level: the queue holds the rest of a level *)
(* and the beginning of the next.                                          *)
Ordered ==
  \A i, j \in 1 .. Len(queue) :
    /\ queue[i] # Root
    /\ i <= j => Len(queue[i]) <= Len(queue[j])
    /\ Len(queue[i]) <= Len(queue[1]) + 1

(* What is at or above the level of the head, or in the queue, is linked;  *)
(* of a node at that level and its child one is in the queue; and a node   *)
(* still to come is terminal only as a keyword.                            *)
Level ==
  /\ \A n \in nodes : n # Root /\ (Len(n) <= Len(queue[1]) \/ InQueue(n)) => Linked(n)
  /\ \A n \in nodes, b \in Bytes :
       Len(n) = Len(queue[1]) /\ Append(n, b) \in nodes => InQueue(n) \/ InQueue(Append(n, b))
  /\ \A n \in nodes :
       Len(n) > Len(queue[1]) /\ ~InQueue(n) /\ n \in terminal => n \in Wanted

(* buildFailures is done with every node.                                  *)
AllLinked == \A n \in nodes : n # Root => Linked(n)

(* Where buildFailures is.                                                 *)
Linking ==
  phase = "link" => IF queue = <<>> THEN AllLinked ELSE Ordered /\ Level

(* The state of a match is the longest suffix of what it has seen that is  *)
(* in the trie, and it has returned true if a keyword occurs in it.        *)
Matching ==
  phase = "match" =>
    /\ AllLinked
    /\ value \in Seq(Bytes)
    /\ Longest(state, ToLower(value), nodes)
    /\ matched <=> \E kw \in Wanted : Occurs(kw, ToLower(value))

(* The inductive invariant.                                                *)
AhoInv == Built /\ Waiting /\ Linking /\ Matching

LEMMA InQueueIs ==
  ASSUME queue \in Seq(nodes), NEW n
  PROVE  n \in ToSet(queue) <=> InQueue(n)
  BY DEF ToSet, InQueue

(* Once they are inserted, the keywords are terminal nodes of the trie.    *)
LEMMA WantedTyped ==
  ASSUME Built
  PROVE  /\ \A kw \in Wanted : kw \in Seq(Bytes) /\ kw # Root /\ Len(kw) \in Nat /\ Len(kw) > 0
         /\ phase # "insert" => \A kw \in Wanted : kw \in nodes /\ kw \in terminal
<1>1. \A kw \in Wanted : kw \in Seq(Bytes) /\ kw # Root /\ Len(kw) \in Nat /\ Len(kw) > 0
  BY CleanTyped DEF Built, Wanted
<1>2. phase # "insert" => \A kw \in Wanted : kw \in nodes /\ kw \in terminal
  BY DEF Built
<1> QED BY <1>1, <1>2

(* What inserting a keyword adds is a trie of its own.                     *)
LEMMA PrefixesTyped ==
  ASSUME NEW kw \in Seq(Bytes)
  PROVE  /\ Trie(Prefixes(kw))
         /\ IsFiniteSet(Prefixes(kw))
         /\ Deep(Prefixes(kw), Len(kw))
         /\ kw \in Prefixes(kw)
<1> DEFINE P(l) == SubSeq(kw, 1, l)
<1>1. Len(kw) \in Nat
  OBVIOUS
<1>2. ASSUME NEW l \in 0 .. Len(kw)
      PROVE  /\ P(l) \in Seq(Bytes)
             /\ Len(P(l)) = l
             /\ \A i \in 1 .. l : P(l)[i] = kw[i]
  <2>1. \A i \in 1 .. l : kw[i] \in Bytes
    BY <1>1
  <2> QED BY <1>1, <2>1, SubSeqProperties
<1>3. Prefixes(kw) = {P(l) : l \in 0 .. Len(kw)}
  BY DEF Prefixes
<1> HIDE DEF P
<1>4. Deep(Prefixes(kw), Len(kw)) /\ Prefixes(kw) \subseteq Seq(Bytes)
  BY <1>1, <1>2, <1>3 DEF Deep
<1>5. kw \in Prefixes(kw)
  <2>1. P(Len(kw)) = kw
    BY <1>1, <1>2, SeqEqual
  <2> QED BY <1>1, <1>3, <2>1
<1>6. Root \in Prefixes(kw)
  <2>1. P(0) = Root
    BY <1>1, <1>2 DEF Root
  <2> QED BY <1>1, <1>3, <2>1
<1>7. ASSUME NEW n \in Seq(Bytes), NEW b \in Bytes, Append(n, b) \in Prefixes(kw)
      PROVE  n \in Prefixes(kw)
  <2>1. PICK l \in 0 .. Len(kw) : Append(n, b) = P(l)
    BY <1>3, <1>7
  <2>2. Len(n) \in Nat /\ l = Len(n) + 1 /\ \A i \in 1 .. Len(n) : Append(n, b)[i] = n[i]
    BY <1>2, <2>1
  <2>3. Len(n) \in 0 .. Len(kw)
    BY <1>1, <2>2
  <2>4. \A i \in 1 .. Len(n) : n[i] = P(Len(n))[i]
    BY <1>2, <2>1, <2>2, <2>3
  <2>5. n = P(Len(n))
    BY <1>2, <2>3, <2>4, SeqEqual
  <2> QED BY <1>3, <2>3, <2>5
<1>8. IsFiniteSet(Prefixes(kw))
  <2> DEFINE f == [l \in 0 .. Len(kw) |-> P(l)]
             D == 0 .. Len(kw)
  <2>1. f \in Surjection(D, Prefixes(kw))
    BY <1>3 DEF Surjection
  <2>2. IsFiniteSet(D)
    BY <1>1, FS_Interval
  <2> HIDE DEF f, D
  <2> QED BY <2>1, <2>2, FS_Surjection
<1> QED BY <1>4, <1>5, <1>6, <1>7, <1>8 DEF Trie

(* The invariant holds of the empty trie, and each step keeps it.          *)
LEMMA InitAho == Init => AhoInv
<1> SUFFICES ASSUME Init PROVE AhoInv
  OBVIOUS
<1> USE DEF Init
<1>1. keywords \subseteq Keywords
  BY DEF kSubset
<1>2. Trie(nodes)
  <2>1. \A n \in Seq(Bytes), b \in Bytes : Append(n, b) # Root
    BY DEF Root
  <2> QED BY <2>1 DEF Trie, Root
<1>3. IsFiniteSet(nodes)
  BY FS_Singleton
<1>4. Deep(nodes, 0)
  BY DEF Deep, Root
<1>5. Shorter(nodes, fail)
  BY DEF Shorter
<1>6. Built
  <2>1. queue \in Seq(nodes)
    OBVIOUS
  <2>2. \E d : Deep(nodes, d)
    BY <1>4
  <2>3. /\ phase \in {"insert", "link", "match"}
        /\ pending \subseteq Wanted
        /\ phase # "insert" => pending = {}
        /\ terminal \subseteq nodes /\ Root \notin terminal
        /\ Wanted \ pending \subseteq terminal
    BY DEF Wanted
  <2> HIDE DEF Init
  <2> QED BY <1>1, <1>2, <1>3, <1>5, <2>1, <2>2, <2>3 DEF Built
<1> QED BY <1>6 DEF AhoInv, Waiting, Linking, Matching

LEMMA InsertAho == ASSUME AhoInv, NEW kw \in pending, Insert(kw) PROVE AhoInv'
<1> USE DEF Insert
<1>1. Built /\ Waiting
  BY DEF AhoInv
<1>2. phase = "insert" /\ phase' = "insert" /\ Wanted' = Wanted /\ kw \in Wanted
  BY <1>1 DEF Built, Wanted
<1>3. kw \in Seq(Bytes) /\ kw # Root /\ Len(kw) \in Nat
  BY <1>1, <1>2, WantedTyped
<1>4. /\ Trie(Prefixes(kw))
      /\ IsFiniteSet(Prefixes(kw))
      /\ Deep(Prefixes(kw), Len(kw))
      /\ kw \in Prefixes(kw)
  BY <1>3, PrefixesTyped
<1>5. Trie(nodes')
  BY <1>1, <1>4 DEF Trie, Built
<1>6. IsFiniteSet(nodes')
  BY <1>1, <1>4, FS_Union DEF Built
<1>7. \E d : Deep(nodes', d)
  <2>1. PICK d : Deep(nodes, d)
    BY <1>1 DEF Built
  <2>2. \A n \in nodes' : Len(n) \in Nat
    BY <1>5 DEF Trie
  <2>3. Deep(nodes', d + Len(kw))
    BY <1>3, <1>4, <2>1, <2>2 DEF Deep
  <2> QED BY <2>3
<1>8. Shorter(nodes', fail')
  <2>1. \A n \in nodes' : n # Root => Len(n) > 0
    BY <1>5 DEF Trie, Root
  <2>2. Root \in nodes' /\ Len(Root) = 0
    BY <1>5 DEF Trie, Root
  <2>3. fail' \in [nodes' -> nodes'] /\ \A n \in nodes' : fail'[n] = Root
    BY <2>2
  <2> QED BY <2>1, <2>2, <2>3 DEF Shorter
<1>9. queue' = <<>>
  BY <1>1, <1>2 DEF Waiting
<1>10. Built'
  <2>1. /\ terminal' \subseteq nodes' /\ Root \notin terminal'
        /\ Wanted' \ pending' \subseteq terminal'
        /\ pending' \subseteq Wanted'
        /\ keywords' \subseteq Keywords
    BY <1>1, <1>2, <1>3, <1>4 DEF Built
  <2>2. queue' \in Seq(nodes')
    BY <1>9
  <2> HIDE DEF Insert
  <2> QED BY <1>2, <1>5, <1>6, <1>7, <1>8, <2>1, <2>2 DEF Built
<1>11. Waiting'
  BY <1>1, <1>2, <1>9 DEF Waiting
<1> QED BY <1>2, <1>10, <1>11 DEF AhoInv, Linking, Matching
-----------------------------------------------------------------------------
(* The links of the root's children lead to the root.                      *)
LEMMA RootsLinked ==
  ASSUME Built, Waiting, phase = "insert", pending = {}
  PROVE  \A n \in nodes : Len(n) = 1 => Linked(n)
<1> SUFFICES ASSUME NEW n \in nodes, Len(n) = 1 PROVE Linked(n)
  OBVIOUS
<1>1. /\ nodes \subseteq Seq(Bytes)
      /\ Root \in nodes
      /\ fail[n] \in nodes
      /\ n # Root => Len(fail[n]) < Len(n)
  BY DEF Built, Trie, Shorter
<1>2. n # Root /\ n \in Seq(Bytes) /\ \A l \in nodes : Len(l) \in Nat
  <2>1. Len(Root) = 0
    BY DEF Root
  <2>2. n # Root
    BY <2>1
  <2> QED BY <1>1, <2>2
<1>3. fail[n] = Root
  <2>1. Len(fail[n]) = 0
    BY <1>1, <1>2
  <2> QED BY <1>1, <2>1 DEF Root
<1>4. Suf(Root, n)
  BY <1>2, SufBasic DEF Root
<1>5. ASSUME NEW l \in Seq(Bytes), Suf(l, n), Len(l) >= 1 PROVE l = n
  BY <1>2, <1>5, SufEqual
<1>6. LongestProper(fail[n], n, nodes)
  <2>1. ASSUME NEW l \in nodes, Suf(l, n), l # n PROVE Len(l) <= Len(Root)
    BY <1>1, <1>2, <1>5, <2>1 DEF Root
  <2> QED BY <1>1, <1>2, <1>3, <1>4, <2>1 DEF LongestProper
<1>7. Marked(n)
  <2>1. n \in terminal <=> n \in Wanted
    BY DEF Built, Waiting
  <2>2. n \in Wanted <=> \E kw \in Wanted : Suf(kw, n)
    <3>1. Suf(n, n)
      BY <1>2, SufBasic
    <3>2. ASSUME NEW kw \in Wanted, Suf(kw, n) PROVE kw = n
      <4>1. kw \in Seq(Bytes) /\ Len(kw) >= 1
        BY WantedTyped
      <4> QED BY <1>5, <3>2, <4>1
    <3> QED BY <3>1, <3>2
  <2> QED BY <2>1, <2>2 DEF Marked
<1> QED BY <1>6, <1>7 DEF Linked

(* Whatever the order, the queue then holds them all.                      *)
LEMMA RootsQueued ==
  ASSUME Built, NEW q \in SetToSeqs({n \in nodes : Len(n) = 1})
  PROVE  /\ q \in Seq(nodes)
         /\ \A i \in 1 .. Len(q) : Len(q[i]) = 1
         /\ \A n \in nodes : Len(n) = 1 => \E i \in 1 .. Len(q) : q[i] = n
<1> DEFINE R == {n \in nodes : Len(n) = 1}
           c == Cardinality(R)
           D == 1 .. c
<1>1. R \in SUBSET nodes /\ IsFiniteSet(nodes)
  BY DEF Built
<1>2. IsFiniteSet(R) /\ c \in Nat
  <2> HIDE DEF R
  <2>1. IsFiniteSet(R)
    BY <1>1, FS_Subset
  <2> QED BY <2>1, FS_CardinalityType
<1>3. q \in [D -> R] /\ \A i, j \in D : i # j => q[i] # q[j]
  BY DEF SetToSeqs
<1> HIDE DEF R, c
<1>4. q \in Seq(R) /\ Len(q) = c
  BY <1>2, <1>3
<1>5. q \in Injection(D, R)
  BY <1>3 DEF Injection, IsInjective
<1>6. IsFiniteSet(D) /\ Cardinality(D) = c
  BY <1>2, FS_Interval
<1> HIDE DEF D
<1>7. q \in Surjection(D, R)
  BY <1>2, <1>5, <1>6, FS_Injection DEF c
<1>8. \A n \in R : \E i \in 1 .. Len(q) : q[i] = n
  BY <1>4, <1>7 DEF Surjection, D
<1>9. \A i \in 1 .. Len(q) : q[i] \in R
  BY <1>4
<1>10. q \in Seq(nodes)
  BY <1>1, <1>4
<1> QED BY <1>8, <1>9, <1>10 DEF R

LEMMA LinkRootsAho == ASSUME AhoInv, LinkRoots PROVE AhoInv'
<1>1. Built /\ Waiting
  BY DEF AhoInv
<1>2. /\ phase = "insert" /\ phase' = "link" /\ pending = {}
      /\ queue' \in SetToSeqs({n \in nodes : Len(n) = 1})
      /\ UNCHANGED <<keywords, pending, nodes, fail, terminal, value, state, matched>>
  BY DEF LinkRoots
<1>3. Wanted' = Wanted
  BY <1>2 DEF Wanted
<1>4. /\ queue' \in Seq(nodes)
      /\ \A i \in 1 .. Len(queue') : Len(queue'[i]) = 1
      /\ \A n \in nodes : Len(n) = 1 => \E i \in 1 .. Len(queue') : queue'[i] = n
  BY <1>1, <1>2, RootsQueued
<1>5. Built'
  BY <1>1, <1>2, <1>3, <1>4 DEF Built
<1>6. Waiting'
  BY <1>1, <1>2 DEF Waiting
<1>7. \A n \in nodes : Len(n) \in Nat /\ (n # Root => Len(n) > 0)
  BY <1>1 DEF Built, Trie, Root
<1>8. \A n \in nodes : Len(n) = 1 => Linked(n)'
  <2>1. \A n \in nodes : Len(n) = 1 => Linked(n)
    BY <1>1, <1>2, RootsLinked
  <2> QED BY <1>2, <1>3, <2>1 DEF Linked, Marked
<1>9. CASE queue' = <<>>
  <2>1. \A n \in nodes : Len(n) # 0 + 1
    BY <1>4, <1>9
  <2>2. \A n \in nodes : Len(n) <= 0
    BY <1>1, <2>1, NoDeeper DEF Built
  <2>3. AllLinked'
    BY <1>2, <1>7, <2>2 DEF AllLinked
  <2> QED BY <1>2, <1>5, <1>6, <1>9, <2>3 DEF AhoInv, Linking, Matching
<1>10. CASE queue' # <<>>
  <2>1. Len(queue') \in Nat /\ Len(queue'[1]) = 1
    BY <1>4, <1>10
  <2>2. \A n \in nodes : Len(n) = 1 <=> InQueue(n)'
    BY <1>4 DEF InQueue
  <2>3. Ordered'
    <3>1. Len(Root) = 0
      BY DEF Root
    <3>2. \A i \in 1 .. Len(queue') : queue'[i] # Root
      <4> TAKE i \in 1 .. Len(queue')
      <4>1. Len(queue'[i]) = 1
        BY <1>4, Zenon
      <4> QED BY <3>1, <4>1
    <3>3. ASSUME NEW i \in 1 .. Len(queue'), NEW j \in 1 .. Len(queue')
          PROVE  Len(queue'[i]) <= Len(queue'[1]) + 1 /\ Len(queue'[i]) <= Len(queue'[j])
      <4>1. Len(queue'[i]) = 1 /\ Len(queue'[j]) = 1
        BY <1>4, Zenon
      <4> QED BY <2>1, <4>1
    <3> QED BY <3>2, <3>3 DEF Ordered
  <2>4. Level'
    <3>1. \A n \in nodes : n # Root /\ (Len(n) <= 1 \/ InQueue(n)') => Linked(n)'
      <4>1. ASSUME NEW n \in nodes, n # Root, Len(n) <= 1 PROVE Linked(n)'
        <5>1. Len(n) \in Nat /\ Len(n) > 0
          BY <1>7, <4>1
        <5>2. Len(n) = 1
          <6> DEFINE k == Len(n)
          <6>1. k \in Nat /\ k > 0 /\ k <= 1
            BY <4>1, <5>1, Zenon
          <6> HIDE DEF k
          <6>2. k = 1
            BY <6>1
          <6> QED BY <6>2 DEF k
        <5> QED BY <1>8, <5>2, Zenon
      <4>2. ASSUME NEW n \in nodes, InQueue(n)' PROVE Linked(n)'
        BY <1>8, <2>2, <4>2, Zenon
      <4> QED BY <4>1, <4>2, Zenon
    <3>2. \A n \in nodes : n \in terminal' => n \in Wanted'
      BY <1>1, <1>2, <1>3 DEF Waiting
    <3> QED BY <1>2, <2>1, <2>2, <3>1, <3>2 DEF Level
  <2> QED BY <1>2, <1>5, <1>6, <1>10, <2>3, <2>4 DEF AhoInv, Linking, Matching
<1> QED BY <1>9, <1>10
-----------------------------------------------------------------------------
(* A node that is not linked yet, the child of a linked one, is marked     *)
(* exactly when it is a keyword or its failure link is marked.             *)
LEMMA MarkedThroughLink ==
  ASSUME Built, phase # "insert", NEW child \in nodes, NEW to, LongestProper(to, child, nodes),
         to # Root => Marked(to),
         child \in terminal => child \in Wanted
  PROVE  child \in terminal \/ to \in terminal <=> \E kw \in Wanted : Suf(kw, child)
<1>1. /\ nodes \subseteq Seq(Bytes)
      /\ to \in nodes
      /\ Suf(to, child)
      /\ child \in Seq(Bytes)
      /\ to \in Seq(Bytes)
      /\ Root \notin terminal
  BY DEF Built, Trie, LongestProper
<1>2. \A kw \in Wanted : kw \in Seq(Bytes) /\ kw # Root /\ kw \in nodes /\ kw \in terminal
  BY WantedTyped
<1>3. ASSUME child \in terminal PROVE \E kw \in Wanted : Suf(kw, child)
  <2>1. Suf(child, child)
    BY <1>1, SufBasic
  <2> QED BY <1>3, <2>1
<1>4. ASSUME to \in terminal PROVE \E kw \in Wanted : Suf(kw, child)
  <2>1. PICK kw \in Wanted : Suf(kw, to)
    BY <1>1, <1>4 DEF Marked
  <2>2. Suf(kw, child)
    BY <1>1, <1>2, <2>1, SufTrans
  <2> QED BY <2>2
<1>5. ASSUME NEW kw \in Wanted, Suf(kw, child) PROVE child \in terminal \/ to \in terminal
  <2>1. CASE kw = child
    BY <1>2, <2>1
  <2>2. CASE kw # child
    <3>1. Len(kw) <= Len(to)
      BY <1>2, <1>5, <2>2 DEF LongestProper
    <3>2. Suf(kw, to)
      BY <1>1, <1>2, <1>5, <3>1, SufNested
    <3>3. to # Root
      <4>1. SUFFICES ASSUME to = Root PROVE FALSE
        OBVIOUS
      <4>2. Len(to) = 0 /\ Len(kw) \in Nat /\ Len(kw) > 0
        BY <4>1, WantedTyped DEF Root
      <4> QED BY <3>1, <4>2
    <3> QED BY <3>2, <3>3 DEF Marked
  <2> QED BY <2>1, <2>2
<1> QED BY <1>3, <1>4, <1>5

(* One child is linked: its fallback is exact because every link above is. *)
LEMMA LinkAho == ASSUME AhoInv, NEW b \in Bytes, Link(b) PROVE AhoInv'
<1> DEFINE p == queue[1]
           child == Append(p, b)
           to == Fallback(p, b)
           h == Len(p)
<1>1. Built /\ Waiting /\ Linking
  BY DEF AhoInv
<1>2. /\ phase = "link" /\ phase' = "link" /\ queue # <<>>
      /\ child \in nodes /\ child \notin ToSet(queue)
      /\ fail' = [fail EXCEPT ![child] = to]
      /\ terminal' = terminal \cup {n \in {child} : fail'[child] \in terminal}
      /\ queue' = Append(queue, child)
      /\ UNCHANGED <<keywords, pending, nodes, value, state, matched>>
  BY DEF Link, Child, Head
<1>3. Ordered /\ Level /\ Wanted' = Wanted
  BY <1>1, <1>2 DEF Linking, Wanted
<1>4. /\ nodes \subseteq Seq(Bytes)
      /\ queue \in Seq(nodes)
      /\ p \in nodes
      /\ p \in Seq(Bytes)
      /\ h \in Nat
      /\ Len(queue) \in Nat /\ Len(queue) > 0
  BY <1>1, <1>2 DEF Built, Trie
<1>5. /\ child \in Seq(Bytes)
      /\ Len(child) = h + 1
      /\ child # Root
  <2> HIDE DEF p
  <2>1. Append(p, b) \in Seq(Bytes) /\ Len(Append(p, b)) = Len(p) + 1 /\ Append(p, b) # <<>>
    BY <1>4, AppendProperties
  <2> QED BY <2>1 DEF Root
<1>6. p # Root /\ ~InQueue(child)
  <2>1. 1 \in 1 .. Len(queue)
    BY <1>4
  <2>2. p # Root
    BY <1>3, <2>1, Zenon DEF Ordered
  <2> HIDE DEF p, child
  <2>3. ~InQueue(child)
    BY <1>2, <1>4, InQueueIs
  <2> QED BY <2>2, <2>3
<1>7. \A n \in nodes : n # Root /\ (Len(n) <= h \/ InQueue(n)) => Linked(n)
  BY <1>3, Zenon DEF Level
<1>8. LongestProper(to, child, nodes)
  <2>1. \A n \in nodes : n # Root /\ Len(n) <= Len(p) => LongestProper(fail[n], n, nodes)
    BY <1>7, Zenon DEF Linked
  <2> HIDE DEF p, h
  <2> QED BY <1>1, <1>2, <1>4, <1>6, <2>1, FallbackExact DEF Built
<1> HIDE DEF p, child, to, h
<1>9. to \in nodes /\ to \in Seq(Bytes) /\ Len(to) \in Nat /\ Len(to) < Len(child)
  <2>1. to \in nodes /\ Suf(to, child) /\ to # child
    BY <1>8 DEF LongestProper
  <2>2. to \in Seq(Bytes) /\ Len(to) \in Nat
    BY <1>4, <2>1
  <2>3. ~(Len(child) <= Len(to))
    BY <1>5, <2>1, <2>2, SufEqual
  <2> QED BY <1>4, <1>5, <2>1, <2>2, <2>3
<1>10. fail \in [nodes -> nodes] /\ fail' \in [nodes -> nodes]
       /\ fail'[child] = to /\ \A n \in nodes : n # child => fail'[n] = fail[n]
  BY <1>1, <1>2, <1>9 DEF Built, Shorter
<1>11. terminal' = terminal \cup {n \in {child} : to \in terminal}
  BY <1>2, <1>10
<1>12. Built'
  <2>1. Shorter(nodes', fail')
    <3>1. \A n \in nodes : n # Root => Len(fail'[n]) < Len(n)
      <4> TAKE n \in nodes
      <4>1. CASE n = child
        BY <1>9, <1>10, <4>1
      <4>2. CASE n # child
        BY <1>1, <1>10, <4>2 DEF Built, Shorter
      <4> QED BY <4>1, <4>2
    <3> QED BY <1>2, <1>10, <3>1 DEF Shorter
  <2>2. terminal' \subseteq nodes /\ Root \notin terminal'
    BY <1>1, <1>2, <1>5, <1>11 DEF Built
  <2>3. queue' \in Seq(nodes)
    BY <1>2, <1>4
  <2>4. Wanted \ pending \subseteq terminal'
    BY <1>1, <1>11 DEF Built
  <2> QED BY <1>1, <1>2, <1>3, <2>1, <2>2, <2>3, <2>4 DEF Built
<1>13. Waiting'
  BY <1>1, <1>2 DEF Waiting
<1>14. ASSUME NEW n \in nodes, n # child, Linked(n) PROVE Linked(n)'
  <2>1. fail'[n] = fail[n] /\ (n \in terminal' <=> n \in terminal)
    BY <1>10, <1>11, <1>14
  <2> QED BY <1>2, <1>3, <1>14, <2>1 DEF Linked, Marked
<1>15. ASSUME NEW n \in nodes, n = child PROVE Linked(n)'
  <2>1. to # Root => Marked(to)
    <3>1. Len(to) <= h
      BY <1>4, <1>5, <1>9
    <3> QED BY <1>7, <1>9, <3>1 DEF Linked
  <2>2. child \in terminal => child \in Wanted
    <3>1. Len(child) > h
      BY <1>4, <1>5
    <3> QED BY <1>2, <1>3, <1>6, <3>1 DEF Level, h, p
  <2>3. child \in terminal \/ to \in terminal <=> \E kw \in Wanted : Suf(kw, child)
    BY <1>1, <1>2, <1>8, <2>1, <2>2, MarkedThroughLink
  <2>4. n \in terminal' <=> \E kw \in Wanted' : Suf(kw, n)
    BY <1>3, <1>11, <1>15, <2>3
  <2>5. LongestProper(fail'[n], n, nodes')
    BY <1>2, <1>8, <1>10, <1>15
  <2> QED BY <2>4, <2>5 DEF Linked, Marked
<1>16. /\ Len(queue') = Len(queue) + 1
       /\ queue'[Len(queue) + 1] = child
       /\ \A i \in 1 .. Len(queue) : queue'[i] = queue[i]
       /\ queue'[1] = p
       /\ queue' # <<>>
  BY <1>2, <1>4 DEF p
<1>17. \A n : InQueue(n)' <=> InQueue(n) \/ n = child
  <2> TAKE n
  <2>1. ASSUME InQueue(n)' PROVE InQueue(n) \/ n = child
    <3>1. PICK i \in 1 .. Len(queue') : queue'[i] = n
      BY <2>1, Zenon DEF InQueue
    <3>2. CASE i = Len(queue) + 1
      BY <1>16, <3>1, <3>2
    <3>3. CASE i \in 1 .. Len(queue)
      BY <1>16, <3>1, <3>3 DEF InQueue
    <3> QED BY <1>4, <1>16, <3>2, <3>3
  <2>2. ASSUME InQueue(n) PROVE \E i \in 1 .. Len(queue') : queue'[i] = n
    <3>1. PICK i \in 1 .. Len(queue) : queue[i] = n
      BY <2>2 DEF InQueue
    <3> QED BY <1>4, <1>16, <3>1
  <2>3. n = child => \E i \in 1 .. Len(queue') : queue'[i] = n
    BY <1>4, <1>16
  <2> QED BY <2>1, <2>2, <2>3, Zenon DEF InQueue
<1>18. Ordered'
  <2>1. \A i \in 1 .. Len(queue) : queue[i] # Root /\ Len(queue[i]) <= h + 1
    BY <1>3 DEF Ordered, p, h
  <2>2. \A i, j \in 1 .. Len(queue) : i <= j => Len(queue[i]) <= Len(queue[j])
    BY <1>3 DEF Ordered
  <2>3. \A i \in 1 .. Len(queue') : queue'[i] # Root /\ Len(queue'[i]) <= h + 1
    <3> TAKE i \in 1 .. Len(queue')
    <3>1. CASE i = Len(queue) + 1
      BY <1>4, <1>5, <1>16, <3>1
    <3>2. CASE i \in 1 .. Len(queue)
      BY <1>16, <2>1, <3>2
    <3> QED BY <1>4, <1>16, <3>1, <3>2
  <2>4. ASSUME NEW i \in 1 .. Len(queue'), NEW j \in 1 .. Len(queue'), i <= j
        PROVE  Len(queue'[i]) <= Len(queue'[j])
    <3>1. CASE j = Len(queue) + 1
      BY <1>4, <1>5, <1>16, <2>3, <3>1
    <3>2. CASE j \in 1 .. Len(queue)
      <4>1. i \in 1 .. Len(queue)
        BY <1>4, <1>16, <2>4, <3>2
      <4> QED BY <1>16, <2>2, <2>4, <3>2, <4>1
    <3> QED BY <1>4, <1>16, <3>1, <3>2
  <2> QED BY <1>16, <2>3, <2>4 DEF Ordered, h
<1>19. Level'
  <2>1. ASSUME NEW n \in nodes, n # Root, Len(n) <= h PROVE Linked(n)'
    <3>1. n # child
      BY <1>4, <1>5, <2>1
    <3> QED BY <1>7, <1>14, <2>1, <3>1
  <2>2. ASSUME NEW n \in nodes, n # Root, InQueue(n)' PROVE Linked(n)'
    <3>1. CASE n = child
      BY <1>15, <3>1, Zenon
    <3>2. CASE n # child
      BY <1>7, <1>14, <1>17, <2>2, <3>2
    <3> QED BY <3>1, <3>2
  <2>3. ASSUME NEW n \in nodes, NEW c \in Bytes, Len(n) = h, Append(n, c) \in nodes
        PROVE  InQueue(n)' \/ InQueue(Append(n, c))'
    <3>1. InQueue(n) \/ InQueue(Append(n, c))
      BY <1>3, <2>3, Zenon DEF Level, h, p
    <3> QED BY <1>17, <3>1, Zenon
  <2>4. ASSUME NEW n \in nodes, Len(n) > h, ~InQueue(n)', n \in terminal' PROVE n \in Wanted'
    <3>1. n # child /\ ~InQueue(n)
      BY <1>17, <2>4, Zenon
    <3>2. n \in terminal
      BY <1>11, <2>4, <3>1
    <3>3. n \in Wanted
      BY <1>3, <2>4, <3>1, <3>2, Zenon DEF Level, h, p
    <3> QED BY <1>3, <3>3
  <2>5. Len(queue'[1]) = h /\ nodes' = nodes
    BY <1>2, <1>16 DEF h
  <2> QED BY <2>1, <2>2, <2>3, <2>4, <2>5, Zenon DEF Level
<1> QED BY <1>2, <1>12, <1>13, <1>16, <1>18, <1>19 DEF AhoInv, Linking, Matching
-----------------------------------------------------------------------------
(* Links, marks and keywords are those of before.                          *)
LEMMA LinkedKept ==
  ASSUME UNCHANGED <<keywords, nodes, fail, terminal>>
  PROVE  /\ Wanted' = Wanted
         /\ \A n : Linked(n)' <=> Linked(n)
  BY DEF Wanted, Linked, Marked

(* The queue is empty: every node is linked, and a match begins.           *)
LEMMA DoneAho == ASSUME AhoInv, Dequeue, queue = <<>> PROVE AhoInv'
<1>1. Built /\ Waiting /\ Linking
  BY DEF AhoInv
<1>2. /\ phase = "link" /\ phase' = "match"
      /\ UNCHANGED <<keywords, pending, nodes, fail, terminal, queue, value, state, matched>>
  BY DEF Dequeue
<1>3. Wanted' = Wanted /\ \A n : Linked(n)' <=> Linked(n)
  BY <1>2, LinkedKept
<1>4. AllLinked'
  <2>1. AllLinked
    BY <1>1, <1>2 DEF Linking
  <2> QED BY <1>2, <1>3, <2>1 DEF AllLinked
<1>5. value' = <<>> /\ state' = Root /\ matched' = FALSE
  BY <1>1, <1>2 DEF Waiting
<1>6. ToLower(<<>>) = <<>>
  BY DEF ToLower
<1>7. Longest(Root, <<>>, nodes)
  <2>1. Root \in nodes
    BY <1>1 DEF Built, Trie
  <2>2. Suf(Root, <<>>)
    <3>1. <<>> \in Seq(Bytes)
      OBVIOUS
    <3>2. Suf(<<>>, <<>>)
      BY <3>1, SufBasic
    <3> QED BY <3>2 DEF Root
  <2>3. ASSUME NEW l \in nodes, Suf(l, <<>>) PROVE Len(l) <= Len(Root)
    <3>1. Len(l) <= Len(<<>>)
      BY <2>3, Zenon DEF Suf
    <3> QED BY <3>1 DEF Root
  <2> QED BY <2>1, <2>2, <2>3 DEF Longest
<1>8. \A kw \in Wanted : ~Occurs(kw, <<>>)
  <2> TAKE kw \in Wanted
  <2>1. Len(kw) \in Nat /\ Len(kw) > 0
    BY <1>1, WantedTyped
  <2> QED BY <2>1 DEF Occurs
<1>9. Matching'
  <2>1. value' \in Seq(Bytes)
    BY <1>5
  <2>2. Longest(state', ToLower(value'), nodes')
    BY <1>2, <1>5, <1>6, <1>7
  <2>3. matched' <=> \E kw \in Wanted' : Occurs(kw, ToLower(value'))
    BY <1>3, <1>5, <1>6, <1>8
  <2> QED BY <1>4, <2>1, <2>2, <2>3 DEF Matching
<1>10. Built'
  BY <1>1, <1>2, <1>3 DEF Built
<1> QED BY <1>2, <1>9, <1>10 DEF AhoInv, Waiting, Linking

(* All children of the head are in the queue, which goes on to the next.   *)
LEMMA DequeueAho == ASSUME AhoInv, Dequeue, queue # <<>> PROVE AhoInv'
<1> DEFINE p == queue[1]
           h == Len(p)
<1>1. Built /\ Waiting /\ Linking
  BY DEF AhoInv
<1>2. /\ phase = "link" /\ phase' = "link"
      /\ queue' = Tail(queue)
      /\ \A b \in Bytes : Append(p, b) \in nodes => Append(p, b) \in ToSet(queue)
      /\ UNCHANGED <<keywords, pending, nodes, fail, terminal, value, state, matched>>
  BY DEF Dequeue, HasNext, Child, Head
<1>3. Wanted' = Wanted /\ \A n : Linked(n)' <=> Linked(n)
  BY <1>2, LinkedKept
<1>4. Ordered /\ Level
  BY <1>1, <1>2 DEF Linking
<1>5. /\ nodes \subseteq Seq(Bytes)
      /\ Trie(nodes)
      /\ queue \in Seq(nodes)
      /\ p \in nodes
      /\ h \in Nat
      /\ \A n \in nodes : Len(n) \in Nat
      /\ Len(queue) \in Nat /\ Len(queue) > 0
  BY <1>1 DEF Built, Trie
<1>6. /\ queue' \in Seq(nodes)
      /\ Len(queue') = Len(queue) - 1
      /\ \A i \in 1 .. Len(queue') : queue'[i] = queue[i + 1]
  BY <1>2, <1>5, HeadTailProperties
<1>7. /\ \A n \in nodes : n # Root /\ (Len(n) <= h \/ InQueue(n)) => Linked(n)
      /\ \A n \in nodes, b \in Bytes :
           Len(n) = h /\ Append(n, b) \in nodes => InQueue(n) \/ InQueue(Append(n, b))
      /\ \A n \in nodes : Len(n) > h /\ ~InQueue(n) /\ n \in terminal => n \in Wanted
  BY <1>4, Zenon DEF Level
<1>8. \A b \in Bytes : Append(p, b) \in nodes => InQueue(Append(p, b))
  BY <1>2, <1>5, InQueueIs
<1>9. \A i \in 1 .. Len(queue) :
        /\ queue[i] \in nodes
        /\ queue[i] # Root
        /\ Len(queue[i]) \in Nat
        /\ h <= Len(queue[i])
        /\ Len(queue[i]) <= h + 1
  <2> TAKE i \in 1 .. Len(queue)
  <2>1. 1 \in 1 .. Len(queue) /\ 1 <= i
    BY <1>5
  <2>2. queue[i] # Root /\ Len(queue[1]) <= Len(queue[i]) /\ Len(queue[i]) <= Len(queue[1]) + 1
    BY <1>4, <2>1, Zenon DEF Ordered
  <2> QED BY <1>5, <2>2
<1> HIDE DEF p, h
<1>10. /\ \A n : InQueue(n) => n = p \/ InQueue(n)'
       /\ \A n : InQueue(n)' => InQueue(n)
  <2>1. ASSUME NEW n, InQueue(n), n # p PROVE InQueue(n)'
    <3>1. PICK i \in 1 .. Len(queue) : queue[i] = n
      BY <2>1 DEF InQueue
    <3>2. i - 1 \in 1 .. Len(queue') /\ (i - 1) + 1 = i
      BY <1>5, <1>6, <2>1, <3>1 DEF p
    <3>3. queue'[i - 1] = n
      BY <1>6, <3>1, <3>2
    <3> QED BY <3>2, <3>3 DEF InQueue
  <2>2. ASSUME NEW n, InQueue(n)' PROVE InQueue(n)
    <3>1. PICK i \in 1 .. Len(queue') : queue'[i] = n
      BY <2>2, Zenon DEF InQueue
    <3>2. i + 1 \in 1 .. Len(queue) /\ queue[i + 1] = n
      BY <1>5, <1>6, <3>1
    <3> QED BY <3>2 DEF InQueue
  <2> QED BY <2>1, <2>2, Zenon
<1>11. \A n : InQueue(n) => n \in nodes /\ n # Root /\ Len(n) \in Nat /\ h <= Len(n) /\ Len(n) <= h + 1
  BY <1>9 DEF InQueue
<1>12. Len(p) = h
  BY DEF h
<1>13. Built'
  BY <1>1, <1>2, <1>3, <1>6 DEF Built
<1>14. Waiting'
  BY <1>1, <1>2 DEF Waiting
(* A child at the level below is in the queue, unless its parent is.       *)
<1>15. ASSUME NEW n \in nodes, Len(n) = h + 1
       PROVE  \/ InQueue(n)'
              \/ \E m \in nodes : Len(m) = h /\ InQueue(m)'
  <2>1. n # Root
    BY <1>5, <1>15 DEF Root
  <2>2. PICK m \in nodes, b \in Bytes : n = Append(m, b) /\ Len(m) \in Nat /\ Len(n) = Len(m) + 1
    BY <1>5, <2>1, Parent
  <2>3. Len(m) = h
    BY <1>5, <1>15, <2>2
  <2>4. n # p
    BY <1>5, <1>12, <1>15
  <2>5. InQueue(m) \/ InQueue(n)
    BY <1>7, <2>2, <2>3
  <2>6. CASE m = p
    <3>1. InQueue(n)
      BY <1>8, <2>2, <2>6
    <3> QED BY <1>10, <2>4, <3>1, Zenon
  <2>7. CASE m # p
    BY <1>10, <2>3, <2>4, <2>5, <2>7, Zenon
  <2> QED BY <2>6, <2>7
<1>16. CASE queue' = <<>>
  <2>1. \A n : ~InQueue(n)'
    BY <1>16 DEF InQueue
  <2>2. \A n \in nodes : Len(n) # h + 1
    BY <1>15, <2>1, Zenon
  <2>3. \A n \in nodes : Len(n) <= h
    BY <1>5, <2>2, NoDeeper
  <2>4. AllLinked'
    BY <1>2, <1>3, <1>7, <2>3, Zenon DEF AllLinked
  <2> QED BY <1>2, <1>13, <1>14, <1>16, <2>4 DEF AhoInv, Linking, Matching
<1>17. CASE queue' # <<>>
  <2> DEFINE k == Len(queue'[1])
  <2>1. Len(queue') \in Nat /\ Len(queue') > 0 /\ 2 \in 1 .. Len(queue) /\ queue'[1] = queue[2]
    BY <1>5, <1>6, <1>17
  <2>2. k \in Nat /\ (k = h \/ k = h + 1)
    BY <1>5, <1>9, <2>1
  <2> HIDE DEF k
  <2>3. Ordered'
    <3>1. ASSUME NEW i \in 1 .. Len(queue'), NEW j \in 1 .. Len(queue')
          PROVE  /\ queue'[i] # Root
                 /\ i <= j => Len(queue'[i]) <= Len(queue'[j])
                 /\ Len(queue'[i]) <= Len(queue'[1]) + 1
      <4>1. /\ i + 1 \in 1 .. Len(queue) /\ j + 1 \in 1 .. Len(queue)
            /\ queue'[i] = queue[i + 1] /\ queue'[j] = queue[j + 1]
            /\ i <= j => i + 1 <= j + 1
        BY <1>5, <1>6
      <4>2. queue'[i] # Root /\ (i <= j => Len(queue'[i]) <= Len(queue'[j]))
        BY <1>4, <4>1, Zenon DEF Ordered
      <4>3. Len(queue[i + 1]) <= h + 1 /\ Len(queue[i + 1]) \in Nat
        BY <1>9, <4>1, Zenon
      <4>4. Len(queue'[i]) <= Len(queue'[1]) + 1
        <5> DEFINE l == Len(queue[i + 1])
        <5>1. l \in Nat /\ l <= h + 1
          BY <4>3, Zenon
        <5> HIDE DEF l
        <5>2. l <= k + 1
          BY <1>5, <2>2, <5>1
        <5> QED BY <4>1, <5>2, Zenon DEF k, l
      <4> QED BY <4>2, <4>4
    <3> QED BY <3>1, Zenon DEF Ordered
  <2>4. ASSUME k = h + 1 PROVE \A n : InQueue(n)' => Len(n) = h + 1
    <3> SUFFICES ASSUME NEW i \in 1 .. Len(queue') PROVE Len(queue'[i]) = h + 1
      BY Zenon DEF InQueue
    <3>1. /\ i + 1 \in 1 .. Len(queue) /\ 2 <= i + 1
          /\ queue'[i] = queue[i + 1]
      BY <1>5, <1>6
    <3>2. Len(queue[2]) <= Len(queue[i + 1])
      BY <1>4, <2>1, <3>1, Zenon DEF Ordered
    <3>3. Len(queue[2]) = h + 1
      BY <2>1, <2>4 DEF k
    <3> QED BY <1>5, <1>9, <3>1, <3>2, <3>3
  <2>5. ASSUME k = h + 1, NEW n \in nodes, Len(n) = h + 1 PROVE InQueue(n)'
    <3>1. \A m \in nodes : Len(m) = h => ~InQueue(m)'
      BY <1>5, <2>4, <2>5
    <3> QED BY <1>15, <2>5, <3>1, Zenon
  <2>6. ASSUME NEW n \in nodes, n # Root, Len(n) <= k PROVE Linked(n)
    <3>1. CASE Len(n) <= h
      BY <1>7, <2>6, <3>1
    <3>2. CASE ~(Len(n) <= h)
      <4>1. Len(n) = h + 1 /\ k = h + 1
        BY <1>5, <2>2, <2>6, <3>2
      <4>2. InQueue(n)
        BY <1>10, <2>5, <4>1, Zenon
      <4> QED BY <1>7, <2>6, <4>2
    <3> QED BY <3>1, <3>2
  <2>7. ASSUME NEW n \in nodes, NEW b \in Bytes, Len(n) = k, Append(n, b) \in nodes
        PROVE  InQueue(n)' \/ InQueue(Append(n, b))'
    <3>1. CASE k = h + 1
      BY <2>5, <2>7, <3>1, Zenon
    <3>2. CASE k = h
      <4>1. Append(n, b) # p
        <5>1. Len(Append(n, b)) = Len(n) + 1
          BY <1>5
        <5> QED BY <1>5, <1>12, <2>7, <3>2, <5>1
      <4>2. CASE n = p
        BY <1>8, <1>10, <2>7, <4>1, <4>2, Zenon
      <4>3. CASE n # p
        BY <1>7, <1>10, <2>7, <3>2, <4>1, <4>3, Zenon
      <4> QED BY <4>2, <4>3
    <3> QED BY <2>2, <3>1, <3>2
  <2>8. ASSUME NEW n \in nodes, Len(n) > k, ~InQueue(n)', n \in terminal PROVE n \in Wanted
    <3>1. Len(n) > h /\ n # p
      BY <1>5, <1>12, <2>2, <2>8
    <3>2. ~InQueue(n)
      BY <1>10, <2>8, <3>1, Zenon
    <3> QED BY <1>7, <2>8, <3>1, <3>2
  <2>9. Level'
    <3>1. \A n \in nodes : n # Root /\ (Len(n) <= k \/ InQueue(n)') => Linked(n)'
      BY <1>3, <1>7, <1>10, <2>6, Zenon
    <3> QED BY <1>2, <1>3, <2>7, <2>8, <3>1, Zenon DEF Level, k
  <2> QED BY <1>2, <1>13, <1>14, <1>17, <2>3, <2>9 DEF AhoInv, Linking, Matching
<1> QED BY <1>16, <1>17
-----------------------------------------------------------------------------
(* The next byte of a value.                                               *)
LEMMA ScanAho == ASSUME AhoInv, NEW b \in Bytes, Scan(b) PROVE AhoInv'
<1> DEFINE c == ToLower(<<b>>)[1]
           seen == ToLower(value)
<1>1. Built /\ Matching
  BY DEF AhoInv
<1>2. /\ phase = "match" /\ phase' = "match" /\ ~matched
      /\ value' = Append(value, b)
      /\ state' = nextState(state, c)
      /\ matched' = (state' \in terminal)
      /\ UNCHANGED <<keywords, pending, nodes, fail, terminal, queue>>
  BY DEF Scan
<1>3. Wanted' = Wanted /\ \A n : Linked(n)' <=> Linked(n)
  BY <1>2, LinkedKept
<1>4. /\ AllLinked
      /\ value \in Seq(Bytes)
      /\ Longest(state, seen, nodes)
      /\ matched <=> \E kw \in Wanted : Occurs(kw, seen)
  BY <1>1, <1>2 DEF Matching
<1>5. c \in Bytes /\ ToLower(value') = Append(seen, c)
  BY <1>2, <1>4, ToLowerAppend
<1>6. seen \in Seq(Bytes)
  BY <1>4, ToLowerTyped
<1> HIDE DEF c, seen
<1>7. Longest(state', Append(seen, c), nodes)
  <2>1. \A n \in nodes : n # Root => LongestProper(fail[n], n, nodes)
    BY <1>4 DEF AllLinked, Linked
  <2>2. state \in nodes
    BY <1>4 DEF Longest
  <2>3. PICK d : Deep(nodes, d)
    BY <1>1 DEF Built
  <2>4. Trie(nodes) /\ Shorter(nodes, fail)
    BY <1>1 DEF Built
  <2>5. Longest(nextState(state, c), Append(seen, c), nodes)
    BY <1>4, <1>5, <1>6, <2>1, <2>2, <2>3, <2>4, NextStateExact
  <2> QED BY <1>2, <2>5
<1>8. Append(seen, c) \in Seq(Bytes)
  BY <1>5, <1>6
<1>9. \A kw \in Wanted : kw \in Seq(Bytes) /\ kw \in nodes
  BY <1>1, <1>2, WantedTyped
<1>10. /\ state' \in nodes /\ state' \in Seq(Bytes)
       /\ Suf(state', Append(seen, c))
       /\ \A l \in nodes : Suf(l, Append(seen, c)) => Len(l) <= Len(state')
  BY <1>1, <1>7 DEF Longest, Built, Trie
<1>11. \A kw \in Wanted : Suf(kw, state') <=> Suf(kw, Append(seen, c))
  <2> TAKE kw \in Wanted
  <2>1. ASSUME Suf(kw, state') PROVE Suf(kw, Append(seen, c))
    BY <1>8, <1>9, <1>10, <2>1, SufTrans
  <2>2. ASSUME Suf(kw, Append(seen, c)) PROVE Suf(kw, state')
    <3>1. Len(kw) <= Len(state')
      BY <1>9, <1>10, <2>2
    <3> QED BY <1>8, <1>9, <1>10, <2>2, <3>1, SufNested
  <2> QED BY <2>1, <2>2
<1>12. state' \in terminal <=> \E kw \in Wanted : Suf(kw, state')
  <2>1. CASE state' = Root
    <3>1. Root \notin terminal
      BY <1>1 DEF Built
    <3>2. ASSUME NEW kw \in Wanted, Suf(kw, Root) PROVE FALSE
      <4>1. Len(kw) \in Nat /\ Len(kw) > 0
        BY <1>1, WantedTyped
      <4>2. Len(kw) <= Len(Root)
        BY <3>2, Zenon DEF Suf
      <4> QED BY <4>1, <4>2 DEF Root
    <3> QED BY <2>1, <3>1, <3>2
  <2>2. CASE state' # Root
    BY <1>4, <1>10, <2>2 DEF AllLinked, Linked, Marked
  <2> QED BY <2>1, <2>2
<1>13. \A kw \in Wanted : Occurs(kw, Append(seen, c)) <=> Suf(kw, Append(seen, c))
  <2> TAKE kw \in Wanted
  <2>1. ~Occurs(kw, seen)
    BY <1>2, <1>4
  <2>2. Occurs(kw, Append(seen, c)) <=> Occurs(kw, seen) \/ Suf(kw, Append(seen, c))
    BY <1>5, <1>6, <1>9, OccursAppend
  <2> QED BY <2>1, <2>2
<1>14. Matching'
  <2>1. AllLinked'
    BY <1>2, <1>3, <1>4 DEF AllLinked
  <2>2. value' \in Seq(Bytes)
    BY <1>2, <1>4
  <2>3. Longest(state', ToLower(value'), nodes')
    BY <1>2, <1>5, <1>7
  <2>4. matched' <=> \E kw \in Wanted' : Occurs(kw, ToLower(value'))
    BY <1>2, <1>3, <1>5, <1>11, <1>12, <1>13
  <2> QED BY <2>1, <2>2, <2>3, <2>4 DEF Matching
<1>15. Built'
  BY <1>1, <1>2, <1>3 DEF Built
<1> QED BY <1>2, <1>14, <1>15 DEF AhoInv, Waiting, Linking

LEMMA StutterAho == ASSUME AhoInv, UNCHANGED vars PROVE AhoInv'
<1>1. UNCHANGED <<keywords, phase, pending, nodes, fail, terminal, queue, value, state, matched>>
  BY DEF vars
<1>2. Wanted' = Wanted /\ \A n : Linked(n)' <=> Linked(n)
  BY <1>1, LinkedKept
<1>3. Built' /\ Waiting'
  BY <1>1, <1>2 DEF AhoInv, Built, Waiting
<1>4. AllLinked' <=> AllLinked
  BY <1>1, <1>2 DEF AllLinked
<1>5. Ordered' <=> Ordered
  BY <1>1 DEF Ordered
<1>6. Level' <=> Level
  <2>1. \A n : InQueue(n)' <=> InQueue(n)
    BY <1>1 DEF InQueue
  <2> QED BY <1>1, <1>2, <2>1, Zenon DEF Level
<1>7. Linking'
  BY <1>1, <1>4, <1>5, <1>6 DEF AhoInv, Linking
<1>8. Matching'
  BY <1>1, <1>2, <1>4 DEF AhoInv, Matching
<1> QED BY <1>3, <1>7, <1>8 DEF AhoInv

(* In every reachable state the links follow the levels of the trie and a  *)
(* match stands at the longest suffix of what it has seen.                 *)
THEOREM AhoInvariant == Spec => []AhoInv
<1>1. Init => AhoInv
  BY InitAho
<1>2. AhoInv /\ [Next]_vars => AhoInv'
  <2> SUFFICES ASSUME AhoInv, [Next]_vars PROVE AhoInv'
    OBVIOUS
  <2>1. ASSUME NEW kw \in pending, Insert(kw) PROVE AhoInv'
    BY <2>1, InsertAho
  <2>2. CASE LinkRoots
    BY <2>2, LinkRootsAho
  <2>3. ASSUME NEW b \in Bytes, Link(b) PROVE AhoInv'
    BY <2>3, LinkAho
  <2>4. ASSUME NEW b \in Bytes, Scan(b) PROVE AhoInv'
    BY <2>4, ScanAho
  <2>5. CASE Dequeue
    BY <2>5, DoneAho, DequeueAho
  <2>6. CASE UNCHANGED vars
    BY <2>6, StutterAho
  <2> QED BY <2>1, <2>2, <2>3, <2>4, <2>5, <2>6 DEF Next
<1> QED BY <1>1, <1>2, PTL DEF Spec

(* What Linked says of a node, in the words of the specification.          *)
LEMMA LinkedExact ==
  ASSUME Built, NEW n \in nodes, n # Root => Linked(n)
  PROVE  /\ IsStrictSuffix(fail[n], n) \/ n = Root
         /\ \A m \in nodes : IsStrictSuffix(m, n) => Len(m) <= Len(fail[n])
<1>1. \A m \in nodes : m \in Seq(Bytes) /\ Len(m) \in Nat
  BY DEF Built, Trie
<1>2. \A m \in nodes : IsStrictSuffix(m, n) <=> Suf(m, n) /\ m # n
  BY <1>1, SuffixIs DEF IsStrictSuffix
<1>3. CASE n # Root
  BY <1>2, <1>3 DEF Linked, LongestProper
<1>4. CASE n = Root
  <2>1. ASSUME NEW m \in nodes, Suf(m, n), m # n PROVE FALSE
    <3>1. Len(m) <= 0
      BY <1>4, <2>1 DEF Suf, Root
    <3>2. m = <<>>
      BY <1>1, <3>1
    <3> QED BY <1>4, <2>1, <3>2 DEF Root
  <2> QED BY <1>2, <1>4, <2>1
<1> QED BY <1>3, <1>4

(* For every set of keywords: whatever the order buildFailures ranges over *)
(* the maps in, each link it has set leads to the longest proper suffix    *)
(* of the node that is in the trie.                                        *)
THEOREM AhoFailExact == Spec => []FailExact
<1>1. AhoInv => FailExact
  <2> SUFFICES ASSUME AhoInv, NEW n \in nodes,
                      phase = "match" \/ (phase = "link" /\ n \in ToSet(queue))
               PROVE  /\ IsStrictSuffix(fail[n], n) \/ n = Root
                      /\ \A m \in nodes : IsStrictSuffix(m, n) => Len(m) <= Len(fail[n])
    BY DEF FailExact
  <2>1. Built
    BY DEF AhoInv
  <2>2. n # Root => Linked(n)
    <3>1. CASE phase = "match"
      BY <3>1 DEF AhoInv, Matching, AllLinked
    <3>2. CASE phase = "link" /\ n \in ToSet(queue)
      <4>1. InQueue(n)
        BY <2>1, <3>2, InQueueIs DEF Built
      <4>2. CASE queue = <<>>
        BY <3>2, <4>2 DEF AhoInv, Linking, AllLinked
      <4>3. CASE queue # <<>>
        <5>1. Level
          BY <3>2, <4>3 DEF AhoInv, Linking
        <5> QED BY <4>1, <5>1 DEF Level
      <4> QED BY <4>2, <4>3
    <3> QED BY <3>1, <3>2
  <2> QED BY <2>1, <2>2, LinkedExact
<1> QED BY <1>1, AhoInvariant, PTL

(* For every set of keywords and every value: match has returned true      *)
(* exactly when a keyword that is not blank occurs in what it has seen,    *)
(* letters compared without case.                                          *)
THEOREM AhoMatchExact == Spec => []MatchExact
<1>1. AhoInv => MatchExact
  <2> SUFFICES ASSUME AhoInv, phase = "match"
               PROVE  matched <=> \E line \in keywords :
                        ToLower(TrimSpace(line)) # <<>>
                        /\ Occurs(ToLower(TrimSpace(line)), ToLower(value))
    BY DEF MatchExact
  <2>1. matched <=> \E kw \in Wanted : Occurs(kw, ToLower(value))
    BY DEF AhoInv, Matching
  <2> QED BY <2>1 DEF Wanted, Clean
<1> QED BY <1>1, AhoInvariant, PTL
=============================================================================
