---------------------------- MODULE Reload_proofs ----------------------------
(* Proofs about Reload, for any number of reloads, edits and bad files.    *)
EXTENDS Reload, TLAPS

(* What is in use, and what a reload began with, is no newer than the disk. *)
DiskNewest == Newer(disk, holder) /\ \A r \in Reloaders : Newer(disk, start[r])

(* Reloads that are under way together know of each other.                 *)
OverlapKnown ==
  \A r, q \in Reloaders : r # q /\ Active(r) /\ Active(q) => overlapped[r]

(* What a reload has read loads, is no newer than the disk, no older than  *)
(* when it began and, if it is alone, no older than what is in use.        *)
ReadOk ==
  \A r \in Reloaders :
    /\ pc[r] \in {"keywords", "store"} =>
         /\ seen[r].rules \notin BadRules
         /\ seen[r].rules <= disk.rules
         /\ seen[r].rules >= start[r].rules
         /\ ~overlapped[r] => seen[r].rules >= holder.rules
    /\ pc[r] = "store" =>
         /\ seen[r].keywords \notin BadKeywords
         /\ seen[r].keywords <= disk.keywords
         /\ seen[r].keywords >= start[r].keywords
         /\ ~overlapped[r] => seen[r].keywords >= holder.keywords

IInv == TypeOK /\ DiskNewest /\ OverlapKnown /\ ReadOk

LEMMA ContentsFacts ==
  ASSUME NEW c \in Contents
  PROVE  c.rules \in Nat /\ c.keywords \in Nat
  BY ReloadAssumption DEF Contents

LEMMA InitIInv == Init => IInv
<1> SUFFICES ASSUME Init PROVE IInv
  OBVIOUS
<1>1. First \in Contents /\ First.rules = 0 /\ First.keywords = 0
  BY ReloadAssumption DEF First, Contents
<1>2. TypeOK
  <2>1. /\ disk \in Contents /\ served \subseteq Contents
        /\ holder \in Contents /\ holder.rules \notin BadRules
        /\ holder.keywords \notin BadKeywords
    BY <1>1, ReloadAssumption DEF Init
  <2>2. seen \in [Reloaders -> Contents] /\ start \in [Reloaders -> Contents]
    BY <1>1 DEF Init
  <2>3. /\ ctxDone \in [Reloaders -> BOOLEAN]
        /\ overlapped \in [Reloaders -> BOOLEAN]
        /\ pending \in BOOLEAN /\ stopping \in BOOLEAN
    BY DEF Init
  <2>4. /\ pc \in [Reloaders -> {"idle", "begin", "rules", "keywords", "store", "gone"}]
        /\ answer \in [HttpReloads -> {"none", "ok", "error"}]
    BY DEF Init
  <2>5. signalled \in 0..MaxEdits /\ logged \in 0..MaxEdits
    BY ReloadAssumption DEF Init
  <2> QED BY <2>1, <2>2, <2>3, <2>4, <2>5 DEF TypeOK
<1>3. DiskNewest
  BY <1>1 DEF Init, DiskNewest, Newer
<1>4. OverlapKnown /\ ReadOk
  BY DEF Init, OverlapKnown, ReadOk, Active
<1> QED BY <1>2, <1>3, <1>4 DEF IInv

(* A reload begins, by a request or by a signal.                           *)
LEMMA BeginStep ==
  ASSUME IInv, NEW r \in Reloaders, Begin(r), pc[r] = "idle",
         ctxDone' \in [Reloaders -> BOOLEAN], pending' \in BOOLEAN
  PROVE  IInv'
<1>1. UNCHANGED <<disk, holder, served, seen, answer, stopping, signalled, logged>>
  BY DEF Begin
<1>2. /\ pc' = [pc EXCEPT ![r] = "begin"]
      /\ start' = [start EXCEPT ![r] = disk]
      /\ \A q \in Reloaders : overlapped'[q] =
           IF q = r THEN \E o \in Reloaders : Active(o) ELSE overlapped[q] \/ Active(q)
  BY DEF Begin
<1>3. overlapped' \in [Reloaders -> BOOLEAN]
  <2>1. \A q \in Reloaders : overlapped[q] \in BOOLEAN
    BY DEF IInv, TypeOK
  <2> QED BY <2>1 DEF Begin, Active
<1>4. TypeOK'
  BY <1>1, <1>2, <1>3 DEF IInv, TypeOK
<1>5. DiskNewest'
  <2>1. disk.rules \in Nat /\ disk.keywords \in Nat
    BY ContentsFacts DEF IInv, TypeOK
  <2> QED BY <1>1, <1>2, <2>1 DEF IInv, TypeOK, DiskNewest, Newer
<1>6. \A q \in Reloaders : q # r => pc'[q] = pc[q] /\ start'[q] = start[q]
  BY <1>2 DEF IInv, TypeOK
<1>7. pc'[r] = "begin"
  BY <1>2 DEF IInv, TypeOK
<1>8. OverlapKnown'
  <2> SUFFICES ASSUME NEW a \in Reloaders, NEW b \in Reloaders, a # b,
                      Active(a)', Active(b)'
               PROVE  overlapped'[a]
    BY DEF OverlapKnown
  <2>1. CASE a = r
    <3>1. Active(b)
      BY <1>6, <2>1 DEF Active
    <3> QED BY <1>2, <2>1, <3>1
  <2>2. CASE a # r
    <3>1. Active(a)
      BY <1>6, <2>2 DEF Active
    <3> QED BY <1>2, <2>2, <3>1
  <2> QED BY <2>1, <2>2
<1>9. ReadOk'
  <2> SUFFICES ASSUME NEW q \in Reloaders
               PROVE  /\ pc'[q] \in {"keywords", "store"} =>
                           /\ seen[q].rules \notin BadRules
                           /\ seen[q].rules <= disk.rules
                           /\ seen[q].rules >= start'[q].rules
                           /\ ~overlapped'[q] => seen[q].rules >= holder.rules
                      /\ pc'[q] = "store" =>
                           /\ seen[q].keywords \notin BadKeywords
                           /\ seen[q].keywords <= disk.keywords
                           /\ seen[q].keywords >= start'[q].keywords
                           /\ ~overlapped'[q] => seen[q].keywords >= holder.keywords
    BY <1>1 DEF ReadOk
  <2>1. CASE q = r
    BY <1>7, <2>1
  <2>2. CASE q # r
    <3>1. ~overlapped'[q] => ~overlapped[q]
      BY <1>2, <2>2
    <3> QED BY <1>6, <2>2, <3>1 DEF IInv, ReadOk
  <2> QED BY <2>1, <2>2
<1> QED BY <1>4, <1>5, <1>8, <1>9 DEF IInv

(* A reload that moves on, or returns, without a store.                    *)
LEMMA MoveStep ==
  ASSUME IInv, NEW r \in Reloaders, NEW next \in {"idle", "rules", "keywords", "store"},
         Active(r), pc' = [pc EXCEPT ![r] = next],
         seen' \in [Reloaders -> Contents],
         \A q \in Reloaders : q # r => seen'[q] = seen[q],
         UNCHANGED <<disk, holder, start, overlapped, served, ctxDone, pending, stopping, signalled>>,
         answer' \in [HttpReloads -> {"none", "ok", "error"}],
         logged' \in 0..MaxEdits,
         next \in {"keywords", "store"} =>
           /\ seen'[r].rules \notin BadRules
           /\ seen'[r].rules <= disk.rules
           /\ seen'[r].rules >= start[r].rules
           /\ ~overlapped[r] => seen'[r].rules >= holder.rules,
         next = "store" =>
           /\ seen'[r].keywords \notin BadKeywords
           /\ seen'[r].keywords <= disk.keywords
           /\ seen'[r].keywords >= start[r].keywords
           /\ ~overlapped[r] => seen'[r].keywords >= holder.keywords
  PROVE  IInv'
<1>1. /\ pc'[r] = next
      /\ \A q \in Reloaders : q # r => pc'[q] = pc[q]
  BY DEF IInv, TypeOK
<1>2. TypeOK'
  BY DEF IInv, TypeOK
<1>3. DiskNewest'
  BY DEF IInv, DiskNewest
<1>4. OverlapKnown'
  <2>1. \A q \in Reloaders : Active(q)' => Active(q)
    BY <1>1 DEF Active
  <2> QED BY <2>1 DEF IInv, OverlapKnown
<1>5. ReadOk'
  <2> SUFFICES ASSUME NEW q \in Reloaders
               PROVE  /\ pc'[q] \in {"keywords", "store"} =>
                           /\ seen'[q].rules \notin BadRules
                           /\ seen'[q].rules <= disk.rules
                           /\ seen'[q].rules >= start[q].rules
                           /\ ~overlapped[q] => seen'[q].rules >= holder.rules
                      /\ pc'[q] = "store" =>
                           /\ seen'[q].keywords \notin BadKeywords
                           /\ seen'[q].keywords <= disk.keywords
                           /\ seen'[q].keywords >= start[q].keywords
                           /\ ~overlapped[q] => seen'[q].keywords >= holder.keywords
    BY DEF ReadOk
  <2>1. CASE q = r
    BY <1>1, <2>1
  <2>2. CASE q # r
    BY <1>1, <2>2 DEF IInv, ReadOk
  <2> QED BY <2>1, <2>2
<1> QED BY <1>2, <1>3, <1>4, <1>5 DEF IInv

LEMMA ReturnStep ==
  ASSUME IInv, NEW r \in Reloaders, NEW outcome \in {"ok", "error"}, Return(r, outcome)
  PROVE  /\ pc' = [pc EXCEPT ![r] = "idle"]
         /\ answer' \in [HttpReloads -> {"none", "ok", "error"}]
         /\ logged' \in 0..MaxEdits
<1>1. answer' \in [HttpReloads -> {"none", "ok", "error"}]
  BY DEF Return, IInv, TypeOK
<1>2. start[Hup].rules \in 0..MaxEdits
  BY DEF IInv, TypeOK, Contents, Reloaders
<1>3. logged' \in 0..MaxEdits
  BY <1>2 DEF Return, IInv, TypeOK
<1> QED BY <1>1, <1>3 DEF Return

LEMMA FailStep ==
  ASSUME IInv, NEW r \in Reloaders, Active(r), Fails(r),
         UNCHANGED <<ctxDone, start, overlapped, envVars>>
  PROVE  IInv'
<1>1. Return(r, "error") /\ UNCHANGED <<holder, served, seen>>
  BY DEF Fails
<1>2. /\ pc' = [pc EXCEPT ![r] = "idle"]
      /\ answer' \in [HttpReloads -> {"none", "ok", "error"}]
      /\ logged' \in 0..MaxEdits
  BY <1>1, ReturnStep
<1>3. seen' \in [Reloaders -> Contents]
  BY <1>1 DEF IInv, TypeOK
<1>4. UNCHANGED <<disk, pending, stopping, signalled>>
  BY DEF envVars
<1> QED BY <1>1, <1>2, <1>3, <1>4, MoveStep

LEMMA ReadStep ==
  ASSUME IInv, NEW r \in Reloaders, TestContext(r) \/ ReadRules(r) \/ ReadKeywords(r),
         UNCHANGED <<ctxDone, start, overlapped, envVars>>
  PROVE  IInv'
<1>1. Active(r)
  BY DEF TestContext, ReadRules, ReadKeywords, Active
<1>2. CASE Fails(r)
  BY <1>1, <1>2, FailStep
<1>3. /\ answer \in [HttpReloads -> {"none", "ok", "error"}]
      /\ logged \in 0..MaxEdits
      /\ UNCHANGED <<disk, pending, stopping, signalled>>
      /\ seen \in [Reloaders -> Contents]
      /\ disk \in Contents
      /\ holder \in Contents
  BY DEF IInv, TypeOK, envVars
<1>4. CASE TestContext(r) /\ ~Fails(r)
  <2>1. Proceed(r, "rules") /\ UNCHANGED seen
    BY <1>4 DEF TestContext
  <2> QED BY <1>1, <1>3, <2>1, MoveStep DEF Proceed
<1>5. CASE ReadRules(r) /\ ~Fails(r)
  <2>1. /\ Proceed(r, "keywords")
        /\ seen' = [seen EXCEPT ![r].rules = disk.rules]
        /\ disk.rules \notin BadRules
    BY <1>5 DEF ReadRules
  <2>2. seen' \in [Reloaders -> Contents]
    BY <1>3, <2>1 DEF Contents
  <2>3. seen'[r].rules = disk.rules /\ \A q \in Reloaders : q # r => seen'[q] = seen[q]
    BY <1>3, <2>1 DEF Contents
  <2>4. disk.rules >= start[r].rules /\ disk.rules >= holder.rules
    BY DEF IInv, DiskNewest, Newer
  <2>5. disk.rules \in Nat
    BY <1>3, ContentsFacts
  <2>6. /\ pc' = [pc EXCEPT ![r] = "keywords"]
        /\ UNCHANGED <<holder, served, answer, logged>>
    BY <2>1 DEF Proceed
  <2>7. /\ seen'[r].rules \notin BadRules
        /\ seen'[r].rules <= disk.rules
        /\ seen'[r].rules >= start[r].rules
        /\ seen'[r].rules >= holder.rules
    BY <2>1, <2>3, <2>4, <2>5
  <2>8. answer' \in [HttpReloads -> {"none", "ok", "error"}] /\ logged' \in 0..MaxEdits
    BY <1>3, <2>6
  <2> QED BY <1>1, <1>3, <2>2, <2>3, <2>6, <2>7, <2>8, MoveStep
<1>6. CASE ReadKeywords(r) /\ ~Fails(r)
  <2>1. /\ Proceed(r, "store")
        /\ seen' = [seen EXCEPT ![r].keywords = disk.keywords]
        /\ disk.keywords \notin BadKeywords
        /\ pc[r] = "keywords"
    BY <1>6 DEF ReadKeywords
  <2>2. seen' \in [Reloaders -> Contents]
    BY <1>3, <2>1 DEF Contents
  <2>3. /\ seen'[r].keywords = disk.keywords
        /\ seen'[r].rules = seen[r].rules
        /\ \A q \in Reloaders : q # r => seen'[q] = seen[q]
    BY <1>3, <2>1 DEF Contents
  <2>4. disk.keywords >= start[r].keywords /\ disk.keywords >= holder.keywords
    BY DEF IInv, DiskNewest, Newer
  <2>5. disk.keywords \in Nat
    BY <1>3, ContentsFacts
  <2>6. /\ pc' = [pc EXCEPT ![r] = "store"]
        /\ UNCHANGED <<holder, served, answer, logged>>
    BY <2>1 DEF Proceed
  <2>7. /\ seen[r].rules \notin BadRules
        /\ seen[r].rules <= disk.rules
        /\ seen[r].rules >= start[r].rules
        /\ ~overlapped[r] => seen[r].rules >= holder.rules
    BY <2>1 DEF IInv, ReadOk
  <2>8. /\ seen'[r].rules \notin BadRules
        /\ seen'[r].rules <= disk.rules
        /\ seen'[r].rules >= start[r].rules
        /\ ~overlapped[r] => seen'[r].rules >= holder.rules
        /\ seen'[r].keywords \notin BadKeywords
        /\ seen'[r].keywords <= disk.keywords
        /\ seen'[r].keywords >= start[r].keywords
        /\ seen'[r].keywords >= holder.keywords
    BY <2>1, <2>3, <2>4, <2>5, <2>7
  <2>9. answer' \in [HttpReloads -> {"none", "ok", "error"}] /\ logged' \in 0..MaxEdits
    BY <1>3, <2>6
  <2> QED BY <1>1, <1>3, <2>2, <2>3, <2>6, <2>8, <2>9, MoveStep
<1> QED BY <1>2, <1>4, <1>5, <1>6

(* The engine is replaced: whoever else is under way was overlapped.       *)
LEMMA StoreStep ==
  ASSUME IInv, NEW r \in Reloaders, Store(r),
         UNCHANGED <<ctxDone, start, overlapped, envVars>>
  PROVE  IInv'
<1>1. Active(r) /\ pc[r] = "store"
  BY DEF Store, Active
<1>2. CASE ctxDone[r]
  BY <1>1, <1>2, FailStep DEF Store
<1>3. CASE ~ctxDone[r]
  <2>1. /\ holder' = seen[r]
        /\ served' = served \cup {seen[r]}
        /\ Return(r, "ok")
        /\ UNCHANGED seen
        /\ UNCHANGED <<disk, pending, stopping, signalled>>
    BY <1>3 DEF Store, envVars
  <2>2. /\ pc' = [pc EXCEPT ![r] = "idle"]
        /\ answer' \in [HttpReloads -> {"none", "ok", "error"}]
        /\ logged' \in 0..MaxEdits
    BY <2>1, ReturnStep
  <2>3. /\ pc'[r] = "idle"
        /\ \A q \in Reloaders : q # r => pc'[q] = pc[q]
    BY <2>2 DEF IInv, TypeOK
  <2>4. /\ seen[r] \in Contents
        /\ seen[r].rules \notin BadRules /\ seen[r].keywords \notin BadKeywords
        /\ seen[r].rules <= disk.rules /\ seen[r].keywords <= disk.keywords
    BY <1>1 DEF IInv, TypeOK, ReadOk
  <2>5. TypeOK'
    BY <2>1, <2>2, <2>4 DEF IInv, TypeOK
  <2>6. DiskNewest'
    <3>1. /\ disk.rules \in Nat /\ disk.keywords \in Nat
          /\ seen[r].rules \in Nat /\ seen[r].keywords \in Nat
      BY <2>4, ContentsFacts DEF IInv, TypeOK
    <3> QED BY <2>1, <2>4, <3>1 DEF IInv, DiskNewest, Newer
  <2>7. OverlapKnown'
    <3>1. \A q \in Reloaders : Active(q)' => Active(q)
      BY <2>3 DEF Active
    <3> QED BY <3>1 DEF IInv, OverlapKnown
  <2>8. ReadOk'
    <3> SUFFICES ASSUME NEW q \in Reloaders
                 PROVE  /\ pc'[q] \in {"keywords", "store"} =>
                             /\ seen[q].rules \notin BadRules
                             /\ seen[q].rules <= disk.rules
                             /\ seen[q].rules >= start[q].rules
                             /\ overlapped[q]
                        /\ pc'[q] = "store" =>
                             /\ seen[q].keywords \notin BadKeywords
                             /\ seen[q].keywords <= disk.keywords
                             /\ seen[q].keywords >= start[q].keywords
      BY <2>1 DEF ReadOk
    <3>1. CASE q = r
      BY <2>3, <3>1
    <3>2. CASE q # r
      <4>1. pc'[q] \in {"keywords", "store"} => overlapped[q]
        BY <1>1, <2>3, <3>2 DEF IInv, OverlapKnown, Active
      <4> QED BY <2>3, <3>2, <4>1 DEF IInv, ReadOk
    <3> QED BY <3>1, <3>2
  <2> QED BY <2>5, <2>6, <2>7, <2>8 DEF IInv
<1> QED BY <1>2, <1>3

(* Steps of the environment.                                               *)
LEMMA EditStep ==
  ASSUME IInv, NEW file \in {"rules", "keywords"}, Edit(file)
  PROVE  IInv'
<1>1. /\ disk' = [disk EXCEPT ![file] = @ + 1]
      /\ disk[file] < MaxEdits
      /\ UNCHANGED <<holder, served, pc, seen, ctxDone, answer, pending, stopping, start,
                     overlapped, signalled, logged>>
  BY DEF Edit
<1>2. disk \in Contents /\ disk' \in Contents
  BY <1>1, ReloadAssumption DEF IInv, TypeOK, Contents
<1>3. disk'.rules >= disk.rules /\ disk'.keywords >= disk.keywords
  BY <1>1, <1>2, ContentsFacts DEF Contents
<1>4. /\ disk.rules \in Nat /\ disk.keywords \in Nat
      /\ disk'.rules \in Nat /\ disk'.keywords \in Nat
  BY <1>2, ContentsFacts
<1>5. TypeOK'
  BY <1>1, <1>2 DEF IInv, TypeOK
<1>6. \A c \in Contents : Newer(disk, c) => Newer(disk', c)
  BY <1>3, <1>4, ContentsFacts DEF Newer
<1>7. DiskNewest'
  <2>1. Newer(disk', holder)
    BY <1>6 DEF IInv, TypeOK, DiskNewest
  <2>2. \A r \in Reloaders : Newer(disk', start[r])
    BY <1>6 DEF IInv, TypeOK, DiskNewest
  <2> QED BY <1>1, <2>1, <2>2 DEF DiskNewest, Newer
<1>8. OverlapKnown'
  BY <1>1 DEF IInv, OverlapKnown, Active
<1>9. ReadOk'
  <2>1. \A r \in Reloaders : seen[r].rules \in Nat /\ seen[r].keywords \in Nat
    BY ContentsFacts DEF IInv, TypeOK
  <2> QED BY <1>1, <1>3, <1>4, <2>1 DEF IInv, ReadOk
<1> QED BY <1>5, <1>7, <1>8, <1>9 DEF IInv

LEMMA OtherStep ==
  ASSUME IInv, Leave \/ Signal \/ Stop \/ (\E r \in Reloaders : EndContext(r))
  PROVE  IInv'
<1>1. UNCHANGED <<disk, holder, served, seen, answer, start, overlapped, logged>>
  BY DEF Leave, Signal, Stop, EndContext
<1>2. /\ pc' \in [Reloaders -> {"idle", "begin", "rules", "keywords", "store", "gone"}]
      /\ \A r \in Reloaders : pc'[r] = pc[r] \/ pc'[r] = "gone"
  BY DEF Leave, Signal, Stop, EndContext, IInv, TypeOK, Reloaders
<1>3. ctxDone' \in [Reloaders -> BOOLEAN]
  <2>1. CASE Leave \/ Signal
    BY <2>1 DEF Leave, Signal, IInv, TypeOK
  <2>2. CASE Stop
    BY <2>2 DEF Stop, IInv, TypeOK, Active
  <2>3. CASE \E r \in Reloaders : EndContext(r)
    BY <2>3 DEF EndContext, IInv, TypeOK
  <2> QED BY <2>1, <2>2, <2>3
<1>4. pending' \in BOOLEAN /\ stopping' \in BOOLEAN
  BY DEF Leave, Signal, Stop, EndContext, IInv, TypeOK
<1>5. signalled' \in 0..MaxEdits
  BY DEF Leave, Signal, Stop, EndContext, IInv, TypeOK, Contents
<1>6. TypeOK'
  BY <1>1, <1>2, <1>3, <1>4, <1>5 DEF IInv, TypeOK
<1>7. DiskNewest'
  BY <1>1 DEF IInv, DiskNewest
<1>8. OverlapKnown'
  BY <1>1, <1>2 DEF IInv, OverlapKnown, Active
<1>9. ReadOk'
  BY <1>1, <1>2 DEF IInv, ReadOk
<1> QED BY <1>6, <1>7, <1>8, <1>9 DEF IInv

LEMMA NextIInv == IInv /\ [Next]_vars => IInv'
<1> SUFFICES ASSUME IInv, [Next]_vars PROVE IInv'
  OBVIOUS
<1>1. ASSUME NEW r \in Reloaders, Request(r) PROVE IInv'
  <2>1. ctxDone' \in [Reloaders -> BOOLEAN] /\ pending' \in BOOLEAN
    BY <1>1 DEF Request, IInv, TypeOK
  <2> QED BY <1>1, <2>1, BeginStep DEF Request
<1>2. CASE Receive
  <2>1. ctxDone' \in [Reloaders -> BOOLEAN] /\ pending' \in BOOLEAN
    BY <1>2 DEF Receive, IInv, TypeOK
  <2>2. Hup \in Reloaders
    BY DEF Reloaders
  <2> QED BY <1>2, <2>1, <2>2, BeginStep DEF Receive
<1>3. ASSUME NEW r \in Reloaders, Step(r) PROVE IInv'
  BY <1>3, ReadStep, StoreStep DEF Step
<1>4. ASSUME NEW file \in {"rules", "keywords"}, Edit(file) PROVE IInv'
  BY <1>4, EditStep
<1>5. ASSUME Leave \/ Signal \/ Stop \/ (\E r \in Reloaders : EndContext(r)) PROVE IInv'
  BY <1>5, OtherStep
<1>6. CASE UNCHANGED vars
  BY <1>6 DEF vars, IInv, TypeOK, DiskNewest, OverlapKnown, ReadOk, Active, Newer
<1> QED BY <1>1, <1>2, <1>3, <1>4, <1>5, <1>6 DEF Next

(* Spec keeps the inductive invariant.                                     *)
THEOREM ReloadInvariant == Spec => []IInv
  BY InitIInv, NextIInv, PTL DEF Spec

(* Type correctness, and with any number of reloads, edits and bad files   *)
(* the engine in use was built from files that load.                       *)
THEOREM ReloadTypeOK == Spec => []TypeOK
  BY ReloadInvariant, PTL DEF IInv

(* With any number of reloads and edits, one that no other overlapped      *)
(* neither goes back to older files nor misses an edit made before it.     *)
THEOREM ReloadNoRollback == Spec => NoRollback
<1> DEFINE A == \A r \in Reloaders :
       pc[r] = "store" /\ holder' # holder /\ pc'[r] = "idle" /\ ~overlapped[r] =>
         Newer(holder', holder) /\ Newer(holder', start[r])
<1>1. IInv /\ [Next]_vars => [A]_vars
  <2> SUFFICES ASSUME IInv, Next, NEW r \in Reloaders, pc[r] = "store",
                      holder' # holder, pc'[r] = "idle", ~overlapped[r]
               PROVE  Newer(holder', holder) /\ Newer(holder', start[r])
    BY DEF vars
  <2>1. PICK q \in Reloaders : Step(q) /\ Store(q) /\ ~ctxDone[q]
    <3>1. \E q \in Reloaders : Step(q)
      BY DEF Next, Request, Begin, Receive, Leave, EndContext, Edit, Signal, Stop
    <3> QED BY <3>1 DEF Step, TestContext, ReadRules, ReadKeywords, Store, Fails, Proceed
  <2>2. q = r
    <3>1. q # r => pc'[r] = pc[r]
      BY <2>1 DEF Store, Return, IInv, TypeOK
    <3> QED BY <3>1
  <2>3. holder' = seen[r]
    BY <2>1, <2>2 DEF Store
  <2> QED BY <2>3 DEF IInv, ReadOk, Newer
<1> QED BY <1>1, ReloadInvariant, PTL DEF Spec, NoRollback
=============================================================================
