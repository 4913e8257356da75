---------------------------- MODULE Loader_proofs ----------------------------
(***************************************************************************)
(* Proofs about Loader, for every set of files: the type invariant, the    *)
(* order and the completeness of a snapshot, and that exactly the files    *)
(* with a ring of references are rejected as cycles.                       *)
(***************************************************************************)
EXTENDS Loader, TLAPS

Checked == {"refs", "order", "build", "loaded"}   \* the first loop is over

(* The references of the n-th rule are ids of the file.                    *)
RefsKnown(n) ==
  file.rules[n].type = "combiner" =>
    \A q \in DOMAIN file.rules[n].of : file.rules[n].of[q] \in ids

(* What the two checking loops have established.                           *)
InvIds ==
  /\ \A id \in ids : \E n \in DOMAIN file.rules : file.rules[n].id = id
  /\ stage = "header" => i = 1
  /\ stage = "ids" => \A n \in DOMAIN file.rules : n < i => file.rules[n].id \in ids
  /\ stage \in Checked => \A n \in DOMAIN file.rules : file.rules[n].id \in ids
  /\ stage = "refs" => \A n \in DOMAIN file.rules : n < i => RefsKnown(n)
  /\ stage \in Checked \ {"refs"} => \A n \in DOMAIN file.rules : RefsKnown(n)

(* The visit works on ids of the file only.                                *)
InvKnown ==
  /\ \A s \in DOMAIN stack : stack[s].id \in ids
  /\ \A n \in DOMAIN ordered : ordered[n] \in ids
  /\ permanent \subseteq ids
  /\ \A id \in permanent : \E n \in DOMAIN ordered : ordered[n] = id

(* ordered is a topological order.                                         *)
InvOrdered ==
  \A n \in DOMAIN ordered : \A q \in DOMAIN Refs(ordered[n]) :
    \E m \in 1..(n - 1) : ordered[m] = Refs(ordered[n])[q]

(* A visit has finished with the references before its next one, except    *)
(* for the one whose visit it is waiting for.                              *)
Settled(s, q) ==
  \/ Refs(stack[s].id)[q] \in permanent
  \/ /\ s + 1 \in DOMAIN stack
     /\ q = stack[s].k - 1
     /\ stack[s + 1].id = Refs(stack[s].id)[q]

InvStack ==
  \A s \in DOMAIN stack : \A q \in DOMAIN Refs(stack[s].id) :
    q < stack[s].k => Settled(s, q)

(* built has the enabled rules of the part of ordered already built, each  *)
(* after the enabled rules it refers to.                                   *)
InvBuilt ==
  /\ stage \in {"header", "ids", "refs", "order"} => built = <<>>
  /\ stage = "build" => \A n \in DOMAIN ordered :
       n < i /\ RuleEnabled(ordered[n]) => \E m \in DOMAIN built : built[m] = ordered[n]
  /\ \A n \in DOMAIN built : \A q \in DOMAIN Refs(built[n]) :
       RuleEnabled(Refs(built[n])[q]) => \E m \in 1..(n - 1) : built[m] = Refs(built[n])[q]

IInv == TypeOK /\ InvIds /\ InvKnown /\ InvOrdered /\ InvStack /\ InvBuilt
-----------------------------------------------------------------------------
(* byID finds the rule of every id of the file.                            *)
LEMMA RawFound ==
  ASSUME TypeOK, InvIds, NEW id \in ids
  PROVE  \E n \in DOMAIN file.rules : file.rules[n].id = id /\ Raw(id) = file.rules[n]
<1>1. \E n \in DOMAIN file.rules : file.rules[n].id = id
  BY DEF InvIds
<1>2. QED
  BY <1>1 DEF Raw

(* A rule of a checked file refers to ids of the file.                     *)
LEMMA RefsTyped ==
  ASSUME TypeOK, InvIds, NEW id \in ids
  PROVE  /\ Refs(id) \in Seq(Ids)
         /\ stage = "order" => \A q \in DOMAIN Refs(id) : Refs(id)[q] \in ids
<1>1. PICK n \in DOMAIN file.rules : file.rules[n].id = id /\ Raw(id) = file.rules[n]
  BY RawFound
<1>2. file.rules \in Seq(RawRule)
  BY FilesAssumption DEF TypeOK
<1>3. file.rules[n] \in RawRule
  BY <1>2
<1>4. Refs(id) \in Seq(Ids)
  BY <1>1, <1>3 DEF Refs, RawRule
<1>5. ASSUME stage = "order", NEW q \in DOMAIN Refs(id)
      PROVE  Refs(id)[q] \in ids
  BY <1>1, <1>5 DEF Refs, InvIds, RefsKnown, Checked
<1>6. QED
  BY <1>4, <1>5

Frame == [id : Ids, k : Nat \ {0}]
Frames == Seq(Frame)
Advanced(st) == [st EXCEPT ![Len(st)].k = @ + 1]

(* Advancing the innermost visit changes its counter only.                 *)
LEMMA AdvanceTop ==
  ASSUME NEW st \in Frames, st # <<>>
  PROVE  /\ Advanced(st) \in Frames
         /\ Len(Advanced(st)) = Len(st)
         /\ \A s \in DOMAIN st : s < Len(st) => Advanced(st)[s] = st[s]
         /\ Advanced(st)[Len(st)].id = st[Len(st)].id
         /\ Advanced(st)[Len(st)].k = st[Len(st)].k + 1
<1> DEFINE n == Len(st)
           a == [st EXCEPT ![n] = [st[n] EXCEPT !.k = @ + 1]]
<1>1. Advanced(st) = a
  BY DEF Advanced
<1>2. n \in DOMAIN st /\ n \in Nat /\ DOMAIN st = 1..n
  BY DEF Frames
<1>3. st[n] \in Frame
  BY <1>2 DEF Frames
<1>4. [st[n] EXCEPT !.k = @ + 1] \in Frame
  BY <1>3 DEF Frame
<1>5. a \in Frames /\ Len(a) = n
  BY <1>2, <1>4 DEF Frames
<1>6. a[n] = [st[n] EXCEPT !.k = @ + 1] /\ \A s \in DOMAIN st : s < n => a[s] = st[s]
  BY <1>2
<1>7. QED
  BY <1>1, <1>3, <1>5, <1>6 DEF Frame

(* A step leaves the file alone, and with it the meaning of an id.         *)
LEMMA FileFixed ==
  ASSUME Next
  PROVE  /\ file' = file
         /\ \A id : Refs(id)' = Refs(id)
         /\ \A id : RuleEnabled(id)' = RuleEnabled(id)
         /\ \A id : Raw(id)' = Raw(id)
<1>1. file' = file
  BY DEF Next, Header, CheckId, CheckRefs, NextStage, VisitRoot, VisitRef, VisitReturn,
         BuildRule, Loaded, Reject, Visit
<1>2. QED
  BY <1>1 DEF Refs, RuleEnabled, Raw
-----------------------------------------------------------------------------
(* Steps outside the visit keep what is known of it.                       *)
LEMMA VisitUntouched ==
  ASSUME IInv, Next, UNCHANGED <<stack, permanent, ordered>>, ids \subseteq ids'
  PROVE  InvKnown' /\ InvOrdered' /\ InvStack'
<1>1. InvKnown'
  BY DEF IInv, InvKnown
<1>2. InvOrdered'
  BY FileFixed DEF IInv, InvOrdered
<1>3. InvStack'
  BY FileFixed DEF IInv, InvStack, Settled
<1>4. QED
  BY <1>1, <1>2, <1>3

(* Steps that leave built, and the stage build, alone keep InvBuilt.       *)
LEMMA BuiltUntouched ==
  ASSUME IInv, Next, UNCHANGED built,
         stage' \in {"header", "ids", "refs", "order"} => stage \in {"header", "ids", "refs", "order"},
         stage' = "build" => \A n \in DOMAIN ordered' : ~(n < i')
  PROVE  InvBuilt'
  BY FileFixed DEF IInv, InvBuilt

(* A rejection keeps the invariant.                                        *)
LEMMA RejectKeeps ==
  ASSUME IInv, Next, NEW why \in Causes, Reject(why)
  PROVE  IInv'
<1>1. TypeOK'
  BY DEF IInv, TypeOK, Reject
<1>2. InvIds'
  BY DEF IInv, InvIds, Reject, Checked
<1>3. InvKnown' /\ InvOrdered' /\ InvStack'
  BY VisitUntouched DEF Reject
<1>4. InvBuilt'
  BY BuiltUntouched DEF Reject
<1>5. QED
  BY <1>1, <1>2, <1>3, <1>4 DEF IInv

(* The checking stages keep the invariant.                                 *)
LEMMA CheckingKeeps ==
  ASSUME IInv, Next, Header \/ CheckId \/ CheckRefs \/ NextStage
  PROVE  IInv'
<1>1. CASE Header
  <2>1. CASE Reject("header")
    BY <2>1, RejectKeeps DEF Causes
  <2>2. CASE ~Reject("header")
    <3>1. TypeOK'
      BY <1>1, <2>2 DEF Header, IInv, TypeOK
    <3>2. InvIds'
      <4>1. \A n \in DOMAIN file.rules : ~(n < 1)
        <5>1. file.rules \in Seq(RawRule)
          BY FilesAssumption DEF IInv, TypeOK
        <5>2. QED
          BY <5>1
      <4>2. QED
        BY <1>1, <2>2, <4>1 DEF Header, IInv, InvIds, Checked
    <3>3. InvKnown' /\ InvOrdered' /\ InvStack'
      BY <1>1, <2>2, VisitUntouched DEF Header
    <3>4. InvBuilt'
      BY <1>1, <2>2, BuiltUntouched DEF Header
    <3>5. QED
      BY <3>1, <3>2, <3>3, <3>4 DEF IInv
  <2>3. QED
    BY <2>1, <2>2
<1>2. CASE CheckId
  <2> DEFINE raw == file.rules[i]
  <2>1. CASE \E why \in {"blank", "duplicate", "type"} : Reject(why)
    BY <2>1, RejectKeeps DEF Causes
  <2>2. CASE ~\E why \in {"blank", "duplicate", "type"} : Reject(why)
    <3>1. /\ stage = "ids" /\ i <= Len(file.rules) /\ raw.id # Blank
          /\ ids' = ids \cup {raw.id} /\ i' = i + 1
          /\ UNCHANGED <<file, redis, stage, cause, stack, temporary, permanent, ordered, built>>
      BY <1>2, <2>2 DEF CheckId
    <3>2. i \in DOMAIN file.rules /\ i \in Nat /\ raw.id \in Ids
      <4>1. file.rules \in Seq(RawRule) /\ i \in Nat \ {0}
        BY FilesAssumption DEF IInv, TypeOK
      <4>2. raw \in RawRule /\ i \in DOMAIN file.rules
        BY <4>1, <3>1
      <4>3. QED
        BY <4>1, <4>2, <3>1 DEF RawRule
    <3>3. TypeOK'
      BY <3>1, <3>2 DEF IInv, TypeOK
    <3>4. InvIds'
      BY <3>1, <3>2 DEF IInv, InvIds, TypeOK, Checked
    <3>5. InvKnown' /\ InvOrdered' /\ InvStack'
      BY <3>1, VisitUntouched
    <3>6. InvBuilt'
      BY <3>1, BuiltUntouched
    <3>7. QED
      BY <3>3, <3>4, <3>5, <3>6 DEF IInv
  <2>3. QED
    BY <2>1, <2>2
<1>3. CASE CheckRefs
  <2>1. CASE Reject("reference")
    BY <2>1, RejectKeeps DEF Causes
  <2>2. CASE ~Reject("reference")
    <3>1. /\ stage = "refs" /\ i <= Len(file.rules) /\ i' = i + 1 /\ RefsKnown(i)
          /\ UNCHANGED <<file, redis, stage, cause, ids, stack, temporary, permanent, ordered, built>>
      BY <1>3, <2>2 DEF CheckRefs, RefsKnown
    <3>2. TypeOK'
      BY <3>1 DEF IInv, TypeOK
    <3>3. InvIds'
      <4>1. \A n : RefsKnown(n)' = RefsKnown(n)
        BY <3>1 DEF RefsKnown
      <4>2. \A n \in DOMAIN file.rules : n < i' => RefsKnown(n)
        <5>1. file.rules \in Seq(RawRule) /\ i \in Nat
          BY FilesAssumption DEF IInv, TypeOK
        <5>2. \A n \in DOMAIN file.rules : n < i => RefsKnown(n)
          BY <3>1 DEF IInv, InvIds
        <5>3. QED
          BY <5>1, <5>2, <3>1
      <4>3. QED
        BY <3>1, <4>1, <4>2 DEF IInv, InvIds, Checked
    <3>4. InvKnown' /\ InvOrdered' /\ InvStack'
      BY <3>1, VisitUntouched
    <3>5. InvBuilt'
      BY <3>1, BuiltUntouched
    <3>6. QED
      BY <3>2, <3>3, <3>4, <3>5 DEF IInv
  <2>3. QED
    BY <2>1, <2>2
<1>4. CASE NextStage
  <2>1. /\ i > Len(file.rules) /\ i' = 1
        /\ UNCHANGED <<file, redis, cause, ids, stack, temporary, permanent, ordered, built>>
        /\ \/ stage = "ids" /\ stage' = "refs"
           \/ stage = "refs" /\ stage' = "order"
           \/ stage = "order" /\ stage' = "build"
    BY <1>4 DEF NextStage
  <2>2. TypeOK'
    BY <2>1 DEF IInv, TypeOK
  <2>3. \A n \in DOMAIN file.rules : n < i /\ ~(n < i')
    <3>1. file.rules \in Seq(RawRule) /\ i \in Nat
      BY FilesAssumption DEF IInv, TypeOK
    <3>2. QED
      BY <3>1, <2>1
  <2>4. InvIds'
    <3>1. \A n : RefsKnown(n)' = RefsKnown(n)
      BY <2>1 DEF RefsKnown
    <3>2. QED
      BY <2>1, <2>3, <3>1 DEF IInv, InvIds, Checked
  <2>5. InvKnown' /\ InvOrdered' /\ InvStack'
    BY <2>1, VisitUntouched
  <2>6. InvBuilt'
    <3>1. \A n \in DOMAIN ordered' : ~(n < i')
      BY <2>1 DEF IInv, TypeOK
    <3>2. QED
      BY <2>1, <3>1, BuiltUntouched
  <2>7. QED
    BY <2>2, <2>4, <2>5, <2>6 DEF IInv
<1>5. QED
  BY <1>1, <1>2, <1>3, <1>4
-----------------------------------------------------------------------------
(* calls is the stack with its innermost visit about to call visit(id).    *)
Calling(calls, id) ==
  /\ \A s \in DOMAIN calls : calls[s].id \in ids
  /\ \A s \in DOMAIN calls : \A q \in DOMAIN Refs(calls[s].id) : q < calls[s].k =>
       \/ Refs(calls[s].id)[q] \in permanent
       \/ /\ q = calls[s].k - 1
          /\ \/ s + 1 \in DOMAIN calls /\ calls[s + 1].id = Refs(calls[s].id)[q]
             \/ s = Len(calls) /\ id = Refs(calls[s].id)[q]

(* visit(id) keeps the invariant, whichever way it goes.                   *)
LEMMA VisitKeeps ==
  ASSUME IInv, Next, stage = "order",
         NEW id \in ids, NEW calls \in Frames, Calling(calls, id), Visit(id, calls),
         UNCHANGED <<file, redis, ids, permanent, ordered, built>>, i' \in Nat \ {0}
  PROVE  IInv'
<1>1. \/ id \in permanent /\ stack' = calls /\ UNCHANGED <<temporary, stage, cause>>
      \/ stage' = "rejected" /\ cause' = "cycle" /\ UNCHANGED <<stack, temporary>>
      \/ /\ stack' = Append(calls, [id |-> id, k |-> 1])
         /\ temporary' = temporary \cup {id}
         /\ UNCHANGED <<stage, cause>>
  BY DEF Visit, Skips
<1>2. stage' = "order" \/ stage' = "rejected"
  BY <1>1
<1>3. id \in Ids /\ [id |-> id, k |-> 1] \in Frame
  BY DEF IInv, TypeOK, Frame
<1>4. stack' \in Frames
  <2>1. stack \in Frames
    BY DEF IInv, TypeOK, Frames, Frame
  <2>2. Append(calls, [id |-> id, k |-> 1]) \in Frames
    BY <1>3 DEF Frames
  <2>3. QED
    BY <1>1, <2>1, <2>2
<1>5. TypeOK'
  <2>1. temporary' \subseteq Ids /\ cause' \in Causes
    BY <1>1, <1>3 DEF IInv, TypeOK, Causes
  <2>2. QED
    BY <2>1, <1>2, <1>4 DEF IInv, TypeOK, Frames, Frame
<1>6. InvIds'
  <2>1. \A n : RefsKnown(n)' = RefsKnown(n)
    BY DEF RefsKnown
  <2>2. QED
    BY <1>2, <2>1 DEF IInv, InvIds, Checked
<1>7. InvOrdered'
  BY FileFixed DEF IInv, InvOrdered
<1>8. InvBuilt'
  BY <1>2, BuiltUntouched
<1>9. InvKnown' /\ InvStack'
  <2>1. CASE UNCHANGED stack
    BY <2>1, VisitUntouched
  <2>2. CASE id \in permanent /\ stack' = calls
    <3>1. InvKnown'
      BY <2>2 DEF IInv, InvKnown, Calling
    <3>2. InvStack'
      BY <2>2, FileFixed DEF Calling, InvStack, Settled
    <3>3. QED
      BY <3>1, <3>2
  <2>3. CASE stack' = Append(calls, [id |-> id, k |-> 1])
    <3> DEFINE st == Append(calls, [id |-> id, k |-> 1])
    <3>1. /\ DOMAIN calls = 1..Len(calls) /\ Len(calls) \in Nat
          /\ DOMAIN st = 1..(Len(calls) + 1)
          /\ \A s \in DOMAIN calls : st[s] = calls[s]
          /\ st[Len(calls) + 1] = [id |-> id, k |-> 1]
      BY DEF Frames
    <3>2. InvKnown'
      BY <2>3, <3>1 DEF IInv, InvKnown, Calling
    <3>3. ASSUME NEW s \in DOMAIN st, NEW q \in DOMAIN Refs(st[s].id), q < st[s].k
          PROVE  \/ Refs(st[s].id)[q] \in permanent
                 \/ /\ s + 1 \in DOMAIN st
                    /\ q = st[s].k - 1
                    /\ st[s + 1].id = Refs(st[s].id)[q]
      <4>1. CASE s \in DOMAIN calls
        <5>1. st[s] = calls[s] /\ s \in Nat /\ s <= Len(calls)
          BY <4>1, <3>1
        <5>2. \/ Refs(calls[s].id)[q] \in permanent
              \/ /\ q = calls[s].k - 1
                 /\ \/ s + 1 \in DOMAIN calls /\ calls[s + 1].id = Refs(calls[s].id)[q]
                    \/ s = Len(calls) /\ id = Refs(calls[s].id)[q]
          BY <4>1, <5>1, <3>3 DEF Calling
        <5>3. QED
          BY <5>1, <5>2, <3>1
      <4>2. CASE s = Len(calls) + 1
        <5>1. Refs(id) \in Seq(Ids)
          BY RefsTyped DEF IInv
        <5>2. st[s].id = id /\ st[s].k = 1
          BY <4>2, <3>1
        <5>3. q \in 1..Len(Refs(id)) /\ q < 1
          BY <5>1, <5>2, <3>3
        <5>4. QED
          BY <5>3, <5>1
      <4>3. QED
        BY <4>1, <4>2, <3>1
    <3>4. InvStack'
      BY <2>3, <3>3, FileFixed DEF InvStack, Settled
    <3>5. QED
      BY <3>2, <3>4
  <2>4. QED
    BY <1>1, <2>1, <2>2, <2>3
<1>10. QED
  BY <1>5, <1>6, <1>7, <1>8, <1>9 DEF IInv

(* The root calls of visit keep the invariant.                             *)
LEMMA VisitRootKeeps ==
  ASSUME IInv, Next, VisitRoot
  PROVE  IInv'
<1>1. file.rules \in Seq(RawRule) /\ i \in Nat \ {0} /\ stack \in Frames
  BY FilesAssumption DEF IInv, TypeOK, Frames, Frame
<1>2. i \in DOMAIN file.rules
  BY <1>1 DEF VisitRoot
<1>3. file.rules[i].id \in ids
  BY <1>2 DEF VisitRoot, IInv, InvIds, Checked
<1>4. Calling(stack, file.rules[i].id)
  <2>1. DOMAIN stack = {}
    BY DEF VisitRoot
  <2>2. QED
    BY <2>1 DEF Calling
<1>5. i' \in Nat \ {0}
  BY <1>1 DEF VisitRoot
<1>6. QED
  BY <1>1, <1>3, <1>4, <1>5, VisitKeeps DEF VisitRoot

(* The recursive calls of visit keep the invariant.                        *)
LEMMA VisitRefKeeps ==
  ASSUME IInv, Next, VisitRef
  PROVE  IInv'
<1> DEFINE calls == Advanced(stack)
           top == Len(stack)
           ref == Refs(Top.id)[Top.k]
<1>1. stack \in Frames /\ stack # <<>> /\ top \in DOMAIN stack /\ DOMAIN stack = 1..top
  BY DEF IInv, TypeOK, Frames, Frame, VisitRef
<1>2. /\ calls \in Frames /\ Len(calls) = top /\ DOMAIN calls = 1..top
      /\ \A s \in DOMAIN stack : s < top => calls[s] = stack[s]
      /\ calls[top].id = stack[top].id
      /\ calls[top].k = stack[top].k + 1
  BY <1>1, AdvanceTop DEF Frames
<1>3. Top = stack[top] /\ Top \in Frame /\ Top.id \in ids
  BY <1>1 DEF IInv, InvKnown, Top, Frames
<1>4. Refs(Top.id) \in Seq(Ids) /\ \A q \in DOMAIN Refs(Top.id) : Refs(Top.id)[q] \in ids
  BY <1>3, RefsTyped DEF IInv, VisitRef
<1>5. Top.k \in Nat /\ Top.k \in DOMAIN Refs(Top.id) /\ ref \in ids
  BY <1>3, <1>4 DEF VisitRef, Frame
<1>6. Calling(calls, ref)
  <2>1. \A s \in DOMAIN calls : calls[s].id = stack[s].id /\ calls[s].id \in ids
    BY <1>1, <1>2 DEF IInv, InvKnown
  <2>2. ASSUME NEW s \in DOMAIN calls, NEW q \in DOMAIN Refs(calls[s].id), q < calls[s].k
        PROVE  \/ Refs(calls[s].id)[q] \in permanent
               \/ /\ q = calls[s].k - 1
                  /\ \/ s + 1 \in DOMAIN calls /\ calls[s + 1].id = Refs(calls[s].id)[q]
                     \/ s = Len(calls) /\ ref = Refs(calls[s].id)[q]
    <3>1. s \in DOMAIN stack /\ s \in 1..top /\ q \in DOMAIN Refs(stack[s].id)
      BY <1>1, <1>2, <2>1, <2>2
    <3>2. CASE s < top
      <4>1. calls[s] = stack[s] /\ s + 1 \in DOMAIN calls /\ calls[s + 1].id = stack[s + 1].id
        BY <3>1, <3>2, <1>1, <1>2
      <4>2. Settled(s, q)
        BY <3>1, <4>1, <2>2 DEF IInv, InvStack
      <4>3. QED
        BY <4>1, <4>2 DEF Settled
    <3>3. CASE s = top
      <4>1. /\ stack[s] = Top /\ calls[s].id = Top.id /\ calls[s].k = Top.k + 1
            /\ s = Len(calls) /\ ~(s + 1 \in DOMAIN stack)
        BY <3>3, <1>1, <1>2, <1>3
      <4>2. q \in Nat
        BY <3>1, <4>1, <1>4
      <4>3. CASE q = Top.k
        BY <4>1, <4>3, <1>5
      <4>4. CASE q < Top.k
        <5>1. Settled(s, q)
          BY <3>1, <4>1, <4>4 DEF IInv, InvStack
        <5>2. QED
          BY <4>1, <5>1 DEF Settled
      <4>5. QED
        BY <4>1, <4>2, <4>3, <4>4, <2>2, <1>5
    <3>4. QED
      BY <3>1, <3>2, <3>3
  <2>3. QED
    BY <2>1, <2>2 DEF Calling
<1>7. Visit(ref, calls) /\ stage = "order" /\ i' \in Nat \ {0}
      /\ UNCHANGED <<file, redis, ids, permanent, ordered, built>>
  BY DEF VisitRef, Advanced, IInv, TypeOK
<1>8. QED
  BY <1>2, <1>5, <1>6, <1>7, VisitKeeps

(* A visit that returns keeps the invariant: all its references are in     *)
(* ordered by then.                                                        *)
LEMMA VisitReturnKeeps ==
  ASSUME IInv, Next, VisitReturn
  PROVE  IInv'
<1> DEFINE top == Len(stack)
           st == SubSeq(stack, 1, top - 1)
<1>1. stack \in Frames /\ stack # <<>> /\ top \in DOMAIN stack /\ DOMAIN stack = 1..top
      /\ top \in Nat
  BY DEF IInv, TypeOK, Frames, Frame, VisitReturn
<1>2. Top = stack[top] /\ Top \in Frame /\ Top.id \in ids /\ Top.id \in Ids
  <2>1. Top = stack[top]
    BY DEF Top
  <2>2. stack[top] \in Frame
    BY <1>1 DEF Frames
  <2>3. stack[top].id \in ids
    BY <1>1 DEF IInv, InvKnown
  <2>4. ids \subseteq Ids
    BY DEF IInv, TypeOK
  <2>5. QED
    BY <2>1, <2>2, <2>3, <2>4
<1>3. /\ stage = "order" /\ stack' = st /\ ordered' = Append(ordered, Top.id)
      /\ permanent' = permanent \cup {Top.id} /\ temporary' = temporary \ {Top.id}
      /\ UNCHANGED <<file, redis, stage, cause, i, ids, built>>
  BY DEF VisitReturn, Placed
<1>4. st \in Frames /\ DOMAIN st = 1..(top - 1) /\ \A s \in DOMAIN st : st[s] = stack[s]
  <2>1. top - 1 \in Nat /\ stack \in Seq(Frame)
    BY <1>1 DEF Frames
  <2>2. Len(st) = top - 1 /\ DOMAIN st = 1..(top - 1)
    BY <1>1, <2>1
  <2>3. \A s \in 1..(top - 1) : st[s] = stack[s] /\ stack[s] \in Frame
    BY <1>1, <2>1
  <2>4. st \in Seq(Frame)
    BY <1>1, <2>1
  <2>5. QED
    BY <2>2, <2>3, <2>4 DEF Frames
<1>5. /\ ordered \in Seq(Ids) /\ ordered' \in Seq(Ids) /\ Len(ordered) \in Nat
      /\ DOMAIN ordered = 1..Len(ordered) /\ DOMAIN ordered' = 1..(Len(ordered) + 1)
      /\ \A n \in DOMAIN ordered : ordered'[n] = ordered[n]
      /\ ordered'[Len(ordered) + 1] = Top.id
  BY <1>2, <1>3 DEF IInv, TypeOK
<1>6. TypeOK'
  BY <1>2, <1>3, <1>4, <1>5 DEF IInv, TypeOK, Frames, Frame
<1>7. InvIds'
  <2>1. \A n : RefsKnown(n)' = RefsKnown(n)
    BY <1>3 DEF RefsKnown
  <2>2. QED
    BY <1>3, <2>1 DEF IInv, InvIds, Checked
<1>8. InvKnown'
  <2>1. \A s \in DOMAIN st : st[s].id \in ids
    BY <1>1, <1>4 DEF IInv, InvKnown
  <2>2. \A n \in DOMAIN ordered' : ordered'[n] \in ids
    BY <1>2, <1>5 DEF IInv, InvKnown
  <2>3. ASSUME NEW id \in permanent'
        PROVE  \E n \in DOMAIN ordered' : ordered'[n] = id
    <3>1. CASE id \in permanent
      <4>1. PICK n \in DOMAIN ordered : ordered[n] = id
        BY <3>1 DEF IInv, InvKnown
      <4>2. n \in DOMAIN ordered' /\ ordered'[n] = id
        BY <4>1, <1>5
      <4>3. QED
        BY <4>2
    <3>2. CASE id = Top.id
      BY <3>2, <1>5
    <3>3. QED
      BY <3>1, <3>2, <1>3, <2>3
  <2>4. QED
    BY <1>2, <1>3, <2>1, <2>2, <2>3 DEF IInv, InvKnown
<1>9. \A q \in DOMAIN Refs(Top.id) : Refs(Top.id)[q] \in permanent
  <2>1. Refs(Top.id) \in Seq(Ids) /\ Top.k \in Nat
    BY <1>2, RefsTyped DEF IInv, Frame
  <2>2. ASSUME NEW q \in DOMAIN Refs(Top.id)
        PROVE  Refs(Top.id)[q] \in permanent
    <3>1. q < Top.k
      BY <2>1, <2>2 DEF VisitReturn
    <3>2. Settled(top, q)
      BY <3>1, <1>1, <1>2 DEF IInv, InvStack
    <3>3. ~(top + 1 \in DOMAIN stack)
      BY <1>1
    <3>4. QED
      BY <3>2, <3>3, <1>2 DEF Settled
  <2>3. QED
    BY <2>2
<1>10. InvOrdered'
  <2>1. ASSUME NEW n \in DOMAIN ordered', NEW q \in DOMAIN Refs(ordered'[n])
        PROVE  \E m \in 1..(n - 1) : ordered'[m] = Refs(ordered'[n])[q]
    <3>1. CASE n \in DOMAIN ordered
      <4>1. ordered'[n] = ordered[n] /\ n \in Nat /\ n <= Len(ordered)
        BY <3>1, <1>5
      <4>2. PICK m \in 1..(n - 1) : ordered[m] = Refs(ordered[n])[q]
        BY <3>1, <4>1, <2>1 DEF IInv, InvOrdered
      <4>3. m \in DOMAIN ordered
        BY <4>1, <4>2, <1>5
      <4>4. QED
        BY <4>1, <4>2, <4>3, <1>5
    <3>2. CASE n = Len(ordered) + 1
      <4>1. ordered'[n] = Top.id /\ n - 1 = Len(ordered)
        BY <3>2, <1>5
      <4>2. Refs(Top.id)[q] \in permanent
        BY <4>1, <1>9, <2>1
      <4>3. PICK m \in DOMAIN ordered : ordered[m] = Refs(Top.id)[q]
        BY <4>2 DEF IInv, InvKnown
      <4>4. QED
        BY <4>1, <4>3, <1>5
    <3>3. QED
      BY <3>1, <3>2, <1>5
  <2>2. QED
    BY <2>1, FileFixed DEF InvOrdered
<1>11. InvStack'
  <2>1. ASSUME NEW s \in DOMAIN st, NEW q \in DOMAIN Refs(st[s].id), q < st[s].k
        PROVE  \/ Refs(st[s].id)[q] \in permanent \cup {Top.id}
               \/ /\ s + 1 \in DOMAIN st
                  /\ q = st[s].k - 1
                  /\ st[s + 1].id = Refs(st[s].id)[q]
    <3>1. st[s] = stack[s] /\ s \in DOMAIN stack /\ s \in Nat /\ s <= top - 1
      BY <1>1, <1>4
    <3>2. Settled(s, q)
      BY <3>1, <2>1 DEF IInv, InvStack
    <3>3. CASE s + 1 = top
      BY <3>1, <3>2, <3>3, <1>2 DEF Settled
    <3>4. CASE s + 1 # top
      <4>1. s + 1 \in DOMAIN st /\ st[s + 1] = stack[s + 1]
        BY <3>1, <3>4, <1>1, <1>4
      <4>2. QED
        BY <3>1, <3>2, <4>1 DEF Settled
    <3>5. QED
      BY <3>3, <3>4
  <2>2. QED
    BY <1>3, <2>1, FileFixed DEF InvStack, Settled
<1>12. InvBuilt'
  BY <1>3, BuiltUntouched
<1>13. QED
  BY <1>6, <1>7, <1>8, <1>10, <1>11, <1>12 DEF IInv

(* Building a rule keeps the invariant: the rules it refers to come before *)
(* it in ordered, and the enabled ones of them are built already.          *)
LEMMA BuildKeeps ==
  ASSUME IInv, Next, BuildRule \/ Loaded
  PROVE  IInv'
<1>1. CASE Loaded
  <2>1. /\ stage' = "loaded" /\ stage = "build"
        /\ UNCHANGED <<file, redis, cause, i, ids, stack, temporary, permanent, ordered, built>>
    BY <1>1 DEF Loaded
  <2>2. TypeOK'
    BY <2>1 DEF IInv, TypeOK
  <2>3. InvIds'
    <3>1. \A n : RefsKnown(n)' = RefsKnown(n)
      BY <2>1 DEF RefsKnown
    <3>2. QED
      BY <2>1, <3>1 DEF IInv, InvIds, Checked
  <2>4. InvKnown' /\ InvOrdered' /\ InvStack'
    BY <2>1, VisitUntouched
  <2>5. InvBuilt'
    BY <2>1, BuiltUntouched
  <2>6. QED
    BY <2>2, <2>3, <2>4, <2>5 DEF IInv
<1>2. CASE BuildRule /\ Reject("build")
  BY <1>2, RejectKeeps DEF Causes
<1>3. CASE BuildRule /\ ~Reject("build")
  <2> DEFINE id == ordered[i]
  <2>1. /\ stage = "build" /\ i <= Len(ordered) /\ i' = i + 1
        /\ built' = IF RuleEnabled(id) THEN Append(built, id) ELSE built
        /\ UNCHANGED <<file, redis, stage, cause, ids, stack, temporary, permanent, ordered>>
    BY <1>3 DEF BuildRule
  <2>2. /\ ordered \in Seq(Ids) /\ built \in Seq(Ids) /\ i \in Nat \ {0}
        /\ i \in DOMAIN ordered /\ id \in Ids /\ DOMAIN ordered = 1..Len(ordered)
    BY <2>1 DEF IInv, TypeOK
  <2>3. built' \in Seq(Ids)
    BY <2>1, <2>2
  <2>4. TypeOK'
    BY <2>1, <2>2, <2>3 DEF IInv, TypeOK
  <2>5. InvIds'
    <3>1. \A n : RefsKnown(n)' = RefsKnown(n)
      BY <2>1 DEF RefsKnown
    <3>2. QED
      BY <2>1, <3>1 DEF IInv, InvIds, Checked
  <2>6. InvKnown' /\ InvOrdered' /\ InvStack'
    BY <2>1, VisitUntouched
  <2>7. InvBuilt'
    <3>1. CASE ~RuleEnabled(id)
      <4>1. \A n \in DOMAIN ordered : n < i' /\ n # i => n < i
        BY <2>1, <2>2
      <4>2. QED
        BY <2>1, <3>1, <4>1, FileFixed DEF IInv, InvBuilt
    <3>2. CASE RuleEnabled(id)
      <4>1. /\ Len(built) \in Nat /\ DOMAIN built = 1..Len(built)
            /\ DOMAIN built' = 1..(Len(built) + 1)
            /\ \A n \in DOMAIN built : built'[n] = built[n]
            /\ built'[Len(built) + 1] = id
        BY <2>1, <2>2, <3>2
      <4>2. ASSUME NEW n \in DOMAIN ordered, n < i', RuleEnabled(ordered[n])
            PROVE  \E m \in DOMAIN built' : built'[m] = ordered[n]
        <5>1. CASE n = i
          BY <5>1, <4>1
        <5>2. CASE n < i
          <6>1. PICK m \in DOMAIN built : built[m] = ordered[n]
            BY <5>2, <4>2, <2>1 DEF IInv, InvBuilt
          <6>2. QED
            BY <6>1, <4>1
        <5>3. QED
          BY <5>1, <5>2, <4>2, <2>1, <2>2
      <4>3. ASSUME NEW n \in DOMAIN built', NEW q \in DOMAIN Refs(built'[n]),
                   RuleEnabled(Refs(built'[n])[q])
            PROVE  \E m \in 1..(n - 1) : built'[m] = Refs(built'[n])[q]
        <5>1. CASE n \in DOMAIN built
          <6>1. built'[n] = built[n] /\ n \in Nat /\ n <= Len(built)
            BY <5>1, <4>1
          <6>2. PICK m \in 1..(n - 1) : built[m] = Refs(built[n])[q]
            BY <5>1, <6>1, <4>3 DEF IInv, InvBuilt
          <6>3. m \in DOMAIN built
            BY <6>1, <6>2, <4>1
          <6>4. QED
            BY <6>1, <6>2, <6>3, <4>1
        <5>2. CASE n = Len(built) + 1
          <6>1. built'[n] = id /\ n - 1 = Len(built)
            BY <5>2, <4>1
          <6>2. PICK p \in 1..(i - 1) : ordered[p] = Refs(id)[q]
            BY <6>1, <4>3, <2>2 DEF IInv, InvOrdered
          <6>3. p \in DOMAIN ordered /\ p < i
            BY <6>2, <2>2
          <6>4. PICK m \in DOMAIN built : built[m] = ordered[p]
            BY <6>1, <6>2, <6>3, <4>3, <2>1 DEF IInv, InvBuilt
          <6>5. QED
            BY <6>1, <6>2, <6>4, <4>1
        <5>3. QED
          BY <5>1, <5>2, <4>1
      <4>4. stage' = "build" /\ ordered' = ordered
        BY <2>1
      <4>5. (\A id0 : Refs(id0)' = Refs(id0)) /\ (\A id0 : RuleEnabled(id0)' = RuleEnabled(id0))
        BY FileFixed
      <4>6. (\A n \in DOMAIN ordered : n < i /\ RuleEnabled(ordered[n]) =>
              \E m \in DOMAIN built : built[m] = ordered[n])'
        BY <4>2, <4>4, <4>5
      <4>7. (\A n \in DOMAIN built : \A q \in DOMAIN Refs(built[n]) :
              RuleEnabled(Refs(built[n])[q]) =>
                \E m \in 1..(n - 1) : built[m] = Refs(built[n])[q])'
        BY <4>3, <4>5
      <4>8. QED
        BY <4>4, <4>6, <4>7 DEF InvBuilt
    <3>3. QED
      BY <3>1, <3>2
  <2>8. QED
    BY <2>4, <2>5, <2>6, <2>7 DEF IInv
<1>4. QED
  BY <1>1, <1>2, <1>3
-----------------------------------------------------------------------------
(* LoadBytes starts in the invariant.                                      *)
LEMMA InitInv == Init => IInv
<1> SUFFICES ASSUME Init
             PROVE  IInv
  OBVIOUS
<1>1. /\ stack = <<>> /\ ordered = <<>> /\ built = <<>> /\ permanent = {} /\ ids = {}
      /\ stage = "header" /\ i = 1
  BY DEF Init
<1>2. TypeOK
  BY <1>1 DEF Init, TypeOK, Causes
<1>3. InvIds /\ InvKnown
  BY <1>1 DEF InvIds, InvKnown, Checked
<1>4. InvOrdered /\ InvStack /\ InvBuilt
  BY <1>1 DEF InvOrdered, InvStack, InvBuilt
<1>5. QED
  BY <1>2, <1>3, <1>4 DEF IInv

(* Each step of LoadBytes keeps the invariant.                             *)
LEMMA StepInv == IInv /\ [Next]_vars => IInv'
<1> SUFFICES ASSUME IInv, [Next]_vars
             PROVE  IInv'
  OBVIOUS
<1>1. CASE Next
  BY <1>1, CheckingKeeps, VisitRootKeeps, VisitRefKeeps, VisitReturnKeeps, BuildKeeps DEF Next
<1>2. CASE UNCHANGED vars
  <2>1. UNCHANGED <<file, redis, stage, cause, i, ids, stack, temporary, permanent, ordered, built>>
    BY <1>2 DEF vars
  <2>2. TypeOK' /\ InvKnown'
    BY <2>1 DEF IInv, TypeOK, InvKnown
  <2>3. InvIds'
    BY <2>1 DEF IInv, InvIds, RefsKnown
  <2>4. (\A id : Refs(id)' = Refs(id)) /\ (\A id : RuleEnabled(id)' = RuleEnabled(id))
    BY <2>1 DEF Refs, RuleEnabled, Raw
  <2>5. InvOrdered' /\ InvStack'
    BY <2>1, <2>4 DEF IInv, InvOrdered, InvStack, Settled
  <2>6. InvBuilt'
    BY <2>1, <2>4 DEF IInv, InvBuilt
  <2>7. QED
    BY <2>2, <2>3, <2>5, <2>6 DEF IInv
<1>3. QED
  BY <1>1, <1>2

(* Every state of LoadBytes satisfies the invariant.                       *)
THEOREM LoaderInvariant == Spec => []IInv
  BY InitInv, StepInv, PTL DEF Spec

(* Type correctness of the loader, for every set of rule files.            *)
THEOREM LoaderTypeOK == Spec => []TypeOK
<1>1. IInv => TypeOK
  BY DEF IInv
<1>2. QED
  BY <1>1, LoaderInvariant, PTL

(* For every rule file: in a snapshot that LoadBytes returns, each rule a  *)
(* combiner refers to comes before the combiner, unless it is disabled.    *)
THEOREM LoaderDependenciesFirst == Spec => []DependenciesFirst
<1>1. IInv => DependenciesFirst
  BY DEF IInv, InvBuilt, DependenciesFirst
<1>2. QED
  BY <1>1, LoaderInvariant, PTL
-----------------------------------------------------------------------------
(* A second invariant: what the visit has done with each id.               *)

(* The first loop lets an id pass once.                                    *)
InvUnique ==
  /\ stage = "ids" => \A n, m \in DOMAIN file.rules :
       n < i /\ m < i /\ file.rules[n].id = file.rules[m].id => n = m
  /\ stage \in Checked => \A n, m \in DOMAIN file.rules :
       file.rules[n].id = file.rules[m].id => n = m

(* The calls of visit under way are about different ids, none of which was *)
(* finished with, and each was made for a reference of the one before it.  *)
InvCalls ==
  /\ \A id \in Ids : id \in temporary <=> \E s \in DOMAIN stack : stack[s].id = id
  /\ \A s, t \in DOMAIN stack : stack[s].id = stack[t].id => s = t
  /\ \A s \in DOMAIN stack : stack[s].id \notin permanent
  /\ \A s \in DOMAIN stack : s + 1 \in DOMAIN stack =>
       \E q \in DOMAIN Refs(stack[s].id) : Refs(stack[s].id)[q] = stack[s + 1].id

(* ordered has the finished ids, once each, and none is left out.          *)
InvVisited ==
  /\ \A n \in DOMAIN ordered : ordered[n] \in permanent
  /\ \A n, m \in DOMAIN ordered : ordered[n] = ordered[m] => n = m
  /\ stage = "order" => \A n \in DOMAIN file.rules :
       n < i => file.rules[n].id \in permanent \cup temporary
  /\ stage \in {"build", "loaded"} => \A n \in DOMAIN file.rules :
       file.rules[n].id \in permanent

(* built has enabled rules of the part of ordered gone through, once each. *)
InvOnce ==
  /\ \A n, m \in DOMAIN built : built[n] = built[m] => n = m
  /\ \A n \in DOMAIN built : /\ RuleEnabled(built[n])
                             /\ \E p \in DOMAIN ordered : p < i /\ ordered[p] = built[n]
  /\ stage = "loaded" => \A n \in DOMAIN ordered :
       RuleEnabled(ordered[n]) => \E m \in DOMAIN built : built[m] = ordered[n]

(* What was finished with refers to what was finished with before, so that *)
(* it has no ring; and a rejected file has one.                            *)
InvRings ==
  /\ \A id \in permanent : \A q \in DOMAIN Refs(id) : Refs(id)[q] \in permanent
  /\ \A S \in SUBSET permanent : ~Ring(S)
  /\ cause = "cycle" => \E S \in SUBSET ids : Ring(S)

JInv == InvUnique /\ InvCalls /\ InvVisited /\ InvOnce /\ InvRings
-----------------------------------------------------------------------------
(* Rings are a matter of the file.                                         *)
LEMMA RingFixed ==
  ASSUME Next
  PROVE  \A S : Ring(S)' <=> Ring(S)
<1>1. \A id : Refs(id)' = Refs(id)
  BY FileFixed
<1>2. QED
  BY <1>1 DEF Ring

(* Steps outside the visit keep what it has done.                          *)
LEMMA VisitedUntouched ==
  ASSUME IInv, JInv, Next, UNCHANGED <<stack, temporary, permanent, ordered>>,
         cause' = "cycle" => cause = "cycle", ids \subseteq ids',
         stage' # "order" \/ i' = 1,
         stage' \in {"build", "loaded"} =>
           \/ stage \in {"build", "loaded"}
           \/ stage = "order" /\ i > Len(file.rules) /\ stack = <<>>
  PROVE  InvCalls' /\ InvVisited' /\ InvRings'
<1>1. file' = file /\ \A id : Refs(id)' = Refs(id)
  BY FileFixed
<1>2. InvCalls'
  BY <1>1 DEF JInv, InvCalls
<1>3. InvRings'
  BY <1>1, RingFixed DEF JInv, InvRings
<1>4. DOMAIN file.rules = 1..Len(file.rules) /\ Len(file.rules) \in Nat /\ i \in Nat
  <2>1. file.rules \in Seq(RawRule) /\ i \in Nat
    BY FilesAssumption DEF IInv, TypeOK
  <2>2. QED
    BY <2>1
<1>5. InvVisited'
  <2>1. stage' = "order" => \A n \in DOMAIN file.rules : ~(n < i')
    BY <1>4
  <2>2. ASSUME stage = "order", i > Len(file.rules), stack = <<>>,
               NEW n \in DOMAIN file.rules
        PROVE  file.rules[n].id \in permanent
    <3>1. n < i
      BY <1>4, <2>2
    <3>2. temporary = {}
      BY <2>2 DEF IInv, TypeOK, JInv, InvCalls
    <3>3. QED
      BY <2>2, <3>1, <3>2 DEF JInv, InvVisited
  <2>3. stage' \in {"build", "loaded"} =>
          \A n \in DOMAIN file.rules : file.rules[n].id \in permanent
    BY <2>2 DEF JInv, InvVisited
  <2>4. QED
    BY <1>1, <2>1, <2>3 DEF JInv, InvVisited
<1>6. QED
  BY <1>2, <1>3, <1>5

(* Nothing is built before the stage build, and nothing then is lost.      *)
LEMMA OnceUntouched ==
  ASSUME IInv, JInv, Next, UNCHANGED built, stage' # "loaded",
         \/ stage \in {"header", "ids", "refs", "order"}
         \/ UNCHANGED <<i, ordered>>
  PROVE  InvOnce'
<1>1. \A id : RuleEnabled(id)' = RuleEnabled(id)
  BY FileFixed
<1>2. CASE stage \in {"header", "ids", "refs", "order"}
  <2>1. DOMAIN built' = {}
    BY <1>2 DEF IInv, InvBuilt
  <2>2. QED
    BY <2>1 DEF InvOnce
<1>3. CASE UNCHANGED <<i, ordered>>
  BY <1>1, <1>3 DEF JInv, InvOnce
<1>4. QED
  BY <1>2, <1>3

(* A rejection for another reason than a cycle.                            *)
LEMMA RejectKeepsJ ==
  ASSUME IInv, JInv, Next, NEW why \in Causes \ {"cycle"}, Reject(why)
  PROVE  JInv'
<1>1. InvUnique'
  BY DEF Reject, JInv, InvUnique, Checked
<1>2. InvCalls' /\ InvVisited' /\ InvRings'
  BY VisitedUntouched DEF Reject
<1>3. InvOnce'
  BY OnceUntouched DEF Reject
<1>4. QED
  BY <1>1, <1>2, <1>3 DEF JInv

(* The checking loops let each id pass once.                               *)
LEMMA CheckingKeepsJ ==
  ASSUME IInv, JInv, Next, Header \/ CheckId \/ CheckRefs \/ NextStage
  PROVE  JInv'
<1>0. /\ file.rules \in Seq(RawRule) /\ i \in Nat \ {0}
      /\ DOMAIN file.rules = 1..Len(file.rules) /\ Len(file.rules) \in Nat
  <2>1. file.rules \in Seq(RawRule) /\ i \in Nat \ {0}
    BY FilesAssumption DEF IInv, TypeOK
  <2>2. QED
    BY <2>1
<1>1. CASE \E why \in Causes \ {"cycle"} : Reject(why)
  BY <1>1, RejectKeepsJ
<1>2. CASE Header /\ ~Reject("header")
  <2>1. /\ stage' = "ids" /\ stage = "header" /\ i = 1
        /\ UNCHANGED <<file, redis, cause, i, ids, stack, temporary, permanent, ordered, built>>
    BY <1>2 DEF Header, IInv, InvIds
  <2>2. InvUnique'
    BY <2>1, <1>0 DEF InvUnique, Checked
  <2>3. InvCalls' /\ InvVisited' /\ InvRings'
    BY <2>1, VisitedUntouched
  <2>4. InvOnce'
    BY <2>1, OnceUntouched
  <2>5. QED
    BY <2>2, <2>3, <2>4 DEF JInv
<1>3. CASE CheckId /\ ~\E why \in {"blank", "duplicate", "type"} : Reject(why)
  <2>1. /\ stage = "ids" /\ i <= Len(file.rules) /\ file.rules[i].id \notin ids
        /\ ids' = ids \cup {file.rules[i].id} /\ i' = i + 1
        /\ UNCHANGED <<file, redis, stage, cause, stack, temporary, permanent, ordered, built>>
    BY <1>3 DEF CheckId
  <2>2. ASSUME NEW n \in DOMAIN file.rules, NEW m \in DOMAIN file.rules,
               n < i', m < i', file.rules[n].id = file.rules[m].id
        PROVE  n = m
    <3>1. (n < i \/ n = i) /\ (m < i \/ m = i)
      BY <2>1, <2>2, <1>0
    <3>2. \A p \in DOMAIN file.rules : p < i => file.rules[p].id # file.rules[i].id
      BY <2>1 DEF IInv, InvIds
    <3>3. QED
      BY <3>1, <3>2, <2>1, <2>2 DEF JInv, InvUnique
  <2>3. InvUnique'
    BY <2>1, <2>2 DEF InvUnique, Checked
  <2>4. InvCalls' /\ InvVisited' /\ InvRings'
    BY <2>1, VisitedUntouched
  <2>5. InvOnce'
    BY <2>1, OnceUntouched
  <2>6. QED
    BY <2>3, <2>4, <2>5 DEF JInv
<1>4. CASE CheckRefs /\ ~Reject("reference")
  <2>1. /\ stage = "refs" /\ i' = i + 1
        /\ UNCHANGED <<file, redis, stage, cause, ids, stack, temporary, permanent, ordered, built>>
    BY <1>4 DEF CheckRefs
  <2>2. InvUnique'
    BY <2>1 DEF JInv, InvUnique, Checked
  <2>3. InvCalls' /\ InvVisited' /\ InvRings'
    BY <2>1, VisitedUntouched
  <2>4. InvOnce'
    BY <2>1, OnceUntouched
  <2>5. QED
    BY <2>2, <2>3, <2>4 DEF JInv
<1>5. CASE NextStage
  <2>1. /\ i > Len(file.rules) /\ i' = 1
        /\ UNCHANGED <<file, redis, cause, ids, stack, temporary, permanent, ordered, built>>
        /\ \/ stage = "ids" /\ stage' = "refs"
           \/ stage = "refs" /\ stage' = "order"
           \/ stage = "order" /\ stage' = "build" /\ stack = <<>>
    BY <1>5 DEF NextStage
  <2>2. \A n \in DOMAIN file.rules : n < i
    BY <2>1, <1>0
  <2>3. InvUnique'
    BY <2>1, <2>2 DEF JInv, InvUnique, Checked
  <2>4. InvCalls' /\ InvVisited' /\ InvRings'
    BY <2>1, VisitedUntouched
  <2>5. InvOnce'
    BY <2>1, OnceUntouched
  <2>6. QED
    BY <2>3, <2>4, <2>5 DEF JInv
<1>6. QED
  BY <1>1, <1>2, <1>3, <1>4, <1>5 DEF Causes
-----------------------------------------------------------------------------
(* The stack as visit(id) finds it: the calls under way, with the same ids *)
(* as before, the innermost of which refers to id.                         *)
Chained(calls, id) ==
  /\ DOMAIN calls = DOMAIN stack
  /\ \A s \in DOMAIN calls : calls[s].id = stack[s].id
  /\ calls # <<>> => \E q \in DOMAIN Refs(calls[Len(calls)].id) :
                       Refs(calls[Len(calls)].id)[q] = id

(* visit(id): a new call is about an id that none under way is about; one  *)
(* that finds its id under way closes a ring.                              *)
LEMMA VisitKeepsJ ==
  ASSUME IInv, JInv, Next, stage = "order",
         NEW id \in ids, NEW calls \in Frames, Chained(calls, id), Visit(id, calls),
         UNCHANGED <<file, redis, ids, permanent, ordered, built>>,
         \/ i' = i
         \/ i \in DOMAIN file.rules /\ i' = i + 1 /\ file.rules[i].id = id
  PROVE  JInv'
<1>0. /\ file.rules \in Seq(RawRule) /\ i \in Nat /\ id \in Ids
      /\ DOMAIN file.rules = 1..Len(file.rules) /\ Len(file.rules) \in Nat
      /\ DOMAIN calls = 1..Len(calls) /\ Len(calls) \in Nat
  <2>1. file.rules \in Seq(RawRule) /\ i \in Nat /\ id \in Ids /\ calls \in Seq(Frame)
    BY FilesAssumption DEF IInv, TypeOK, Frames
  <2>2. QED
    BY <2>1
<1>1. \A x : Refs(x)' = Refs(x)
  BY FileFixed
<1>2. \A s \in DOMAIN calls : s + 1 \in DOMAIN calls =>
        \E q \in DOMAIN Refs(calls[s].id) : Refs(calls[s].id)[q] = calls[s + 1].id
  BY DEF Chained, JInv, InvCalls
<1>3. InvOnce'
  <2>1. stage' # "loaded"
    BY DEF Visit
  <2>2. QED
    BY <2>1, OnceUntouched
<1>4. InvUnique'
  <2>1. stage' = "order" \/ stage' = "rejected"
    BY DEF Visit
  <2>2. QED
    BY <2>1 DEF JInv, InvUnique, Checked
<1>5. ASSUME id \in permanent' \cup temporary', temporary \subseteq temporary', stage' = "order"
      PROVE  InvVisited'
  <2>1. ASSUME NEW n \in DOMAIN file.rules, n < i'
        PROVE  file.rules[n].id \in permanent' \cup temporary'
    <3>1. n < i \/ file.rules[n].id = id
      BY <2>1, <1>0
    <3>2. n < i => file.rules[n].id \in permanent \cup temporary
      BY <2>1 DEF JInv, InvVisited
    <3>3. QED
      BY <3>1, <3>2, <1>5
  <2>2. QED
    BY <2>1, <1>5 DEF JInv, InvVisited
<1>6. ASSUME cause' = cause
      PROVE  InvRings'
  BY <1>1, <1>6, RingFixed DEF JInv, InvRings
<1>7. CASE id \in permanent /\ stack' = calls /\ UNCHANGED <<temporary, stage, cause>>
  <2>1. InvCalls'
    BY <1>1, <1>2, <1>7 DEF Chained, JInv, InvCalls
  <2>2. QED
    BY <1>3, <1>4, <1>5, <1>6, <1>7, <2>1 DEF JInv
<1>8. CASE /\ id \in temporary /\ stage' = "rejected" /\ cause' = "cycle"
           /\ UNCHANGED <<stack, temporary>>
  <2>1. InvCalls'
    BY <1>1, <1>8 DEF JInv, InvCalls
  <2>2. InvVisited'
    BY <1>8 DEF JInv, InvVisited
  <2>3. PICK b \in DOMAIN stack : stack[b].id = id
    BY <1>0, <1>8 DEF JInv, InvCalls
  <2> DEFINE S == {stack[s].id : s \in {t \in DOMAIN stack : t >= b}}
  <2>4. S \in SUBSET ids
    BY DEF IInv, InvKnown
  <2>5. Ring(S)
    <3>0. b \in Nat /\ b >= b
      BY <2>3, <1>0 DEF Chained
    <3>1. id \in S
      BY <2>3, <3>0
    <3>2. ASSUME NEW s \in DOMAIN stack, s >= b
          PROVE  \E q \in DOMAIN Refs(stack[s].id) : Refs(stack[s].id)[q] \in S
      <4>1. CASE s = Len(calls)
        <5>1. calls # <<>> /\ calls[Len(calls)].id = stack[s].id
          BY <4>1, <1>0 DEF Chained
        <5>2. QED
          BY <5>1, <3>1 DEF Chained
      <4>2. CASE s # Len(calls)
        <5>1. s + 1 \in DOMAIN stack /\ s + 1 >= b
          BY <4>2, <3>2, <2>3, <1>0 DEF Chained
        <5>2. PICK q \in DOMAIN Refs(stack[s].id) : Refs(stack[s].id)[q] = stack[s + 1].id
          BY <5>1, <3>2 DEF JInv, InvCalls
        <5>3. QED
          BY <5>1, <5>2
      <4>3. QED
        BY <4>1, <4>2
    <3>3. \A x \in S : \E q \in DOMAIN Refs(x) : Refs(x)[q] \in S
      BY <3>2
    <3> HIDE DEF S
    <3>4. QED
      BY <3>1, <3>3 DEF Ring
  <2>6. InvRings'
    <3> HIDE DEF S
    <3>1. PICK R \in SUBSET ids : Ring(R)
      BY <2>4, <2>5
    <3>2. (\E R0 \in SUBSET ids : Ring(R0))'
      BY <3>1, RingFixed
    <3>3. QED
      BY <1>1, <3>2, RingFixed DEF JInv, InvRings
  <2>7. QED
    BY <1>3, <1>4, <2>1, <2>2, <2>6 DEF JInv
<1>9. CASE /\ id \notin permanent /\ id \notin temporary
           /\ stack' = Append(calls, [id |-> id, k |-> 1])
           /\ temporary' = temporary \cup {id}
           /\ UNCHANGED <<stage, cause>>
  <2> DEFINE st == Append(calls, [id |-> id, k |-> 1])
             n == Len(calls)
  <2>1. /\ DOMAIN st = 1..(n + 1)
        /\ \A s \in DOMAIN calls : st[s] = calls[s]
        /\ st[n + 1].id = id
    BY <1>0 DEF Frames
  <2>2. \A s \in DOMAIN st : \/ s \in DOMAIN stack /\ st[s].id = stack[s].id
                             \/ s = n + 1 /\ st[s].id = id
    BY <2>1, <1>0 DEF Chained
  <2>3. \A s \in DOMAIN stack : s \in DOMAIN st /\ st[s].id = stack[s].id
    BY <2>1, <1>0 DEF Chained
  <2>4. \A s \in DOMAIN stack : stack[s].id # id
    BY <1>0, <1>9 DEF JInv, InvCalls
  <2>5. \A x \in Ids : x \in temporary \cup {id} <=> \E s \in DOMAIN st : st[s].id = x
    <3>1. \A x \in Ids : x \in temporary => \E s \in DOMAIN st : st[s].id = x
      BY <2>3 DEF JInv, InvCalls
    <3>2. n + 1 \in DOMAIN st
      BY <2>1, <1>0
    <3>3. \A x \in Ids, s \in DOMAIN st : st[s].id = x => x \in temporary \cup {id}
      BY <2>2 DEF JInv, InvCalls
    <3>4. QED
      BY <3>1, <3>2, <3>3, <2>1
  <2>6. \A s, t \in DOMAIN st : st[s].id = st[t].id => s = t
    BY <2>2, <2>4 DEF JInv, InvCalls
  <2>7. \A s \in DOMAIN st : st[s].id \notin permanent
    BY <2>2, <1>9 DEF JInv, InvCalls
  <2>8. ASSUME NEW s \in DOMAIN st, s + 1 \in DOMAIN st
        PROVE  \E q \in DOMAIN Refs(st[s].id) : Refs(st[s].id)[q] = st[s + 1].id
    <3>1. s \in 1..n /\ st[s] = calls[s] /\ calls # <<>>
      BY <2>1, <2>8, <1>0
    <3>2. CASE s = n
      BY <3>1, <3>2, <2>1 DEF Chained
    <3>3. CASE s # n
      <4>1. s + 1 \in DOMAIN calls /\ st[s + 1] = calls[s + 1]
        BY <3>1, <3>3, <2>1, <1>0
      <4>2. QED
        BY <4>1, <3>1, <1>2, <1>0
    <3>4. QED
      BY <3>2, <3>3
  <2>9. InvCalls'
    <3>1. stack' = st
      BY <1>9
    <3> HIDE DEF st
    <3>2. QED
      BY <1>1, <1>9, <3>1, <2>5, <2>6, <2>7, <2>8 DEF InvCalls
  <2>10. QED
    BY <1>3, <1>4, <1>5, <1>6, <1>9, <2>9 DEF JInv
<1>10. QED
  BY <1>7, <1>8, <1>9 DEF Visit, Skips

(* The root calls of visit.                                                *)
LEMMA VisitRootKeepsJ ==
  ASSUME IInv, JInv, Next, VisitRoot
  PROVE  JInv'
<1>1. file.rules \in Seq(RawRule) /\ i \in Nat \ {0} /\ stack \in Frames
  BY FilesAssumption DEF IInv, TypeOK, Frames, Frame
<1>2. i \in DOMAIN file.rules
  BY <1>1 DEF VisitRoot
<1>3. file.rules[i].id \in ids
  BY <1>2 DEF VisitRoot, IInv, InvIds, Checked
<1>4. Chained(stack, file.rules[i].id)
  BY DEF VisitRoot, Chained
<1>5. QED
  BY <1>1, <1>2, <1>3, <1>4, VisitKeepsJ DEF VisitRoot

(* The recursive calls of visit.                                           *)
LEMMA VisitRefKeepsJ ==
  ASSUME IInv, JInv, Next, VisitRef
  PROVE  JInv'
<1> DEFINE calls == Advanced(stack)
           top == Len(stack)
           ref == Refs(Top.id)[Top.k]
<1>1. stack \in Frames /\ stack # <<>> /\ top \in DOMAIN stack /\ DOMAIN stack = 1..top
  BY DEF IInv, TypeOK, Frames, Frame, VisitRef
<1>2. /\ calls \in Frames /\ Len(calls) = top /\ DOMAIN calls = 1..top
      /\ \A s \in DOMAIN stack : s < top => calls[s] = stack[s]
      /\ calls[top].id = stack[top].id
  BY <1>1, AdvanceTop DEF Frames
<1>3. Top = stack[top] /\ Top \in Frame /\ Top.id \in ids
  BY <1>1 DEF IInv, InvKnown, Top, Frames
<1>4. Refs(Top.id) \in Seq(Ids) /\ \A q \in DOMAIN Refs(Top.id) : Refs(Top.id)[q] \in ids
  BY <1>3, RefsTyped DEF IInv, VisitRef
<1>5. Top.k \in DOMAIN Refs(Top.id) /\ ref \in ids
  BY <1>3, <1>4 DEF VisitRef, Frame
<1>6. Chained(calls, ref)
  <2>1. \A s \in DOMAIN calls : calls[s].id = stack[s].id
    BY <1>1, <1>2
  <2>2. Refs(calls[Len(calls)].id)[Top.k] = ref /\ Top.k \in DOMAIN Refs(calls[Len(calls)].id)
    BY <1>2, <1>3, <1>5
  <2>3. QED
    BY <1>1, <1>2, <2>1, <2>2 DEF Chained
<1>7. Visit(ref, calls) /\ stage = "order" /\ i' = i
      /\ UNCHANGED <<file, redis, ids, permanent, ordered, built>>
  BY DEF VisitRef, Advanced
<1>8. QED
  BY <1>2, <1>5, <1>6, <1>7, VisitKeepsJ

(* A visit that returns: its id is finished with for the first time, and   *)
(* refers only to ids that were finished with before.                      *)
LEMMA VisitReturnKeepsJ ==
  ASSUME IInv, JInv, Next, VisitReturn
  PROVE  JInv'
<1> DEFINE top == Len(stack)
           st == SubSeq(stack, 1, top - 1)
           id == Top.id
<1>1. stack \in Frames /\ stack # <<>> /\ top \in DOMAIN stack /\ DOMAIN stack = 1..top
      /\ top \in Nat
  BY DEF IInv, TypeOK, Frames, Frame, VisitReturn
<1>2. Top = stack[top] /\ Top \in Frame /\ id \in ids /\ id \in Ids
  <2>1. Top = stack[top]
    BY DEF Top
  <2>2. stack[top] \in Frame
    BY <1>1 DEF Frames
  <2>3. stack[top].id \in ids
    BY <1>1 DEF IInv, InvKnown
  <2>4. QED
    BY <2>1, <2>2, <2>3 DEF IInv, TypeOK
<1>3. /\ stage = "order" /\ stack' = st /\ ordered' = Append(ordered, id)
      /\ permanent' = permanent \cup {id} /\ temporary' = temporary \ {id}
      /\ UNCHANGED <<file, redis, stage, cause, i, ids, built>>
  BY DEF VisitReturn, Placed
<1>4. DOMAIN st = 1..(top - 1) /\ \A s \in DOMAIN st : st[s] = stack[s]
  <2>1. top - 1 \in Nat /\ stack \in Seq(Frame)
    BY <1>1 DEF Frames
  <2>2. Len(st) = top - 1 /\ DOMAIN st = 1..(top - 1)
    BY <1>1, <2>1
  <2>3. \A s \in 1..(top - 1) : st[s] = stack[s]
    BY <1>1, <2>1
  <2>4. QED
    BY <2>2, <2>3
<1>5. /\ Len(ordered) \in Nat
      /\ DOMAIN ordered = 1..Len(ordered) /\ DOMAIN ordered' = 1..(Len(ordered) + 1)
      /\ \A n \in DOMAIN ordered : ordered'[n] = ordered[n]
      /\ ordered'[Len(ordered) + 1] = id
  BY <1>2, <1>3 DEF IInv, TypeOK
<1>6. \A x : Refs(x)' = Refs(x)
  BY FileFixed
<1>7. id \notin permanent
  BY <1>1, <1>2 DEF JInv, InvCalls
<1>8. \A q \in DOMAIN Refs(id) : Refs(id)[q] \in permanent
  <2>1. Refs(id) \in Seq(Ids) /\ Top.k \in Nat
    BY <1>2, RefsTyped DEF IInv, Frame
  <2>2. ASSUME NEW q \in DOMAIN Refs(id)
        PROVE  Refs(id)[q] \in permanent
    <3>1. q < Top.k
      BY <2>1, <2>2 DEF VisitReturn
    <3>2. Settled(top, q)
      BY <3>1, <1>1, <1>2 DEF IInv, InvStack
    <3>3. ~(top + 1 \in DOMAIN stack)
      BY <1>1
    <3>4. QED
      BY <3>2, <3>3, <1>2 DEF Settled
  <2>3. QED
    BY <2>2
<1>9. InvUnique'
  BY <1>3 DEF JInv, InvUnique, Checked
<1>10. InvOnce'
  BY <1>3, OnceUntouched
<1>11. InvCalls'
  <2>1. \A s \in DOMAIN st : s \in DOMAIN stack /\ s # top /\ st[s] = stack[s]
    BY <1>1, <1>4
  <2>2. \A s \in DOMAIN stack : s = top \/ s \in DOMAIN st
    BY <1>1, <1>4
  <2>3. \A s \in DOMAIN st : st[s].id # id
    BY <2>1, <1>1, <1>2 DEF JInv, InvCalls
  <2>4. \A x \in Ids : x \in temporary \ {id} <=> \E s \in DOMAIN st : st[s].id = x
    <3>1. ASSUME NEW x \in Ids, x \in temporary, x # id
          PROVE  \E s \in DOMAIN st : st[s].id = x
      <4>1. PICK s \in DOMAIN stack : stack[s].id = x
        BY <3>1 DEF JInv, InvCalls
      <4>2. s \in DOMAIN st
        BY <4>1, <3>1, <2>2, <1>2
      <4>3. QED
        BY <4>1, <4>2, <2>1
    <3>2. \A x \in Ids, s \in DOMAIN st : st[s].id = x => x \in temporary \ {id}
      BY <2>1, <2>3 DEF JInv, InvCalls
    <3>3. QED
      BY <3>1, <3>2
  <2>5. \A s, t \in DOMAIN st : st[s].id = st[t].id => s = t
    BY <2>1 DEF JInv, InvCalls
  <2>6. \A s \in DOMAIN st : st[s].id \notin permanent \cup {id}
    BY <2>1, <2>3 DEF JInv, InvCalls
  <2>7. \A s \in DOMAIN st : s + 1 \in DOMAIN st =>
          \E q \in DOMAIN Refs(st[s].id) : Refs(st[s].id)[q] = st[s + 1].id
    BY <2>1 DEF JInv, InvCalls
  <2>8. QED
    <3> HIDE DEF st, id
    <3>1. QED
      BY <1>3, <1>6, <2>4, <2>5, <2>6, <2>7 DEF InvCalls
<1>12. InvVisited'
  <2>1. \A n \in DOMAIN ordered' : \/ n \in DOMAIN ordered /\ ordered'[n] = ordered[n]
                                   \/ n = Len(ordered) + 1 /\ ordered'[n] = id
    BY <1>5
  <2>2. \A n \in DOMAIN ordered : ordered[n] # id /\ ordered[n] \in permanent
    BY <1>7 DEF JInv, InvVisited
  <2>3. \A n \in DOMAIN ordered' : ordered'[n] \in permanent'
    BY <2>1, <2>2, <1>3
  <2>4. \A n, m \in DOMAIN ordered' : ordered'[n] = ordered'[m] => n = m
    BY <2>1, <2>2 DEF JInv, InvVisited
  <2>5. permanent \cup temporary \subseteq permanent' \cup temporary'
    BY <1>3
  <2>6. QED
    BY <1>3, <2>3, <2>4, <2>5 DEF JInv, InvVisited
<1>13. InvRings'
  <2>1. \A x \in permanent' : \A q \in DOMAIN Refs(x) : Refs(x)[q] \in permanent
    BY <1>3, <1>8 DEF JInv, InvRings
  <2>2. ASSUME NEW S \in SUBSET permanent', Ring(S)
        PROVE  FALSE
    <3>1. S \ {id} \in SUBSET permanent
      BY <1>3
    <3>2. ASSUME NEW x \in S
          PROVE  \E q \in DOMAIN Refs(x) : Refs(x)[q] \in S \ {id}
      <4>1. PICK q \in DOMAIN Refs(x) : Refs(x)[q] \in S
        BY <2>2, <3>2 DEF Ring
      <4>2. Refs(x)[q] \in permanent
        BY <2>1, <2>2, <3>2
      <4>3. QED
        BY <4>1, <4>2, <1>7
    <3>3. S \ {id} # {}
      <4>1. PICK x \in S : TRUE
        BY <2>2 DEF Ring
      <4>2. QED
        BY <3>2, <4>1
    <3>4. Ring(S \ {id})
      BY <3>2, <3>3 DEF Ring
    <3>5. QED
      BY <3>1, <3>4 DEF JInv, InvRings
  <2>3. \A x \in permanent' : \A q \in DOMAIN Refs(x)' : Refs(x)'[q] \in permanent'
    BY <2>1, <1>3, <1>6
  <2>4. \A S \in SUBSET permanent' : ~Ring(S)'
    BY <2>2, RingFixed
  <2>5. cause' = "cycle" => \E S \in SUBSET ids' : Ring(S)'
    BY <1>3, RingFixed DEF JInv, InvRings
  <2>6. QED
    BY <2>3, <2>4, <2>5 DEF InvRings
<1>14. QED
  BY <1>9, <1>10, <1>11, <1>12, <1>13 DEF JInv

(* The build loop takes each id of ordered once.                           *)
LEMMA BuildKeepsJ ==
  ASSUME IInv, JInv, Next, BuildRule \/ Loaded
  PROVE  JInv'
<1>1. CASE Loaded
  <2>1. /\ stage' = "loaded" /\ stage = "build" /\ i > Len(ordered)
        /\ UNCHANGED <<file, redis, cause, i, ids, stack, temporary, permanent, ordered, built>>
    BY <1>1 DEF Loaded
  <2>2. InvUnique'
    BY <2>1 DEF JInv, InvUnique, Checked
  <2>3. InvCalls' /\ InvVisited' /\ InvRings'
    BY <2>1, VisitedUntouched
  <2>4. \A n \in DOMAIN ordered : n < i
    <3>1. ordered \in Seq(Ids) /\ i \in Nat
      BY DEF IInv, TypeOK
    <3>2. QED
      BY <3>1, <2>1
  <2>5. \A x : RuleEnabled(x)' = RuleEnabled(x)
    BY FileFixed
  <2>6. InvOnce'
    BY <2>1, <2>4, <2>5 DEF JInv, InvOnce, IInv, InvBuilt
  <2>7. QED
    BY <2>2, <2>3, <2>6 DEF JInv
<1>2. CASE Reject("build")
  BY <1>2, RejectKeepsJ DEF Causes
<1>3. CASE BuildRule /\ ~Reject("build")
  <2> DEFINE id == ordered[i]
  <2>1. /\ stage = "build" /\ i <= Len(ordered) /\ i' = i + 1
        /\ built' = IF RuleEnabled(id) THEN Append(built, id) ELSE built
        /\ UNCHANGED <<file, redis, stage, cause, ids, stack, temporary, permanent, ordered>>
    BY <1>3 DEF BuildRule
  <2>2. /\ ordered \in Seq(Ids) /\ built \in Seq(Ids) /\ i \in Nat \ {0}
        /\ i \in DOMAIN ordered /\ DOMAIN ordered = 1..Len(ordered)
    BY <2>1 DEF IInv, TypeOK
  <2>3. InvUnique'
    BY <2>1 DEF JInv, InvUnique, Checked
  <2>4. InvCalls' /\ InvVisited' /\ InvRings'
    BY <2>1, VisitedUntouched
  <2>5. \A x : RuleEnabled(x)' = RuleEnabled(x)
    BY FileFixed
  <2>6. \A p \in DOMAIN ordered : p < i => p < i' /\ ordered[p] # id
    BY <2>1, <2>2 DEF JInv, InvVisited
  <2>7. InvOnce'
    <3>1. CASE ~RuleEnabled(id)
      BY <2>1, <2>5, <2>6, <3>1 DEF JInv, InvOnce
    <3>2. CASE RuleEnabled(id)
      <4>1. \A n \in DOMAIN built' : \/ n \in DOMAIN built /\ built'[n] = built[n]
                                     \/ n = Len(built) + 1 /\ built'[n] = id
        BY <2>1, <2>2, <3>2
      <4>2. \A n \in DOMAIN built : built[n] # id
        BY <2>6 DEF JInv, InvOnce
      <4>3. \A n, m \in DOMAIN built' : built'[n] = built'[m] => n = m
        BY <4>1, <4>2 DEF JInv, InvOnce
      <4>4. ASSUME NEW n \in DOMAIN built'
            PROVE  /\ RuleEnabled(built'[n])
                   /\ \E p \in DOMAIN ordered : p < i' /\ ordered[p] = built'[n]
        <5>1. i < i'
          BY <2>1, <2>2
        <5>2. CASE n \in DOMAIN built /\ built'[n] = built[n]
          BY <5>2, <2>6 DEF JInv, InvOnce
        <5>3. CASE built'[n] = id
          BY <5>1, <5>3, <2>2, <3>2
        <5>4. QED
          BY <4>1, <4>4, <5>2, <5>3
      <4>5. QED
        BY <2>1, <2>5, <4>3, <4>4 DEF InvOnce
    <3>3. QED
      BY <3>1, <3>2
  <2>8. QED
    BY <2>3, <2>4, <2>7 DEF JInv
<1>4. QED
  BY <1>1, <1>2, <1>3
-----------------------------------------------------------------------------
(* Nothing was visited at the start.                                       *)
LEMMA InitInvJ == Init => JInv
<1> SUFFICES ASSUME Init
             PROVE  JInv
  OBVIOUS
<1>1. /\ stack = <<>> /\ ordered = <<>> /\ built = <<>> /\ permanent = {} /\ temporary = {}
      /\ stage = "header" /\ cause = "none"
  BY DEF Init
<1>2. InvUnique /\ InvCalls /\ InvVisited /\ InvOnce
  BY <1>1 DEF InvUnique, InvCalls, InvVisited, InvOnce, Checked
<1>3. InvRings
  BY <1>1 DEF InvRings, Ring
<1>4. QED
  BY <1>2, <1>3 DEF JInv

(* Each step of LoadBytes keeps the second invariant.                      *)
LEMMA StepInvJ == IInv /\ JInv /\ [Next]_vars => JInv'
<1> SUFFICES ASSUME IInv, JInv, [Next]_vars
             PROVE  JInv'
  OBVIOUS
<1>1. CASE Next
  BY <1>1, CheckingKeepsJ, VisitRootKeepsJ, VisitRefKeepsJ, VisitReturnKeepsJ, BuildKeepsJ
     DEF Next
<1>2. CASE UNCHANGED vars
  <2>1. UNCHANGED <<file, redis, stage, cause, i, ids, stack, temporary, permanent, ordered, built>>
    BY <1>2 DEF vars
  <2>2. (\A x : Refs(x)' = Refs(x)) /\ (\A x : RuleEnabled(x)' = RuleEnabled(x))
    BY <2>1 DEF Refs, RuleEnabled, Raw
  <2>3. \A S : Ring(S)' <=> Ring(S)
    BY <2>2 DEF Ring
  <2>4. InvUnique' /\ InvCalls' /\ InvVisited' /\ InvOnce'
    BY <2>1, <2>2 DEF JInv, InvUnique, InvCalls, InvVisited, InvOnce
  <2>5. InvRings'
    BY <2>1, <2>2, <2>3 DEF JInv, InvRings
  <2>6. QED
    BY <2>4, <2>5 DEF JInv
<1>3. QED
  BY <1>1, <1>2

(* What the visit has done with each id, in every state of LoadBytes.      *)
THEOREM LoaderVisitInvariant == Spec => [](IInv /\ JInv)
  BY InitInvJ, StepInvJ, LoaderInvariant, PTL DEF Spec

(* For every rule file: a snapshot has each enabled rule of the file, and  *)
(* has it once.                                                            *)
THEOREM LoaderSnapshotComplete == Spec => []SnapshotComplete
<1>1. ASSUME IInv, JInv, stage = "loaded"
      PROVE  \A n \in DOMAIN file.rules :
               file.rules[n].enabled <=> \E m \in DOMAIN built : built[m] = file.rules[n].id
  <2> TAKE n \in DOMAIN file.rules
  <2> DEFINE id == file.rules[n].id
  <2>1. id \in permanent /\ id \in ids
    BY <1>1 DEF JInv, InvVisited, IInv, InvKnown
  <2>2. PICK m \in DOMAIN file.rules : file.rules[m].id = id /\ Raw(id) = file.rules[m]
    BY <2>1, <1>1, RawFound DEF IInv
  <2>3. RuleEnabled(id) = file.rules[n].enabled
    BY <2>2, <1>1 DEF RuleEnabled, JInv, InvUnique, Checked
  <2>4. \E p \in DOMAIN ordered : ordered[p] = id
    BY <2>1, <1>1 DEF IInv, InvKnown
  <2>5. QED
    BY <2>3, <2>4, <1>1 DEF JInv, InvOnce
<1>2. IInv /\ JInv => SnapshotComplete
  BY <1>1 DEF SnapshotComplete, JInv, InvOnce
<1>3. QED
  BY <1>2, LoaderVisitInvariant, PTL

(* For every rule file: it is rejected for a cycle only when its rules     *)
(* have a ring, and it gets past the visit only when they have none.       *)
THEOREM LoaderCyclesExact == Spec => []CyclesExact
<1>1. ASSUME IInv, JInv, stage \in {"build", "loaded"}
      PROVE  ids \subseteq permanent
  BY <1>1 DEF IInv, InvIds, JInv, InvVisited
<1>2. IInv /\ JInv => CyclesExact
  BY <1>1 DEF CyclesExact, JInv, InvRings
<1>3. QED
  BY <1>2, LoaderVisitInvariant, PTL
=============================================================================
