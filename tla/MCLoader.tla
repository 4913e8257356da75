------------------------------ MODULE MCLoader ------------------------------
(* Files of three rules: every way of combining leaf rules, disabled and   *)
(* invalid ones, and combiners over one or two of the rules in any order,  *)
(* self-references and rings included; and a few with a bad header, ids,   *)
(* types, references or operators.                                         *)
EXTENDS Loader

MCIds == {"a", "b", "c", "x"}

Leaf(id, type, enabled, valid) ==
  [id |-> id, type |-> type, enabled |-> enabled, op |-> "other", of |-> <<>>, valid |-> valid]

Combo(id, enabled, op, of) ==
  [id |-> id, type |-> "combiner", enabled |-> enabled, op |-> op, of |-> of, valid |-> TRUE]

Choices(id) ==
  {Leaf(id, "cel", e, TRUE) : e \in BOOLEAN}
    \cup {Leaf(id, "rate_limit", TRUE, TRUE)}
    \cup {Combo(id, e, "all", of) : e \in BOOLEAN,
            of \in {<<"a">>, <<"b">>, <<"c">>, <<"a", "b">>, <<"c", "b">>, <<"a", "c">>}}

Regular ==
  {[header |-> TRUE, rules |-> <<ra, rb, rc>>] :
     ra \in Choices("a"), rb \in Choices("b"), rc \in Choices("c")}

Ok == Leaf("a", "cel", TRUE, TRUE)

Irregular ==
  {[header |-> FALSE, rules |-> <<Ok>>]} \cup
  {[header |-> TRUE, rules |-> <<Ok, raw>>] :
     raw \in {Leaf(Blank, "cel", TRUE, TRUE), Leaf("a", "cel", TRUE, TRUE),
              Leaf("b", "other", TRUE, TRUE), Leaf("b", "keyword_match", TRUE, FALSE),
              Combo("b", TRUE, "any", <<"a", "x">>), Combo("b", FALSE, "any", <<"x">>),
              Combo("b", TRUE, "other", <<"a">>), Combo("b", TRUE, "any", <<>>),
              Combo("b", TRUE, "any", <<"a", "a">>)}}

MCFiles == Regular \cup Irregular
=============================================================================
