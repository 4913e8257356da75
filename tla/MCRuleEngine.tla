---------------------------- MODULE MCRuleEngine ----------------------------
(* Small rule sets for RuleEngine: leaf rules of every kind, a combiner    *)
(* over two of them, a combiner whose dependency is disabled, and a        *)
(* combiner over that combiner.                                            *)
EXTENDS RuleEngine

Leaf(id, kind, verdict) ==
  [id |-> id, kind |-> kind, op |-> "all", of |-> <<>>, verdict |-> verdict, code |-> "c"]

Combo(id, op, of, verdict) ==
  [id |-> id, kind |-> "combiner", op |-> op, of |-> of, verdict |-> verdict, code |-> "c"]

MCRuleIds == {"cel", "rate", "kw", "all", "any", "top"}
MCCodes == {"c"}
MCVersions == {"v1", "v2"}

Chained ==
  [version |-> "v1",
   rules |-> <<Leaf("cel", "cel", "flag"), Leaf("rate", "rate_limit", "flag"),
               Combo("all", "all", <<"cel", "rate">>, "block")>>]

(* "rate" is disabled: the loader keeps the combiner and drops the rule.   *)
Dangling ==
  [version |-> "v2",
   rules |-> <<Leaf("kw", "keyword_match", "block"),
               Combo("any", "any", <<"kw", "rate">>, "flag"),
               Combo("top", "any", <<"any", "kw">>, "flag")>>]

MCSnapshots == {Chained, Dangling}
=============================================================================
