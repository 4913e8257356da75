---------------------------- MODULE MCAhoMatcher ----------------------------
EXTENDS AhoMatcher

(* All short words over two letters, two long ones whose links pass        *)
(* through several nodes, and lines that NewKeywordRule cleans.            *)
mcKeywords == (BoundedSeq({"a", "b"}, 3) \ {<<>>}) \cup
  {<<"a", "a", "a", "b">>, <<"a", "b", "a", "b">>,
   <<"_">>, <<"A", "b">>, <<"_", "A", "_">>, <<"a", "_", "b">>}
=============================================================================
