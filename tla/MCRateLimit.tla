---------------------------- MODULE MCRateLimit ----------------------------
EXTENDS RateLimit, TLC

CONSTANTS r1, r2, r3

(* Two rules that count in keys of their own; the requests pass the second *)
(* one by.                                                                 *)
mcRules == <<[scope |-> "actor", action |-> <<"publish">>, limit |-> 1],
             [scope |-> "actor+action", action |-> <<"comment">>, limit |-> 1]>>

(* Two requests of the actor a, and one of the actor a:b.                  *)
mcActors == {<<"a">>, <<"a", "b">>}
mcActions == {<<"publish">>, <<"comment">>}

mcActorOf == [req \in Requests |-> IF req = r3 THEN <<"a", "b">> ELSE <<"a">>]
mcActionOf == [req \in Requests |-> <<"publish">>]

ASSUME OwnKeys

(* The two requests of the actor a are alike.                              *)
Alike == Permutations({r1, r2})
=============================================================================
