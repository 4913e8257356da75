---------------------------- MODULE DecisionSink ----------------------------
(***************************************************************************)
(* What a decision sink (sink.DecisionSink, engine.AuditSink) promises,    *)
(* whatever it writes to: it takes records over one after the other until  *)
(* it is closed, and what comes out at the far end comes out at most once  *)
(* and in the order it was taken over.  A lossy sink may skip records, a   *)
(* lossless one delivers a prefix of what it took over.                    *)
(*                                                                         *)
(* KafkaSink implements it with Lossy = TRUE, AuditWriter with FALSE.      *)
(***************************************************************************)
EXTENDS Naturals, Sequences

CONSTANTS Records,   \* decisions offered to the sink
          Lossy      \* may the sink give up on a record it took over

VARIABLES
  accepted,   \* the records taken over, in order
  out,        \* the positions in accepted of the records delivered, in order
  closed      \* the sink takes nothing over any more

vars == <<accepted, out, closed>>

Init == accepted = <<>> /\ out = <<>> /\ closed = FALSE

Delivered == IF out = <<>> THEN 0 ELSE out[Len(out)]

Accept(rec) ==
  /\ ~closed
  /\ \A i \in DOMAIN accepted : accepted[i] # rec
  /\ accepted' = Append(accepted, rec)
  /\ UNCHANGED <<out, closed>>

Deliver(k) ==
  /\ k > Delivered
  /\ Lossy \/ k = Delivered + 1
  /\ out' = Append(out, k)
  /\ UNCHANGED <<accepted, closed>>

Close ==
  /\ ~closed
  /\ closed' = TRUE
  /\ UNCHANGED <<accepted, out>>

Next ==
  \/ \E rec \in Records : Accept(rec)
  \/ \E k \in DOMAIN accepted : Deliver(k)
  \/ Close

Spec == Init /\ [][Next]_vars
=============================================================================
