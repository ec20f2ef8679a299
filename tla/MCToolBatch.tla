------------------------------ MODULE MCToolBatch ------------------------------
(* Instances of ToolBatch for TLC: two skills that share a low-risk tool, one  *)
(* of which also asks for a high-risk tool.                                    *)
EXTENDS ToolBatch

CONSTANTS s1, s2, lo, hi

Asks == s1 :> {lo, hi} @@ s2 :> {lo}
AsksMore == s1 :> {lo, hi} @@ s2 :> {lo, hi}

Base == [ceiling |-> {lo, hi}, initial |-> {}, risky |-> {hi},
         requested |-> Asks, concurrent |-> FALSE, parallel |-> TRUE,
         confirms |-> TRUE]

\* Profiles edited between restarts, without concurrent skills and with them.
AllProfiles ==
  {Base,
   [Base EXCEPT !.requested = AsksMore, !.risky = {lo, hi}],
   [Base EXCEPT !.initial = {lo}, !.parallel = FALSE],
   [Base EXCEPT !.concurrent = TRUE],
   [Base EXCEPT !.confirms = FALSE]}

\* A profile with concurrent skills, and one that no longer allows them.
Several ==
  {[Base EXCEPT !.concurrent = TRUE],
   [Base EXCEPT !.confirms = FALSE]}

=============================================================================
