----------------------------- MODULE MCDetection ------------------------------
(* Small instances of Detection for TLC. *)
EXTENDS Detection, TLC

CONSTANTS quality, hallucination, w1, w2

\* A good answer, and a poor one that is made up.
TwoFindings == { quality :> q @@ hallucination :> 2 - q : q \in {0, 2} }

\* One replica flags a drop of half, one whatever is no better.
Thresholds == w1 :> 50 @@ w2 :> 0

==============================================================================
