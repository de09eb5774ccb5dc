------------------------------- MODULE MCTraceApi -------------------------------
(***************************************************************************)
(* TraceApi for TLC.  The clients of one behaviour either ingest, read and *)
(* replay, or label what they ingest, or page through it.                  *)
(***************************************************************************)
EXTENDS TraceApi, TLC

CONSTANTS nofilter, a1, a2, t1, t2, t3, r1, r2, everyone, c1, c2, none, noid

MCMenus == { {"ingest", "read", "replay"}, {"ingest", "feedback"}, {"ingest", "tags"},
             {"ingest", "pages"} }

\* One reader turns the pages of a tag while another one relabels.
RetaggedMenus == { {"ingest", "tags", "pages"} }

\* Two ratings and two notes; "down" never comes with the note of "up".
MCVerdicts == { [rating |-> "up", note |-> none], [rating |-> "down", note |-> none],
                [rating |-> "up", note |-> "why"] }

MCTagSets == { {"a"}, {"b"} }

\* Labels are of one trace each: one trace is enough to be labelled.
MCNext == Next /\ (menu \cap {"feedback", "tags"} # {} => Len(order') <= 1)

MCSpec == Init /\ [][MCNext]_vars

MCSymmetry == Permutations({r1, r2}) \cup Permutations({t1, t2, t3})
=============================================================================
