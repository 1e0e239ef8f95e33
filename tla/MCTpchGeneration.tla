-------------------------- MODULE MCTpchGeneration --------------------------
(* A job from its beginning, or two jobs that publish into one destination; *)
(* an image that is canonical, one that only has its labels and another.    *)
EXTENDS TpchGeneration, TLC

CONSTANTS j1, j2, o1, o2, canonical, relabelled, stale

MCJobs == {j1, j2}
MCStarts == {(j1 :> "idle" @@ j2 :> "failed"), (j1 :> "checking" @@ j2 :> "checking")}
MCOutputs == <<o1, o2>>
MCImages == {canonical, relabelled, stale}
MCLabelled == {canonical, relabelled}
MCCanonical == {canonical}
=============================================================================
