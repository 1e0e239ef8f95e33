------------------------ MODULE MCDatasetPublication ------------------------
(* A first publication and a refresh of one dataset that overlap, beside a  *)
(* rollback.                                                                *)
EXTENDS DatasetPublication, TLC

CONSTANTS a, b, r

MCPublishers == {a, b}
MCMode == (a :> "default") @@ (b :> "refresh")
MCRollbacks == {r}
=============================================================================
