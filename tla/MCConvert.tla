----------------------------- MODULE MCConvert -----------------------------
(* Either two calls of the user compete, or batches of small assets run.    *)
EXTENDS Convert

MCScenarios == {Calls, Batches}
=============================================================================
