----------------------------- MODULE MCRunBench -----------------------------
(* Values of -concurrency for the runs of RunBench: the least one that     *)
(* validate accepts, one below and one above the number of targets.        *)
EXTENDS RunBench

MCConcurrencies == {1, 2, N + 1}
=============================================================================
