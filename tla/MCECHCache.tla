---------------------------- MODULE MCECHCache ------------------------------
(* The answers of the upstreams in the run of ECHCache.                    *)
EXTENDS ECHCache

MCAnswers == {<<"empty", "other", "bare">>, <<"full", "bare">>}
=============================================================================
