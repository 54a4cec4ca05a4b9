----------------------------- MODULE MCExecutor ------------------------------
(* Small instances of Executor for TLC.                                    *)
EXTENDS Executor

MCBatches == {<<"BEGIN", "BEGIN">>, <<"WRITE", "COMMIT">>}
=============================================================================
