----------------------- MODULE MCSubagentCoordinator -----------------------
(* Small instances of SubagentCoordinator for TLC.                         *)
EXTENDS SubagentCoordinator, TLC

\* A request asks for no mechanism or for both; a nested one needs delegate.
MCGrants == {{}, {"mcp", "delegate"}}

MCDelegates == {{"delegate"}}

\* Job identifiers are random UUIDs, messages and stop calls are independent
\* callers, so their names carry no meaning; a flaky job is told apart.
Symmetry == Permutations(Jobs \ Flaky)
=============================================================================
