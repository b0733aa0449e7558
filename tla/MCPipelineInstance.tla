------------------------- MODULE MCPipelineInstance -------------------------
(* Small instances of PipelineInstance for TLC. *)
EXTENDS PipelineInstance, TLC

CONSTANTS h1, h2

HeartbeatSymmetry == Permutations(Heartbeats)
=============================================================================
