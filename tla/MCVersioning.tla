---- MODULE MCVersioning ----
EXTENDS Versioning, TLC

\* The shortest chain of stages.
MCPair == {"incoming", "raw"}
MCPairOrder == <<"incoming", "raw">>
MCPairParent == [s \in {"raw"} |-> "incoming"]
MCPairReporter == [s \in MCPair |-> "raw"]

RegistrarSymmetry == Permutations(Registrars)
=============================================================================
