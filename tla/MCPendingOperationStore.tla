---------------------- MODULE MCPendingOperationStore ----------------------
(* A small instance of the confirmation store for TLC: tokens are            *)
(* interchangeable, tools and arguments are only compared.                   *)
EXTENDS PendingOperationStore, TLC

Symmetry == Permutations(Token) \cup Permutations(Tool) \cup Permutations(Args)
=============================================================================
