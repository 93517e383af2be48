--------------------------- MODULE MCStagedConfig ---------------------------
(* All the tools, two calls.                                                  *)
EXTENDS StagedConfig, TLC

(* Bound: both calls are of one domain, or one of each of the two domains
   that share a module of the firewall. *)
Related ==
  LET domains == {Domain(c) : c \in Called} IN
  Cardinality(domains) <= 1 \/ domains = {"rule", "nat"}

Symmetry == Permutations(Call)
=============================================================================
