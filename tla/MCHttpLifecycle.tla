--------------------------- MODULE MCHttpLifecycle ---------------------------
(* Sessions and requests are interchangeable.                                 *)
EXTENDS HttpLifecycle, TLC

Symmetry == Permutations(Session) \cup Permutations(Req)
=============================================================================
