---------------------------- MODULE MCKeyMaterial ----------------------------
(* KeyMaterial for TLC: two calls about objects of one kind, and a third     *)
(* that sends back what one of them was shown.                               *)
EXTENDS KeyMaterial, TLC

\* Between them they are generated, exported, issued and not deleted; one has
\* two key fields, one none, and there is the backup.
MCOffered ==
  {StaticKeys, PreSharedKeys, WireGuardServers, Certificates, FilterRules, Configuration}

CallSymmetry == Permutations(Call)

Called == {c \in Call : job[c] # None}

\* All calls are about the kind of the first object, or the configuration.
OneKind ==
  Cardinality(({items[u].path : u \in DOMAIN items} \cup {job[c].kind.path : c \in Called})
                \ {Configuration.path}) <= 1

FewFailures == Cardinality({c \in Call : stage[c] \in {"tool_error", "raised", "died"}}) <= 1

ThirdEdits ==
  Called = Call => \E c \in Called : job[c].does = "set" /\ ~Gives(c)

Bounds == OneKind /\ FewFailures /\ ThirdEdits
=============================================================================
