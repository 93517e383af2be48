----------------------------- MODULE MCHighRisk -----------------------------
(* Four calls over two tokens: two operations of one tool that differ in     *)
(* their target alone, one with a malformed uuid, and one of another tool.    *)
EXTENDS HighRisk, TLC

CONSTANTS u1, u2

Arguments(target, data) == [target |-> target, data |-> data]

MCTool == {"wireguard_server_delete", "system_config_restore"}

MCArgs ==
  {Arguments(u1, None), Arguments(u2, None), Arguments("this", "backup")}

Operation(tool, args) == [tool_name |-> tool, arguments |-> args]

MCOp ==
  {Operation("wireguard_server_delete", Arguments(u1, None)),
   Operation("wireguard_server_delete", Arguments(u2, None)),
   Operation("wireguard_server_delete", Arguments("this", "backup")),
   Operation("system_config_restore", Arguments("this", "backup"))}

(* The same revision of two sources. *)
MCRestoreArgs == {Arguments("this", "backup"), Arguments("remote", "backup")}
MCRestoreOp == {Operation("system_config_restore", args) : args \in MCRestoreArgs}

MCUuid == {u1, u2}

Symmetry == Permutations(Call) \cup Permutations(Token) \cup Permutations(MCUuid)
=============================================================================
