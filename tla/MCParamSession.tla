--------------------------- MODULE MCParamSession ---------------------------
(***************************************************************************)
(* ParamSession for TLC: vehicle a comes to the primary connection, b has  *)
(* a fleet link; no parameter of theirs has the same name, and a has more. *)
(***************************************************************************)
EXTENDS ParamSession

MCSysId == [v \in {"a"} |-> "sysid 1"]
MCTable == [v \in {"a", "b"} |-> IF v = "a" THEN <<"x", "z">> ELSE <<"y">>]
=============================================================================
