---------------------------- MODULE MCModuleBuild ----------------------------
(***************************************************************************)
(* ModuleBuild with three processes: two on one host, one of them with a   *)
(* configuration of its own, and one on another host.                      *)
(***************************************************************************)
EXTENDS ModuleBuild

CONSTANTS p1, p2, p3

SmallHost == [p \in Procs |-> IF p = p3 THEN "b" ELSE "a"]
SmallConfig == [p \in Procs |-> IF p = p2 THEN "debug" ELSE "release"]
=============================================================================
