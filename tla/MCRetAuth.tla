------------------------------ MODULE MCRetAuth ------------------------------
(***************************************************************************)
(* RetAuth for TLC: /usr/bin/sh asks to open a file, and programs may be   *)
(* registered under its path, under the directories above it, and under    *)
(* /opt, which it does not come by.                                        *)
(***************************************************************************)
EXTENDS RetAuth

MCExes        == {<<"usr", "bin", "sh">>}
MCPaths       == {<<"usr">>, <<"usr", "bin">>, <<"usr", "bin", "sh">>, <<"opt">>}
MCMisread     == {<<"(deleted)">>}

(* An action with rules, and an index out of range. *)
MCAskedActions == {1, 7}

=============================================================================
