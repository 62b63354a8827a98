----------------------------- MODULE MCPrmModule -----------------------------
(***************************************************************************)
(* PrmModule for TLC.                                                      *)
(***************************************************************************)
EXTENDS PrmModule, TLC

MCModules == {"kernel", "kernel2", "fileaudit"}
MCCalls   == {"openat", "read"}

CPUSymmetry == Permutations(CPUs)

=============================================================================
