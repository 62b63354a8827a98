---------------------------- MODULE MCPrmSelfCheck ----------------------------
(***************************************************************************)
(* PrmSelfCheck for TLC: one server, whose thread is the caller own.  The  *)
(* check is one of user 1, or of an OPEN of the first version.             *)
(***************************************************************************)
EXTENDS PrmSelfCheck, TLC

CONSTANT own

MCUids       == {1}
MCRequests   == {[p_type |-> "P_REG", uid |-> 1]}
MCOwnThread  == [s \in Servers |-> own]
CellSymmetry == Permutations(Cells)

=============================================================================
