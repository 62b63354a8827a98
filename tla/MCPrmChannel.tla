----------------------------- MODULE MCPrmChannel -----------------------------
(***************************************************************************)
(* PrmChannel for TLC: the checks that callers pose, and the symmetries.   *)
(* No action or property tells two callers, two cells or two server        *)
(* processes apart, and TLC's safety runs use that.                        *)
(***************************************************************************)
EXTENDS PrmChannel, TLC

(* Two users that open a file: one is refused and one is let through. *)
MCUids == {RootUid, DeniedUid}
OpenByRoot   == [p_type |-> "P_REG", uid |-> RootUid]
OpenByDenied == [p_type |-> "P_REG", uid |-> DeniedUid]
OneRequest   == {OpenByDenied}
TwoRequests  == {OpenByRoot, OpenByDenied}

CallerSymmetry == Permutations(Callers) \cup Permutations(Cells)
FullSymmetry   == CallerSymmetry \cup Permutations(Servers)

=============================================================================
