------------------------------ MODULE MCPrmHook ------------------------------
(***************************************************************************)
(* PrmHook for TLC: two threads that share their descriptors, one of root  *)
(* and one of the denied user, a regular file, which is checked, and a     *)
(* device, which is not and may be put under the descriptor in its place.  *)
(***************************************************************************)
EXTENDS PrmHook

CONSTANTS t1, t2, reg

MCUids     == {RootUid, DeniedUid}
MCRequests == {c \in PosedChecks : c.uid \in MCUids}
MCUidOf    == [t \in {t1, t2} |-> IF t = t1 THEN RootUid ELSE DeniedUid]
MCFileType == [f \in Files |-> IF f = reg THEN "FILE_REG" ELSE "FILE_CHR"]

=============================================================================
