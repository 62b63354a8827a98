---------------------------- MODULE MCAdminConsole ----------------------------
(***************************************************************************)
(* AdminConsole for TLC.  No action tells two consoles, two paths or two   *)
(* actions apart.                                                          *)
(***************************************************************************)
EXTENDS AdminConsole, TLC

ConsoleSymmetry == Permutations(Consoles) \cup Permutations(Paths)

=============================================================================
