-------------------------- MODULE MCTypingsInstaller --------------------------
(***************************************************************************)
(* Two projects that ask for a package the registry has, one that it has   *)
(* not, and one whose name is invalid; one install at a time.              *)
(***************************************************************************)
EXTENDS TypingsInstaller, TLC

=============================================================================
