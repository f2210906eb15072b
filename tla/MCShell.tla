------------------------------ MODULE MCShell ------------------------------
(***************************************************************************)
(* Model-checking instance of Shell: the kernel as shipped, where fileTest *)
(* runs once and then the keyboard is the only caller of the file system. *)
(***************************************************************************)
EXTENDS Shell

\* Unused by the shell, which takes its paths from the keys.
MCShellPaths == {}

\* fileTest's names differ in their last character, '0' .. '3'.
MCTestNames == <<<<48>>, <<49>>, <<50>>, <<51>>>>

\* The byte of fileTest's text.
MCShellPayload(fd) == 200

=============================================================================
