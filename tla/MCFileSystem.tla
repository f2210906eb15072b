---------------------------- MODULE MCFileSystem ----------------------------
(***************************************************************************)
(* Model-checking instance of FileSystem.                                  *)
(***************************************************************************)
EXTENDS FileSystem

A == 65
B == 66
Slash == 47

MCPaths == {<<A>>, <<A, Slash>>, <<Slash, A>>}

\* Paths of the descriptor runs: a file name in the working directory.
MCPathsIO == {<<A>>}

\* Descriptor fd writes byte 200 + fd.
MCPayload(fd) == 200 + fd

=============================================================================
