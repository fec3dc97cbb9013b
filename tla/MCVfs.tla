------------------------------- MODULE MCVfs -------------------------------
(***************************************************************************)
(* An archive with a file, and a directory with a file, for Vfs; three     *)
(* mounts that all hold it.                                                *)
(***************************************************************************)
EXTENDS Vfs

MCTree == {<<>>, <<"a">>, <<"d">>, <<"d", "a">>, <<"d", "d">>}
MCDirs == {<<>>, <<"d">>}
=============================================================================
