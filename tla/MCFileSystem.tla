---------------------------- MODULE MCFileSystem ----------------------------
(***************************************************************************)
(* A small card for TLC: a file of two clusters, out of order, that does   *)
(* not fill them, and a file of one cluster, full.                         *)
(***************************************************************************)
EXTENDS FileSystemImplements, TLC

MCChain == ("a" :> <<4, 2>>) @@ ("b" :> <<3>>)
MCSize == ("a" :> 7) @@ ("b" :> 4)

=============================================================================
