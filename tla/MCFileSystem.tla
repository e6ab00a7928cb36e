---------------------------- MODULE MCFileSystem ----------------------------
(***************************************************************************)
(* FileSystem with four inodes and two names: enough for a directory with a   *)
(* directory, a file and a duplicate below it, and for one that is deleted  *)
(* while its entries are still held.                                       *)
(***************************************************************************)
EXTENDS FileSystem

CONSTANTS a, b, d, noData
=============================================================================
