------------------------------ MODULE MCFileIO ------------------------------
(***************************************************************************)
(* FileIO for TLC: two processes of one thread each.                       *)
(***************************************************************************)
EXTENDS FileIO, TLC

CONSTANTS t1, t2, p1, p2

MCprocess == t1 :> p1 @@ t2 :> p2

=============================================================================
