-------------------------- MODULE MCFileTransfer --------------------------
(***************************************************************************)
(* Instances of FileTransfer for TLC: a file of three blocks, so that a     *)
(* chunk other than seq 0 and the DONE chunk both exist.                  *)
(***************************************************************************)
EXTENDS FileTransfer

ThreeBlocks == <<"b1", "b2", "b3">>
=============================================================================
