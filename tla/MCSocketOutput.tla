--------------------------- MODULE MCSocketOutput ---------------------------
(* Instances of SocketOutput for TLC.                                      *)
EXTENDS SocketOutput
CONSTANTS world
=============================================================================
