------------------------------ MODULE MCLinks -------------------------------
(* An instance of Links for TLC: another owner who comes, goes and changes *)
(* keys between the calls of an application that makes two links.          *)
EXTENDS Links
=============================================================================
