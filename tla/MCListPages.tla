----------------------------- MODULE MCListPages -----------------------------
(***************************************************************************)
(* A small instance of ListPages for TLC.                                  *)
(***************************************************************************)
EXTENDS ListPages

CONSTANTS n1, n2, n3   \* names of objects
=============================================================================
