------------------------------ MODULE MCSeClient ------------------------------
(***************************************************************************)
(* SeClient with one call that only reads and two that change the server,  *)
(* repeated as often as the panel has it (se.py: retries=2).               *)
(***************************************************************************)
EXTENDS SeClient

CONSTANTS get1, set1, set2

ThreeCalls == {get1, set1, set2}
OneRead    == {get1}
=============================================================================
