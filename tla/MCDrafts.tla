------------------------------ MODULE MCDrafts ------------------------------
(* An instance of Drafts for TLC.                                          *)
EXTENDS Drafts
=============================================================================
