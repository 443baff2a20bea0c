---------------------------- MODULE MCIssuance -----------------------------
(***************************************************************************)
(* Instances of Issuance for TLC: the eras last a few seconds and the rate *)
(* is small enough for the fractions of the split to differ.               *)
(***************************************************************************)
EXTENDS Issuance

=============================================================================
