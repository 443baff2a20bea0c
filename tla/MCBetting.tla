----------------------------- MODULE MCBetting -----------------------------
(***************************************************************************)
(* Instances of Betting for TLC.                                           *)
(***************************************************************************)
EXTENDS Betting, TLC

\* One game at a time: it starts at 0, and whatever follows starts no later.
OneRound == {<<0, 1, 2>>, <<0, 1, 1>>}

\* A game that can be over and removed while a longer one is still open.
ShortAndLong == {<<0, 0, 0>>, <<0, 1, 1>>}

\* Users are interchangeable: no action orders them.
UserSymmetry == Permutations(Users)

=============================================================================
