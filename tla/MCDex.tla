------------------------------- MODULE MCDex -------------------------------
(***************************************************************************)
(* Instances of Dex for TLC.                                               *)
(***************************************************************************)
EXTENDS Dex, TLC

\* The manager gives the pair all, or half, of the LEM reward.
WholeOrHalf == {<<1, 1>>, <<1, 2>>}

\* A swap in each direction, forwards and backwards.
SwapAmounts == {4, -2}

\* Enough for a pool, the creation fee and trades both ways.
SmallFunds == [LED |-> 8, LEM |-> 12]

\* Enough for a pool, the creation fee and one trade.
TinyFunds == [LED |-> 8, LEM |-> 8]

\* A pair, or the pair in both orders.
OnePair == {<<"LED", "LEM">>}
BothPairs == {<<"LED", "LEM">>, <<"LEM", "LED">>}

=============================================================================
