---------------------------- MODULE MCLemonade ----------------------------
(***************************************************************************)
(* The instance of Lemonade for TLC.                                       *)
(***************************************************************************)
EXTENDS Lemonade

\* A fixed-term product with a price prediction.
Predict == {[NoOffer EXCEPT !.name = "predict", !.duration = 1, !.minimum_yield = 1,
                            !.maximum_yield = 3, !.has_prediction = TRUE]}

\* A game that may take bets and end while deposits run.
OneGame == {<<0, 1, 1>>}

\* Each verb with enough fields and with too few, and a memo without a verb.
SomeMemos == {<<"stake", "predict", "short">>, <<"stake", "predict">>, <<"stake">>,
              <<"bet", "0", "long">>, <<"bet", "0">>, <<"bet">>, <<"thanks">>}

\* Users are interchangeable: no action orders them.
UserSymmetry == Permutations(Users)

=============================================================================
