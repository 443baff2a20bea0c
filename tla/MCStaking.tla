----------------------------- MODULE MCStaking -----------------------------
(***************************************************************************)
(* Instances of Staking for TLC.                                           *)
(***************************************************************************)
EXTENDS Staking, TLC

Terms(name, days, each, all, min, max) ==
  [NoOffer EXCEPT !.name = name, !.duration = days, !.amount_per_account = each,
                  !.maximum_amount_limit = all, !.minimum_yield = min,
                  !.maximum_yield = max]

\* A flexible and a fixed-term product with limits, and a range of yields.
Limited == {Terms("normal", 0, 0, 30, 1, 1), Terms("fixed", 1, 14, 35, 1, 3)}

\* A fixed-term product that pays LEM, and one with a price prediction.
Rewarding == {[Terms("fixed", 2, 0, 0, 1, 1) EXCEPT !.has_lem_rewards = TRUE],
              [Terms("predict", 1, 0, 0, 1, 3) EXCEPT !.has_prediction = TRUE]}

\* A fixed-term product whose yield the manager may change.
Adjustable == {Terms("fixed", 2, 0, 0, 1, 3)}

\* A fixed-term product with LEM, long enough to cross a half-life.
Crossing == {[Terms("fixed", 5, 0, 0, 1, 1) EXCEPT !.has_lem_rewards = TRUE]}

\* Owners are interchangeable: no action orders them.
UserSymmetry == Permutations(Users)

=============================================================================
