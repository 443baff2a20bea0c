--------------------------- MODULE BettingProofs ---------------------------
(***************************************************************************)
(* Theorems about the betting games, for any number of users and games.    *)
(*                                                                         *)
(* The inductive invariant IInv adds to the type invariant what each row   *)
(* of the bettings table satisfies (GoodRow) and the solvency of the       *)
(* contract account.  The solvency is not inductive by itself: that a      *)
(* game's winners are paid out of the game's own pot needs the totals to   *)
(* match the lists of betters, and a game that goes live must be empty.    *)
(***************************************************************************)
EXTENDS Betting, AmountTheorems

\* What every row of the bettings table satisfies.
GoodRow(game) ==
  /\ game \in betting
  /\ \A s \in Sides : game.amount[s] = Total(game.betters[s])
  /\ Betters(game, "long") \cap Betters(game, "short") = {}
  /\ game.status \in {"ABSENT", "NOT_STARTED"} => game.betters = NoBets
  /\ game.status \in {"BETTING_FINISH", "NOT_CLAIMED"} =>
       \A s \in Sides : Betters(game, s) # {}

Pots == [id \in BetIds |-> Pot(bettings[id])]

RowInv ==
  /\ TypeOK
  /\ \A id \in BetIds : GoodRow(bettings[id])

IInv == RowInv /\ Solvency

\* What the contract account holds besides the pots.
Spare == vault - Total(Pots)

\* What the transactions of a game do: none spends more than a pot loses.
RowsKept == RowInv' /\ Spare' >= Spare

-----------------------------------------------------------------------------
(***************************************************************************)
(* The tables of the model.                                                *)
(***************************************************************************)
\* The keys of the bettings table are finitely many.
LEMMA BetIdsFinite == IsFiniteSet(BetIds)
<1>1. 0 \in Int /\ MaxBetId \in Int
  BY BettingAssumption
<1> QED BY <1>1, FS_Interval DEF BetIds

\* createbet never takes the key of a row that exists.
LEMMA AvailableKeyIsFree ==
  ASSUME AvailableKey <= MaxBetId
  PROVE  AvailableKey \in BetIds /\ bettings[AvailableKey].status = "ABSENT"
<1>1. MaxBetId \in Nat
  BY BettingAssumption
<1>2. CASE Rows = {}
  <2>1. AvailableKey = 0 /\ 0 \in BetIds
    BY <1>1, <1>2 DEF AvailableKey, BetIds
  <2> QED BY <1>2, <2>1 DEF Rows
<1>3. CASE Rows # {}
  <2>1. Rows \subseteq Nat /\ IsFiniteSet(Rows)
    <3>1. Rows \in SUBSET BetIds
      BY DEF Rows
    <3>2. IsFiniteSet(Rows)
      BY <3>1, BetIdsFinite, FS_Subset
    <3>3. BetIds \subseteq Nat
      BY <1>1 DEF BetIds
    <3> QED BY <3>1, <3>2, <3>3
  <2>2. \E i \in Rows : \A j \in Rows : j <= i
    BY <1>3, <2>1, LargestElement
  <2> DEFINE max == CHOOSE i \in Rows : \A j \in Rows : j <= i
  <2>3. max \in Rows /\ \A j \in Rows : j <= max
    BY <2>2
  <2>4. AvailableKey = 1 + max
    BY <1>3 DEF AvailableKey
  <2> HIDE DEF max
  <2>5. max \in Nat
    BY <2>1, <2>3
  <2>6. AvailableKey \in BetIds
    BY <1>1, <2>4, <2>5 DEF BetIds
  <2>7. AvailableKey \notin Rows
    BY <2>3, <2>4, <2>5
  <2> QED BY <2>6, <2>7 DEF Rows
<1> QED BY <1>2, <1>3

\* The pot of a row is a number.
LEMMA PotNat ==
  ASSUME NEW game \in betting
  PROVE  Pot(game) \in Nat
  BY DEF Pot, betting, Sides

\* The pots of a table have a total.
LEMMA PotsTotal ==
  ASSUME NEW table \in [BetIds -> betting]
  PROVE  Total([id \in BetIds |-> Pot(table[id])]) \in Nat
<1>1. [id \in BetIds |-> Pot(table[id])] \in [BetIds -> Nat]
  BY PotNat
<1> QED BY <1>1, BetIdsFinite, TotalNat

\* A total of bets is a number, and 0 if nobody has bet.
LEMMA BetsTotal ==
  /\ \A f \in [Users -> Nat] : Total(f) \in Nat
  /\ \A s \in Sides : Total(NoBets[s]) = 0
<1>1. IsFiniteSet(Users)
  BY BettingAssumption
<1>2. \A f \in [Users -> Nat] : Total(f) \in Nat
  BY <1>1, TotalNat
<1>3. Total([u \in Users |-> 0]) = 0
  BY <1>1, TotalZero
<1> QED BY <1>2, <1>3 DEF NoBets

\* A row nobody has bet on holds nothing, whatever its status.
LEMMA EmptyPot ==
  ASSUME NEW game, GoodRow(game), game.betters = NoBets
  PROVE  game.amount["long"] = 0 /\ game.amount["short"] = 0
  BY BetsTotal DEF GoodRow, Sides

-----------------------------------------------------------------------------
(***************************************************************************)
(* Every transaction that touches a game replaces one row, and changes the *)
(* contract's balance at least by the change of that row's pot.            *)
(***************************************************************************)
LEMMA ReplaceRow ==
  ASSUME RowInv, NEW id \in BetIds, NEW game, GoodRow(game),
         bettings' = [bettings EXCEPT ![id] = game],
         now' \in Nat, btc_price' \in Nat,
         wallet' \in [Users -> Nat], vault' \in Nat,
         vault' >= vault - Pot(bettings[id]) + Pot(game)
  PROVE  RowsKept
<1>1. bettings \in [BetIds -> betting]
  BY DEF RowInv, TypeOK
<1>2. bettings' \in [BetIds -> betting] /\ \A i \in BetIds : GoodRow(bettings'[i])
  BY <1>1 DEF RowInv, GoodRow
<1>3. Pots \in [BetIds -> Nat] /\ Pots[id] = Pot(bettings[id])
  BY <1>1, PotNat DEF Pots
<1>4. Pot(game) \in Nat /\ Pot(bettings[id]) \in Nat
  BY <1>1, PotNat DEF GoodRow
<1>5. [i \in BetIds |-> Pot(bettings'[i])] = [Pots EXCEPT ![id] = Pot(game)]
  BY <1>1 DEF Pots
<1>6. Total([i \in BetIds |-> Pot(bettings'[i])]) = Total(Pots) - Pots[id] + Pot(game)
  BY <1>3, <1>4, <1>5, BetIdsFinite, TotalUpdate
<1>7. Total(Pots) \in Nat
  BY <1>3, BetIdsFinite, TotalNat
<1>8. vault \in Nat
  BY DEF RowInv, TypeOK
<1>9. [i \in BetIds |-> Pot(bettings'[i])] = Pots'
  BY DEF Pots, Pot, Unsettled
<1>10. Total(Pots') = Total(Pots) - Pot(bettings[id]) + Pot(game)
  BY <1>3, <1>6, <1>9
<1>11. Spare' >= Spare
  <2>1. Spare' = vault' - Total(Pots')
    BY DEF Spare, Total, Units
  <2> QED BY <1>4, <1>7, <1>8, <1>10, <2>1 DEF Spare
<1>12. TypeOK'
  BY <1>2 DEF TypeOK
<1>13. \A i \in BetIds : GoodRow(bettings[i])'
  BY <1>2 DEF GoodRow, Betters
<1>14. RowInv'
  BY <1>12, <1>13 DEF RowInv
<1> QED BY <1>11, <1>14 DEF RowsKept

-----------------------------------------------------------------------------
(***************************************************************************)
(* What a settled game pays.                                               *)
(***************************************************************************)
\* The winner's share is at most the proportional part of the losers' total,
\* whether or not the product overflows.
LEMMA ShareBound ==
  ASSUME NEW q \in Nat, NEW l \in Nat, NEW w \in Nat \ {0}
  PROVE  Share(q, l, w) \in Nat /\ w * Share(q, l, w) <= q * l
<1> DEFINE product == q * l
           wrapped == product % U64
           part == wrapped \div w
<1>1. U64 \in Nat \ {0}
  BY BettingAssumption
<1>2. product \in Nat
  OBVIOUS
<1>3. wrapped \in Nat /\ wrapped <= product
  <2> HIDE DEF product
  <2>1. product \div U64 \in Nat /\ product % U64 \in 0 .. (U64 - 1)
        /\ product = U64 * (product \div U64) + (product % U64)
    BY <1>1, <1>2, DivMod
  <2>2. U64 * (product \div U64) \in Nat
    BY <1>1, <2>1
  <2> QED BY <2>1, <2>2
<1>4. part \in Nat /\ w * part <= wrapped
  <2> HIDE DEF wrapped
  <2>1. part \in Nat /\ wrapped % w \in Nat /\ wrapped = w * part + (wrapped % w)
    BY <1>3, DivMod
  <2>2. w * part \in Nat
    BY <2>1
  <2> QED BY <2>1, <2>2
<1>5. Share(q, l, w) = BettingRatio(part)
  BY DEF Share
<1> HIDE DEF product, wrapped, part
<1>6. BettingRatio(part) \in Nat /\ BettingRatio(part) <= part
  BY <1>4 DEF BettingRatio
<1>7. BettingRatio(part) * w <= part * w
  BY <1>4, <1>6, ProductMonotone
<1>8. /\ BettingRatio(part) * w = w * BettingRatio(part)
      /\ part * w = w * part
      /\ w * BettingRatio(part) \in Nat
  BY <1>4, <1>6
<1>9. w * part \in Nat
  BY <1>4
<1>10. w * BettingRatio(part) <= product
  BY <1>2, <1>3, <1>4, <1>7, <1>8, <1>9
<1> QED BY <1>5, <1>6, <1>10 DEF product

\* The winners of a game that has any are paid out of the game's own pot.
LEMMA PayoutBound ==
  ASSUME NEW game, GoodRow(game), \A s \in Sides : Betters(game, s) # {}
  PROVE  /\ Payout(game) \in [Users -> Nat]
         /\ Total(Payout(game)) <= game.amount["long"] + game.amount["short"]
<1> DEFINE win == WinSide(game)
           bets == game.betters[win]
           w == game.amount[win]
           l == game.amount[Other(win)]
<1>1. win \in Sides /\ Other(win) \in Sides /\ Other(win) # win
  BY DEF WinSide, Sides, Other
<1>2. /\ bets \in [Users -> Nat] /\ w \in Nat /\ l \in Nat /\ w = Total(bets)
      /\ w + l = game.amount["long"] + game.amount["short"]
  BY <1>1 DEF GoodRow, betting, Sides
<1>3. IsFiniteSet(Users)
  BY BettingAssumption
<1>4. w # 0
  <2>1. PICK u \in Users : bets[u] > 0
    BY <1>1 DEF Betters
  <2> HIDE DEF bets, w
  <2>2. bets[u] <= w
    BY <1>2, <1>3, TotalMember
  <2> QED BY <1>2, <2>1, <2>2
<1> DEFINE pay(u) == IF bets[u] > 0 THEN bets[u] + Share(bets[u], l, w) ELSE 0
<1>5. Payout(game) = [u \in Users |-> pay(u)]
  BY DEF Payout, Betters
<1> HIDE DEF bets, l, w, win
<1>6. ASSUME NEW u \in Users
      PROVE  pay(u) \in Nat /\ w * pay(u) <= (w + l) * bets[u]
  <2>1. bets[u] \in Nat /\ w \in Nat \ {0}
    BY <1>2, <1>4
  <2>2. Share(bets[u], l, w) \in Nat /\ w * Share(bets[u], l, w) <= bets[u] * l
    BY <1>2, <2>1, ShareBound
  <2>3. w * (bets[u] + Share(bets[u], l, w)) = w * bets[u] + w * Share(bets[u], l, w)
    BY <1>2, <2>1, <2>2
  <2>4. (w + l) * bets[u] = w * bets[u] + bets[u] * l
    BY <1>2, <2>1
  <2>5. w * bets[u] \in Nat /\ bets[u] * l \in Nat /\ w * Share(bets[u], l, w) \in Nat
    BY <1>2, <2>1, <2>2
  <2>6. w * 0 = 0
    BY <2>1
  <2> QED BY <2>1, <2>2, <2>3, <2>4, <2>5, <2>6
<1> DEFINE p == [u \in Users |-> pay(u)]
<1>7. p \in [Users -> Nat] /\ \A u \in Users : w * p[u] <= (w + l) * bets[u]
  BY <1>6
<1> HIDE DEF p
<1>8. w * Total(p) <= (w + l) * Total(bets)
  <2>1. w + l \in Nat \ {0}
    BY <1>2, <1>4
  <2> QED BY <1>2, <1>3, <1>7, <2>1, TotalScale
<1>9. Total(p) \in Nat
  BY <1>3, <1>7, TotalNat
<1>10. Total(p) <= w + l
  <2>1. SUFFICES ASSUME w + l + 1 <= Total(p) PROVE FALSE
    BY <1>2, <1>9
  <2>2. (w + l + 1) * w <= Total(p) * w
    BY <1>2, <1>9, <2>1, ProductMonotone
  <2>3. (w + l + 1) * w = (w + l) * w + w /\ Total(p) * w = w * Total(p)
    BY <1>2, <1>9
  <2>4. (w + l) * w \in Nat /\ w * Total(p) \in Nat
    BY <1>2, <1>9
  <2> QED BY <1>2, <1>4, <1>8, <2>2, <2>3, <2>4
<1> QED BY <1>2, <1>5, <1>7, <1>10 DEF p

-----------------------------------------------------------------------------
(***************************************************************************)
(* The invariant holds at the start and every transaction keeps it.        *)
(***************************************************************************)
\* A game that was just created, and the absence of a row, are good rows.
LEMMA NewRows ==
  /\ \A s, b, e \in Nat : GoodRow(NewBet(s, b, e)) /\ Pot(NewBet(s, b, e)) = 0
  /\ GoodRow(NoRow) /\ Pot(NoRow) = 0
<1>1. NoBets \in [Sides -> [Users -> Nat]]
  BY DEF NoBets
<1>2. \A s \in Sides : Total(NoBets[s]) = 0
  BY BetsTotal
<1>3. ASSUME NEW s \in Nat, NEW b \in Nat, NEW e \in Nat
      PROVE  GoodRow(NewBet(s, b, e))
  <2>1. NewBet(s, b, e) \in betting
    BY <1>1 DEF NewBet, betting, Statuses
  <2>2. Betters(NewBet(s, b, e), "long") = {}
    BY DEF NewBet, Betters, NoBets, Sides
  <2> QED BY <1>2, <2>1, <2>2 DEF NewBet, GoodRow
<1>4. GoodRow(NoRow)
  <2>1. NoRow \in betting
    <3>1. NewBet(0, 0, 0) \in betting
      BY <1>3 DEF GoodRow
    <3> QED BY <3>1 DEF NoRow, betting
  <2>2. Betters(NoRow, "long") = {}
    BY DEF NoRow, NewBet, Betters, NoBets, Sides
  <2> QED BY <1>2, <2>1, <2>2 DEF NoRow, NewBet, GoodRow
<1> QED BY <1>3, <1>4 DEF NewBet, NoRow, Pot, Unsettled

LEMMA InitInv == Init => IInv
<1> SUFFICES ASSUME Init PROVE IInv
  OBVIOUS
<1>1. \A id \in BetIds : bettings[id] = NoRow
  BY DEF Init
<1>2. \A id \in BetIds : GoodRow(bettings[id]) /\ Pot(bettings[id]) = 0
  BY <1>1, NewRows
<1>3. TypeOK
  <2>1. bettings \in [BetIds -> betting]
    BY NewRows DEF Init, GoodRow
  <2> QED BY <2>1, BettingAssumption DEF Init, TypeOK
<1>4. Solvency
  <2>1. [id \in BetIds |-> Pot(bettings[id])] = [id \in BetIds |-> 0]
    BY <1>2
  <2>2. Total([id \in BetIds |-> Pot(bettings[id])]) = 0
    BY <2>1, BetIdsFinite, TotalZero
  <2>3. Reserve \in Nat
    BY BettingAssumption
  <2> QED BY <2>2, <2>3 DEF Init, Solvency
<1> QED BY <1>2, <1>3, <1>4 DEF IInv, RowInv

\* A change of status, and of prices, that keeps the bets.
LEMMA ChangeStatus ==
  ASSUME RowInv, NEW id \in BetIds, NEW game \in betting,
         game.betters = bettings[id].betters, game.amount = bettings[id].amount,
         game.status \notin {"ABSENT", "NOT_STARTED"},
         game.status \in {"BETTING_FINISH", "NOT_CLAIMED"} =>
           \A s \in Sides : Betters(bettings[id], s) # {},
         bettings' = [bettings EXCEPT ![id] = game],
         now' = now, btc_price' = btc_price,
         wallet' \in [Users -> Nat], vault' \in Nat,
         vault' >= vault - Pot(bettings[id]) + Pot(game)
  PROVE  RowsKept
<1>1. GoodRow(bettings[id])
  BY DEF RowInv
<1>2. GoodRow(game)
  BY <1>1 DEF GoodRow, Betters
<1>3. now' \in Nat /\ btc_price' \in Nat
  BY DEF RowInv, TypeOK
<1> QED BY <1>2, <1>3, ReplaceRow

LEMMA CreatebetInv ==
  ASSUME RowInv, NEW t \in Schedules, createbet(t[1], t[2], t[3])
  PROVE  RowsKept
<1> DEFINE id == AvailableKey
           game == NewBet(t[1], t[2], t[3])
<1>1. t[1] \in Nat /\ t[2] \in Nat /\ t[3] \in Nat
  BY BettingAssumption
<1>2. id \in BetIds /\ bettings[id].status = "ABSENT"
  BY AvailableKeyIsFree DEF createbet
<1>3. Pot(bettings[id]) = 0
  BY <1>2 DEF Pot, Unsettled
<1>4. GoodRow(game) /\ Pot(game) = 0
  BY <1>1, NewRows
<1>5. bettings' = [bettings EXCEPT ![id] = game] /\ UNCHANGED <<now, btc_price, wallet, vault>>
  BY DEF createbet
<1>6. now' \in Nat /\ btc_price' \in Nat /\ wallet' \in [Users -> Nat] /\ vault' \in Nat
      /\ vault' = vault
  BY <1>5 DEF RowInv, TypeOK
<1> HIDE DEF id, game
<1>7. vault' >= vault - Pot(bettings[id]) + Pot(game)
  BY <1>3, <1>4, <1>6
<1> QED BY <1>2, <1>4, <1>5, <1>6, <1>7, ReplaceRow

LEMMA SetLiveInv ==
  ASSUME RowInv, NEW id \in BetIds, SetLive(id)
  PROVE  RowsKept
<1> DEFINE game == [bettings[id] EXCEPT !.status = "IS_LIVE", !.base_price = btc_price]
<1>1. bettings[id] \in betting /\ GoodRow(bettings[id]) /\ TypeOK
  BY DEF RowInv, TypeOK
<1>2. /\ game \in betting /\ game.status = "IS_LIVE"
      /\ game.betters = bettings[id].betters /\ game.amount = bettings[id].amount
  BY <1>1 DEF betting, Statuses, TypeOK
<1>3. Pot(game) = 0 /\ Pot(bettings[id]) = 0
  <2>1. bettings[id].betters = NoBets /\ bettings[id].status = "NOT_STARTED"
    BY <1>1 DEF SetLive, GoodRow
  <2>2. bettings[id].amount["long"] = 0 /\ bettings[id].amount["short"] = 0
    BY <1>1, <2>1, EmptyPot
  <2> HIDE DEF game
  <2> QED BY <1>2, <2>1, <2>2 DEF Pot, Unsettled
<1>4. bettings' = [bettings EXCEPT ![id] = game] /\ UNCHANGED <<now, btc_price, wallet, vault>>
  BY <1>1 DEF SetLive, TypeOK
<1> HIDE DEF game
<1>5. wallet' \in [Users -> Nat] /\ vault' \in Nat /\ vault' = vault
  BY <1>1, <1>4 DEF TypeOK
<1>6. vault' >= vault - Pot(bettings[id]) + Pot(game)
  BY <1>3, <1>5
<1> QED BY <1>2, <1>4, <1>5, <1>6, ChangeStatus

LEMMA SetBettingFinishInv ==
  ASSUME RowInv, NEW id \in BetIds, SetBettingFinish(id)
  PROVE  RowsKept
<1> DEFINE game == [bettings[id] EXCEPT !.status = "BETTING_FINISH"]
<1>1. bettings[id] \in betting /\ TypeOK
  BY DEF RowInv, TypeOK
<1>2. /\ game \in betting /\ game.status = "BETTING_FINISH"
      /\ game.betters = bettings[id].betters /\ game.amount = bettings[id].amount
  BY <1>1 DEF betting, Statuses
<1>3. \A s \in Sides : Betters(bettings[id], s) # {}
  BY DEF SetBettingFinish, TwoSided, Sides
<1>4. bettings' = [bettings EXCEPT ![id] = game] /\ UNCHANGED <<now, btc_price, wallet, vault>>
  BY <1>1 DEF SetBettingFinish, TypeOK
<1> HIDE DEF game
<1>5. Pot(game) = Pot(bettings[id]) /\ Pot(game) \in Nat
  BY <1>2, PotNat DEF Pot, Unsettled, SetBettingFinish, MayFinishBetting
<1>6. wallet' \in [Users -> Nat] /\ vault' \in Nat /\ vault' = vault
  BY <1>1, <1>4 DEF TypeOK
<1>7. vault' >= vault - Pot(bettings[id]) + Pot(game)
  BY <1>5, <1>6
<1> QED BY <1>2, <1>3, <1>4, <1>6, <1>7, ChangeStatus

LEMMA SetNotClaimedInv ==
  ASSUME RowInv, NEW id \in BetIds, SetNotClaimed(id)
  PROVE  RowsKept
<1> DEFINE game == [bettings[id] EXCEPT !.status = "NOT_CLAIMED", !.final_price = btc_price]
<1>1. bettings[id] \in betting /\ GoodRow(bettings[id]) /\ TypeOK
  BY DEF RowInv, TypeOK
<1>2. /\ game \in betting /\ game.status = "NOT_CLAIMED"
      /\ game.betters = bettings[id].betters /\ game.amount = bettings[id].amount
  BY <1>1 DEF betting, Statuses, TypeOK
<1>3. \A s \in Sides : Betters(bettings[id], s) # {}
  BY <1>1 DEF SetNotClaimed, GoodRow
<1>4. bettings' = [bettings EXCEPT ![id] = game] /\ UNCHANGED <<now, btc_price, wallet, vault>>
  BY <1>1 DEF SetNotClaimed, TypeOK
<1> HIDE DEF game
<1>5. Pot(game) = Pot(bettings[id]) /\ Pot(game) \in Nat
  BY <1>2, PotNat DEF Pot, Unsettled, SetNotClaimed
<1>6. wallet' \in [Users -> Nat] /\ vault' \in Nat /\ vault' = vault
  BY <1>1, <1>4 DEF TypeOK
<1>7. vault' >= vault - Pot(bettings[id]) + Pot(game)
  BY <1>5, <1>6
<1> QED BY <1>2, <1>3, <1>4, <1>6, <1>7, ChangeStatus

\* A payment by the contract account keeps the types of the LED balances.
LEMMA PayType ==
  ASSUME TypeOK, NEW pays \in [Users -> Nat], Pay(pays)
  PROVE  wallet' \in [Users -> Nat] /\ vault' \in Nat /\ vault' = vault - Total(pays)
<1>1. Total(pays) \in Nat
  BY BetsTotal
<1>2. Total(pays) <= vault /\ vault \in Nat /\ vault' = vault - Total(pays)
  BY DEF Pay, TypeOK
<1>3. wallet' \in [Users -> Nat]
  BY DEF Pay, TypeOK
<1> QED BY <1>1, <1>2, <1>3

LEMMA SetNoGameInv ==
  ASSUME RowInv, NEW id \in BetIds, SetNoGame(id)
  PROVE  RowsKept
<1> DEFINE game == [bettings[id] EXCEPT !.status = "NO_GAME", !.final_price = btc_price]
           short == bettings[id].betters["short"]
           long == bettings[id].betters["long"]
<1>1. bettings[id] \in betting /\ GoodRow(bettings[id]) /\ TypeOK
  BY DEF RowInv, TypeOK
<1>2. /\ game \in betting /\ game.status = "NO_GAME"
      /\ game.betters = bettings[id].betters /\ game.amount = bettings[id].amount
  BY <1>1 DEF betting, Statuses, TypeOK
<1>3. short \in [Users -> Nat] /\ long \in [Users -> Nat]
  BY <1>1 DEF betting, Sides
<1>4. Total(Refund(bettings[id])) = Pot(bettings[id])
  <2>1. Total(Refund(bettings[id])) = Total(short) + Total(long)
    BY <1>3, BettingAssumption, TotalAdd DEF Refund
  <2>2. Total(short) \in Nat /\ Total(long) \in Nat
    BY <1>3, BetsTotal
  <2>3. /\ bettings[id].amount["short"] = Total(short)
        /\ bettings[id].amount["long"] = Total(long)
    BY <1>1 DEF GoodRow, Sides
  <2>4. Pot(bettings[id]) = bettings[id].amount["long"] + bettings[id].amount["short"]
    BY DEF SetNoGame, MayFinishBetting, Pot, Unsettled
  <2> HIDE DEF short, long
  <2> QED BY <2>1, <2>2, <2>3, <2>4
<1>5. Refund(bettings[id]) \in [Users -> Nat]
  BY <1>3 DEF Refund
<1>6. bettings' = [bettings EXCEPT ![id] = game] /\ UNCHANGED <<now, btc_price>>
  BY <1>1 DEF SetNoGame, TypeOK
<1> HIDE DEF game
<1>7. /\ wallet' \in [Users -> Nat] /\ vault' \in Nat
      /\ vault' = vault - Total(Refund(bettings[id]))
  BY <1>1, <1>5, PayType DEF SetNoGame
<1>8. Pot(game) = 0 /\ Pot(bettings[id]) \in Nat /\ vault \in Nat
  BY <1>1, <1>2, PotNat DEF Pot, Unsettled, TypeOK
<1>9. vault' >= vault - Pot(bettings[id]) + Pot(game)
  BY <1>4, <1>7, <1>8
<1> QED BY <1>2, <1>6, <1>7, <1>9, ChangeStatus

LEMMA ClaimbetInv ==
  ASSUME RowInv, NEW id \in BetIds, claimbet(id)
  PROVE  RowsKept
<1> DEFINE game == [bettings[id] EXCEPT !.status = "FINISHED"]
<1>1. bettings[id] \in betting /\ GoodRow(bettings[id]) /\ TypeOK
  BY DEF RowInv, TypeOK
<1>2. /\ game \in betting /\ game.status = "FINISHED"
      /\ game.betters = bettings[id].betters /\ game.amount = bettings[id].amount
  BY <1>1 DEF betting, Statuses
<1>3. /\ Payout(bettings[id]) \in [Users -> Nat]
      /\ Total(Payout(bettings[id])) <= Pot(bettings[id])
  <2>1. \A s \in Sides : Betters(bettings[id], s) # {}
    BY DEF claimbet, TwoSided, Sides
  <2>2. Pot(bettings[id]) = bettings[id].amount["long"] + bettings[id].amount["short"]
    BY DEF claimbet, Pot, Unsettled
  <2> QED BY <1>1, <2>1, <2>2, PayoutBound
<1>4. bettings' = [bettings EXCEPT ![id] = game] /\ UNCHANGED <<now, btc_price>>
  BY <1>1 DEF claimbet, TypeOK
<1> HIDE DEF game
<1>5. /\ wallet' \in [Users -> Nat] /\ vault' \in Nat
      /\ vault' = vault - Total(Payout(bettings[id]))
  BY <1>1, <1>3, PayType DEF claimbet
<1>6. Pot(game) = 0 /\ Pot(bettings[id]) \in Nat /\ vault \in Nat
      /\ Total(Payout(bettings[id])) \in Nat
  BY <1>1, <1>2, <1>3, PotNat, BetsTotal DEF Pot, Unsettled, TypeOK
<1>7. vault' >= vault - Pot(bettings[id]) + Pot(game)
  BY <1>3, <1>5, <1>6
<1> QED BY <1>2, <1>4, <1>5, <1>7, ChangeStatus

LEMMA RmbetInv ==
  ASSUME RowInv, NEW id \in BetIds, rmbet(id)
  PROVE  RowsKept
<1>1. Pot(bettings[id]) = 0
  BY DEF rmbet, Pot, Unsettled
<1>2. /\ now' \in Nat /\ btc_price' \in Nat /\ wallet' \in [Users -> Nat]
      /\ vault' \in Nat /\ vault' = vault
  BY DEF rmbet, RowInv, TypeOK
<1>3. bettings' = [bettings EXCEPT ![id] = NoRow]
  BY DEF rmbet
<1>4. GoodRow(NoRow) /\ Pot(NoRow) = 0
  BY NewRows
<1>5. vault' >= vault - Pot(bettings[id]) + Pot(NoRow)
  BY <1>1, <1>2, <1>4
<1> QED BY <1>2, <1>3, <1>4, <1>5, ReplaceRow

LEMMA BetInv ==
  ASSUME RowInv, NEW u \in Users, NEW q \in Quantities, NEW id \in BetIds,
         NEW p \in Sides, bet(u, q, id, p)
  PROVE  RowsKept
<1> DEFINE old == bettings[id]
           game == AddBetter(old, u, q, p)
<1>1. old \in betting /\ GoodRow(old) /\ TypeOK
  BY DEF RowInv, TypeOK
<1>2. q \in Nat \ {0}
  BY BettingAssumption
<1>3. old.betters[p] \in [Users -> Nat] /\ old.betters[p][u] = 0
  <2>1. old.betters[p] \in [Users -> Nat]
    BY <1>1 DEF betting
  <2>2. ~(old.betters[p][u] > 0)
    BY DEF bet, AlreadyBet, Betters
  <2> QED BY <2>1, <2>2
<1> DEFINE bets == [old.betters EXCEPT ![p][u] = q]
           amount == [old.amount EXCEPT ![p] = @ + q]
<1>4. /\ game.betters = bets /\ game.amount = amount /\ game.status = "IS_LIVE"
      /\ old.status = "IS_LIVE"
  BY <1>1 DEF AddBetter, bet, betting
<1>5. bets \in [Sides -> [Users -> Nat]] /\ amount \in [Sides -> Nat]
  BY <1>1, <1>2 DEF betting
<1>6. game \in betting
  <2>1. amount["long"] + amount["short"] \in Nat
    BY <1>5 DEF Sides
  <2>2. \A s \in Sides : Dividend(amount["long"] + amount["short"], amount[s]) \in Nat \X (Nat \ {0})
    BY <1>5, <2>1 DEF Dividend
  <2> QED BY <1>1, <1>5, <2>2 DEF AddBetter, betting
<1>7. \A s \in Sides : game.amount[s] = Total(game.betters[s])
  <2> SUFFICES ASSUME NEW s \in Sides PROVE amount[s] = Total(bets[s])
    BY <1>4
  <2>1. old.amount[s] = Total(old.betters[s])
    BY <1>1 DEF GoodRow
  <2>2. CASE s = p
    <3>1. bets[s] = [old.betters[p] EXCEPT ![u] = q]
      BY <1>1, <2>2 DEF betting
    <3>2. Total(bets[s]) = Total(old.betters[p]) - 0 + q
      BY <1>2, <1>3, <3>1, BettingAssumption, TotalUpdate
    <3>3. Total(old.betters[p]) \in Nat
      BY <1>3, BetsTotal
    <3>4. amount[s] = old.amount[p] + q
      BY <1>1, <2>2 DEF betting
    <3> QED BY <1>2, <2>1, <2>2, <3>2, <3>3, <3>4
  <2>3. CASE s # p
    BY <1>1, <2>1, <2>3 DEF betting
  <2> QED BY <2>2, <2>3
<1>8. Betters(game, "long") \cap Betters(game, "short") = {}
  <2>1. \A s \in Sides : u \notin Betters(old, s)
    BY DEF bet, AlreadyBet
  <2>2. \A s \in Sides : Betters(game, s) \subseteq Betters(old, s) \cup {u}
    BY <1>1, <1>4 DEF Betters, betting
  <2>3. \A s \in Sides : s # p => Betters(game, s) = Betters(old, s)
    BY <1>1, <1>4 DEF Betters, betting
  <2>4. Betters(old, "long") \cap Betters(old, "short") = {}
    BY <1>1 DEF GoodRow
  <2> HIDE DEF game, old
  <2> QED BY <2>1, <2>2, <2>3, <2>4 DEF Sides
<1>9. GoodRow(game)
  BY <1>4, <1>6, <1>7, <1>8 DEF GoodRow
<1>10. Pot(game) = Pot(old) + q /\ Pot(old) \in Nat
  <2>1. /\ Pot(game) = amount["long"] + amount["short"]
        /\ Pot(old) = old.amount["long"] + old.amount["short"]
    BY <1>4 DEF Pot, Unsettled
  <2>2. old.amount["long"] \in Nat /\ old.amount["short"] \in Nat
    BY <1>1 DEF betting, Sides
  <2>3. \/ amount["long"] = old.amount["long"] + q /\ amount["short"] = old.amount["short"]
        \/ amount["short"] = old.amount["short"] + q /\ amount["long"] = old.amount["long"]
    BY <1>1 DEF betting, Sides
  <2> HIDE DEF old, game, amount
  <2> QED BY <1>2, <2>1, <2>2, <2>3
<1>11. bettings' = [bettings EXCEPT ![id] = game]
  BY <1>1 DEF bet, TypeOK
<1>12. /\ now' \in Nat /\ btc_price' \in Nat
       /\ wallet' \in [Users -> Nat]
       /\ vault' = vault + q /\ vault \in Nat
  BY <1>1, <1>2 DEF bet, TypeOK
<1> HIDE DEF game, old
<1>13. vault' \in Nat /\ vault' >= vault - Pot(bettings[id]) + Pot(game)
  BY <1>2, <1>10, <1>12 DEF old
<1> QED BY <1>9, <1>11, <1>12, <1>13, ReplaceRow

\* Time and the BTC price do not enter the invariant.
LEMMA RestInv ==
  ASSUME RowInv, now' \in Nat, btc_price' \in Nat, UNCHANGED <<bettings, wallet, vault>>
  PROVE  RowsKept
<1>1. RowInv'
  BY DEF RowInv, TypeOK, GoodRow, Betters
<1>2. Spare' = Spare
  BY DEF Spare, Pots, Pot, Unsettled, Total, Units
<1>3. Spare \in Int
  BY PotsTotal DEF RowInv, TypeOK, Spare, Pots
<1> QED BY <1>1, <1>2, <1>3 DEF RowsKept

LEMMA RowsStep ==
  ASSUME RowInv, [Next]_vars
  PROVE  RowsKept
<1>1. now \in Nat /\ btc_price \in Nat
  BY DEF RowInv, TypeOK
<1>2. CASE Tick
  BY <1>1, <1>2, RestInv DEF Tick
<1>3. ASSUME NEW p \in Prices, setbtcprice(p) PROVE RowsKept
  BY <1>1, <1>3, BettingAssumption, RestInv DEF setbtcprice
<1>4. ASSUME NEW t \in Schedules, createbet(t[1], t[2], t[3]) PROVE RowsKept
  BY <1>4, CreatebetInv
<1>5. ASSUME NEW id \in BetIds, setbet(id) PROVE RowsKept
  BY <1>5, SetLiveInv, SetBettingFinishInv, SetNoGameInv, SetNotClaimedInv DEF setbet
<1>6. ASSUME NEW id \in BetIds, claimbet(id) PROVE RowsKept
  BY <1>6, ClaimbetInv
<1>7. ASSUME NEW id \in BetIds, rmbet(id) PROVE RowsKept
  BY <1>7, RmbetInv
<1>8. ASSUME NEW u \in Users, NEW q \in Quantities, NEW id \in BetIds, NEW p \in Sides,
             bet(u, q, id, p)
      PROVE  RowsKept
  BY <1>8, BetInv
<1>9. CASE UNCHANGED vars
  BY <1>1, <1>9, RestInv DEF vars
<1> QED BY <1>2, <1>3, <1>4, <1>5, <1>6, <1>7, <1>8, <1>9 DEF Next

\* So every step preserves the rows and the solvency.
LEMMA NextInv ==
  ASSUME IInv, [Next]_vars
  PROVE  IInv'
<1>1. RowInv /\ RowsKept
  BY RowsStep DEF IInv
<1> DEFINE pots == Total([id \in BetIds |-> Pot(bettings[id])])
<1>2. pots \in Nat /\ vault \in Nat /\ Spare = vault - pots
  BY <1>1, PotsTotal DEF RowInv, TypeOK, Spare, Pots
<1>3. pots' \in Nat /\ vault' \in Nat /\ Spare' = vault' - pots'
  <2>1. pots' = Total([id \in BetIds |-> Pot(bettings'[id])])
    BY DEF Pot, Unsettled, Total, Units
  <2>2. bettings' \in [BetIds -> betting] /\ vault' \in Nat
    BY <1>1 DEF RowsKept, RowInv, TypeOK
  <2>3. Spare' = vault' - pots'
    BY DEF Spare, Pots
  <2> QED BY <2>1, <2>2, <2>3, PotsTotal
<1>4. Reserve \in Nat /\ vault >= Reserve + pots
  BY BettingAssumption DEF IInv, Solvency
<1>5. vault' >= Reserve + pots'
  <2>1. PICK p \in Nat, n \in Nat : p = pots /\ n = pots'
    BY <1>2, <1>3
  <2>2. vault \in Nat /\ vault' \in Nat /\ vault' - n >= vault - p /\ vault >= Reserve + p
    BY <1>1, <1>2, <1>3, <1>4, <2>1 DEF RowsKept
  <2>3. vault' >= Reserve + n
    BY <1>4, <2>1, <2>2
  <2> QED BY <2>1, <2>3
<1>6. Solvency'
  BY <1>5 DEF Solvency
<1> QED BY <1>1, <1>6 DEF IInv, RowsKept

\* The inductive invariant holds in every reachable state.
THEOREM Invariance == Spec => []IInv
<1>1. Init => IInv
  BY InitInv
<1>2. IInv /\ [Next]_vars => IInv'
  BY NextInv
<1> QED BY <1>1, <1>2, PTL DEF Spec

-----------------------------------------------------------------------------
\* Type correctness: in particular no dividend is ever divided by zero, and
\* the contract account is never overdrawn.
THEOREM TypeCorrect == Spec => []TypeOK
<1>1. IInv => TypeOK
  BY DEF IInv, RowInv
<1> QED BY <1>1, Invariance, PTL

\* What good rows are for: totals that match, one position per account, and
\* games that can be claimed out of their own pots.
LEMMA RowsAreGood ==
  ASSUME RowInv
  PROVE  AmountsMatchBetters /\ OnePosition /\ ClaimNeverBlocked
<1>1. AmountsMatchBetters /\ OnePosition
  BY DEF RowInv, GoodRow, AmountsMatchBetters, OnePosition
<1>2. ClaimNeverBlocked
  <2> SUFFICES ASSUME NEW id \in BetIds, bettings[id].status = "NOT_CLAIMED"
               PROVE  /\ \A s \in Sides : Betters(bettings[id], s) # {}
                      /\ Total(Payout(bettings[id])) <= Pot(bettings[id])
    BY DEF ClaimNeverBlocked
  <2>1. GoodRow(bettings[id]) /\ \A s \in Sides : Betters(bettings[id], s) # {}
    BY DEF RowInv, GoodRow
  <2>2. Pot(bettings[id]) = bettings[id].amount["long"] + bettings[id].amount["short"]
    BY DEF Pot, Unsettled
  <2> QED BY <2>1, <2>2, PayoutBound
<1> QED BY <1>1, <1>2

\* The totals of a row are the sums of the bets its vectors list.
THEOREM AmountsCorrect == Spec => []AmountsMatchBetters
<1>1. IInv => AmountsMatchBetters
  BY RowsAreGood DEF IInv
<1> QED BY <1>1, Invariance, PTL

\* No account bets on both outcomes of a game.
THEOREM OnePositionEach == Spec => []OnePosition
<1>1. IInv => OnePosition
  BY RowsAreGood DEF IInv
<1> QED BY <1>1, Invariance, PTL

\* The contract account always covers the stakes of all unsettled games.
THEOREM AlwaysSolvent == Spec => []Solvency
<1>1. IInv => Solvency
  BY DEF IInv
<1> QED BY <1>1, Invariance, PTL

\* A game that waits for claimbet can be claimed out of its own pot.
THEOREM ClaimsArePayable == Spec => []ClaimNeverBlocked
<1>1. IInv => ClaimNeverBlocked
  BY RowsAreGood DEF IInv
<1> QED BY <1>1, Invariance, PTL

-----------------------------------------------------------------------------
(***************************************************************************)
(* What an account has: its LED, and its stakes in unsettled games.        *)
(***************************************************************************)
Held(game, u) == IF game.status \in Unsettled THEN Staked(game)[u] ELSE 0

HeldBy(u) == [id \in BetIds |-> Held(bettings[id], u)]

LosesBet(u) ==
  \E id \in BetIds :
    /\ bettings[id].status = "NOT_CLAIMED" /\ bettings'[id].status = "FINISHED"
    /\ u \in Betters(bettings[id], Other(WinSide(bettings[id])))

\* An account's LED and stakes do not become less, unless it loses a bet.
LedKept(u) ==
  LosesBet(u) \/ wallet'[u] + Total(HeldBy(u)') >= wallet[u] + Total(HeldBy(u))

\* A transaction that replaces a row and gives the account what the row took.
LEMMA StakeReturned ==
  ASSUME TypeOK, NEW u \in Users, NEW id \in BetIds, NEW game \in betting,
         bettings' = [bettings EXCEPT ![id] = game], wallet'[u] \in Nat,
         wallet'[u] + Held(game, u) >= wallet[u] + Held(bettings[id], u)
  PROVE  LedKept(u)
<1>1. ASSUME NEW row \in betting PROVE Held(row, u) \in Nat
  BY DEF Held, Staked, betting, Sides
<1>2. HeldBy(u) \in [BetIds -> Nat] /\ HeldBy(u)[id] = Held(bettings[id], u)
  BY <1>1 DEF HeldBy, TypeOK
<1>3. HeldBy(u)' = [HeldBy(u) EXCEPT ![id] = Held(game, u)]
  <2>1. HeldBy(u)' = [i \in BetIds |-> Held(bettings'[i], u)]
    BY DEF HeldBy, Held, Staked
  <2>2. \A i \in BetIds : bettings'[i] = IF i = id THEN game ELSE bettings[i]
    BY DEF TypeOK
  <2>3. [HeldBy(u) EXCEPT ![id] = Held(game, u)]
          = [i \in BetIds |-> IF i = id THEN Held(game, u) ELSE Held(bettings[i], u)]
    BY DEF HeldBy
  <2> QED BY <2>1, <2>2, <2>3
<1>4. Total(HeldBy(u)') = Total(HeldBy(u)) - Held(bettings[id], u) + Held(game, u)
  <2>1. Total([HeldBy(u) EXCEPT ![id] = Held(game, u)])
          = Total(HeldBy(u)) - HeldBy(u)[id] + Held(game, u)
    BY <1>1, <1>2, BetIdsFinite, TotalUpdate
  <2> QED BY <1>2, <1>3, <2>1
<1>5. Total(HeldBy(u)) \in Nat
  BY <1>2, BetIdsFinite, TotalNat
<1>6. Held(game, u) \in Nat /\ Held(bettings[id], u) \in Nat /\ wallet[u] \in Nat
  BY <1>1 DEF TypeOK
<1> QED BY <1>4, <1>5, <1>6 DEF LedKept

\* A change of the status, and of prices, of a game that stays unsettled.
LEMMA StatusKeepsStakes ==
  ASSUME TypeOK, NEW u \in Users, NEW id \in BetIds, NEW game \in betting,
         bettings' = [bettings EXCEPT ![id] = game], wallet' = wallet,
         game.betters = bettings[id].betters,
         Staked(game)[u] = 0 \/ (game.status \in Unsettled /\ bettings[id].status \in Unsettled)
  PROVE  LedKept(u)
<1>1. Staked(game) = Staked(bettings[id])
  BY DEF Staked
<1>2. Held(game, u) = Held(bettings[id], u)
  BY <1>1 DEF Held
<1>3. wallet[u] \in Nat /\ wallet'[u] = wallet[u] /\ Held(game, u) \in Nat
  BY DEF TypeOK, Held, Staked, betting, Sides
<1>4. wallet'[u] + Held(game, u) >= wallet[u] + Held(bettings[id], u)
  BY <1>2, <1>3
<1> QED BY <1>3, <1>4, StakeReturned

\* A game pays each winner at least the own stake.
LEMMA WinnersKeepStake ==
  ASSUME NEW game, GoodRow(game), NEW u \in Users, u \in Betters(game, WinSide(game))
  PROVE  Staked(game)[u] > 0 /\ Payout(game)[u] >= Staked(game)[u]
<1> DEFINE win == WinSide(game)
           own == game.betters[win][u]
           share == Share(own, game.amount[Other(win)], game.amount[win])
<1>1. win \in Sides /\ Other(win) \in Sides /\ game \in betting
  BY DEF WinSide, Sides, Other, GoodRow
<1>2. own \in Nat /\ own > 0
  BY <1>1 DEF betting, Betters
<1>3. Staked(game)[u] = own
  <2>1. game.betters[Other(win)][u] = 0
    <3>1. ~(game.betters[Other(win)][u] > 0)
      BY <1>1 DEF GoodRow, Betters, Other, Sides
    <3> QED BY <1>1, <3>1 DEF betting
  <2>2. Staked(game)[u] = game.betters["long"][u] + game.betters["short"][u]
    BY DEF Staked
  <2>3. \/ game.betters["long"][u] = own /\ game.betters["short"][u] = 0
        \/ game.betters["long"][u] = 0 /\ game.betters["short"][u] = own
    BY <1>1, <2>1 DEF Other, Sides
  <2> HIDE DEF own
  <2> QED BY <1>2, <2>2, <2>3
<1>4. Payout(game)[u] = own + share
  BY DEF Payout
<1>5. share \in Nat
  <2>1. game.amount[Other(win)] \in Nat /\ game.amount[win] \in Nat
    BY <1>1 DEF betting
  <2>2. game.amount[win] # 0
    <3>1. own <= Total(game.betters[win])
      BY <1>1, BettingAssumption, TotalMember DEF betting
    <3>2. game.amount[win] = Total(game.betters[win])
      BY <1>1 DEF GoodRow
    <3> HIDE DEF own
    <3> QED BY <1>2, <2>1, <3>1, <3>2
  <2> QED BY <1>2, <2>1, <2>2, ShareBound
<1> HIDE DEF own, share
<1> QED BY <1>2, <1>3, <1>4, <1>5

\* createbet takes a free key, and rmbet a finished game.
LEMMA RowsWithoutStakes ==
  ASSUME RowInv, NEW u \in Users,
         \/ \E t \in Schedules : createbet(t[1], t[2], t[3])
         \/ \E id \in BetIds : rmbet(id)
  PROVE  LedKept(u)
<1>1. PICK id \in BetIds, game \in betting :
        /\ bettings' = [bettings EXCEPT ![id] = game]
        /\ bettings[id].status \notin Unsettled /\ game.status \notin Unsettled
  <2>1. ASSUME NEW t \in Schedules, createbet(t[1], t[2], t[3])
        PROVE  \E id \in BetIds, game \in betting :
                 /\ bettings' = [bettings EXCEPT ![id] = game]
                 /\ bettings[id].status \notin Unsettled /\ game.status \notin Unsettled
    <3>1. AvailableKey \in BetIds /\ bettings[AvailableKey].status = "ABSENT"
      BY <2>1, AvailableKeyIsFree DEF createbet
    <3>2. /\ NewBet(t[1], t[2], t[3]) \in betting
          /\ NewBet(t[1], t[2], t[3]).status = "NOT_STARTED"
      <4>1. t[1] \in Nat /\ t[2] \in Nat /\ t[3] \in Nat
        BY BettingAssumption
      <4> QED BY <4>1, NewRows DEF GoodRow, NewBet
    <3>3. bettings' = [bettings EXCEPT ![AvailableKey] = NewBet(t[1], t[2], t[3])]
      BY <2>1 DEF createbet
    <3> QED BY <3>1, <3>2, <3>3 DEF Unsettled
  <2>2. ASSUME NEW id \in BetIds, rmbet(id)
        PROVE  \E game \in betting :
                 /\ bettings' = [bettings EXCEPT ![id] = game]
                 /\ bettings[id].status \notin Unsettled /\ game.status \notin Unsettled
    <3>1. NoRow \in betting /\ NoRow.status = "ABSENT"
      BY NewRows DEF GoodRow, NoRow, NewBet
    <3> QED BY <2>2, <3>1 DEF rmbet, Unsettled
  <2> QED BY <2>1, <2>2
<1>2. wallet' = wallet /\ wallet[u] \in Nat
  BY DEF createbet, rmbet, RowInv, TypeOK
<1>3. Held(bettings[id], u) = 0 /\ Held(game, u) = 0
  BY <1>1 DEF Held
<1>4. wallet'[u] \in Nat /\ wallet'[u] + Held(game, u) >= wallet[u] + Held(bettings[id], u)
  BY <1>2, <1>3
<1> QED BY <1>1, <1>4, StakeReturned DEF RowInv

\* setbet without a refund.
LEMMA SetbetKeepsStakes ==
  ASSUME RowInv, NEW u \in Users, NEW id \in BetIds,
         SetLive(id) \/ SetBettingFinish(id) \/ SetNotClaimed(id)
  PROVE  LedKept(u)
<1>1. bettings[id] \in betting /\ GoodRow(bettings[id]) /\ TypeOK
  BY DEF RowInv, TypeOK
<1>2. CASE SetLive(id)
  <2> DEFINE game == [bettings[id] EXCEPT !.status = "IS_LIVE", !.base_price = btc_price]
  <2>1. game \in betting /\ game.betters = bettings[id].betters
    BY <1>1 DEF betting, Statuses, TypeOK
  <2>2. bettings[id].betters = NoBets
    BY <1>1, <1>2 DEF SetLive, GoodRow
  <2>3. bettings' = [bettings EXCEPT ![id] = game] /\ wallet' = wallet
    BY <1>1, <1>2 DEF SetLive, TypeOK
  <2> HIDE DEF game
  <2>4. Staked(game)[u] = 0
    BY <2>1, <2>2 DEF Staked, NoBets, Sides
  <2> QED BY <1>1, <2>1, <2>3, <2>4, StatusKeepsStakes
<1>3. CASE SetBettingFinish(id)
  <2> DEFINE game == [bettings[id] EXCEPT !.status = "BETTING_FINISH"]
  <2>1. /\ game \in betting /\ game.betters = bettings[id].betters
        /\ game.status = "BETTING_FINISH"
    BY <1>1 DEF betting, Statuses
  <2>2. bettings' = [bettings EXCEPT ![id] = game] /\ wallet' = wallet
        /\ bettings[id].status = "IS_LIVE"
    BY <1>1, <1>3 DEF SetBettingFinish, MayFinishBetting, TypeOK
  <2> HIDE DEF game
  <2> QED BY <1>1, <2>1, <2>2, StatusKeepsStakes DEF Unsettled
<1>4. CASE SetNotClaimed(id)
  <2> DEFINE game == [bettings[id] EXCEPT !.status = "NOT_CLAIMED", !.final_price = btc_price]
  <2>1. /\ game \in betting /\ game.betters = bettings[id].betters
        /\ game.status = "NOT_CLAIMED"
    BY <1>1 DEF betting, Statuses, TypeOK
  <2>2. bettings' = [bettings EXCEPT ![id] = game] /\ wallet' = wallet
        /\ bettings[id].status = "BETTING_FINISH"
    BY <1>1, <1>4 DEF SetNotClaimed, TypeOK
  <2> HIDE DEF game
  <2> QED BY <1>1, <2>1, <2>2, StatusKeepsStakes DEF Unsettled
<1> QED BY <1>2, <1>3, <1>4

\* A refund brings back the stake.
LEMMA RefundReturnsStakes ==
  ASSUME RowInv, NEW u \in Users, NEW id \in BetIds, SetNoGame(id)
  PROVE  LedKept(u)
<1> DEFINE game == [bettings[id] EXCEPT !.status = "NO_GAME", !.final_price = btc_price]
           short == bettings[id].betters["short"][u]
           long == bettings[id].betters["long"][u]
<1>1. bettings[id] \in betting /\ TypeOK /\ wallet[u] \in Nat
  BY DEF RowInv, TypeOK
<1>2. game \in betting /\ game.status = "NO_GAME"
  BY <1>1 DEF betting, Statuses, TypeOK
<1>3. bettings' = [bettings EXCEPT ![id] = game]
  BY <1>1 DEF SetNoGame, TypeOK
<1> HIDE DEF game
<1>4. short \in Nat /\ long \in Nat
  BY <1>1 DEF betting, Sides
<1>5. wallet'[u] = wallet[u] + (short + long)
  BY DEF SetNoGame, Pay, Refund
<1>6. Held(bettings[id], u) = long + short /\ Held(game, u) = 0
  BY <1>2 DEF SetNoGame, MayFinishBetting, Held, Unsettled, Staked
<1> HIDE DEF short, long
<1>7. wallet'[u] \in Nat /\ wallet'[u] + Held(game, u) >= wallet[u] + Held(bettings[id], u)
  BY <1>1, <1>4, <1>5, <1>6
<1> QED BY <1>1, <1>2, <1>3, <1>7, StakeReturned

\* claimbet takes the stakes of the losers only.
LEMMA ClaimbetTakesFromLosers ==
  ASSUME RowInv, NEW u \in Users, NEW id \in BetIds, claimbet(id)
  PROVE  LedKept(u)
<1> DEFINE old == bettings[id]
           game == [old EXCEPT !.status = "FINISHED"]
           win == WinSide(old)
<1>1. old \in betting /\ GoodRow(old) /\ TypeOK /\ wallet[u] \in Nat
  BY DEF RowInv, TypeOK
<1>2. /\ old.status = "NOT_CLAIMED" /\ Pay(Payout(old))
      /\ \A s \in Sides : Betters(old, s) # {}
  BY DEF claimbet, TwoSided, Sides
<1>3. game \in betting /\ game.status = "FINISHED"
  BY <1>1 DEF betting, Statuses
<1>4. bettings' = [bettings EXCEPT ![id] = game]
  BY <1>1 DEF claimbet, TypeOK
<1>5. bettings'[id] = game
  BY <1>1, <1>4 DEF TypeOK
<1> HIDE DEF game
<1>6. win \in Sides /\ Other(win) \in Sides
  BY DEF WinSide, Other, Sides
<1>7. CASE u \in Betters(old, Other(win))
  BY <1>2, <1>3, <1>5, <1>7 DEF LedKept, LosesBet
<1>8. CASE u \notin Betters(old, Other(win))
  <2>1. Payout(old)[u] \in Nat /\ Staked(old)[u] \in Nat
    <3>1. Payout(old) \in [Users -> Nat]
      BY <1>1, <1>2, PayoutBound
    <3> QED BY <1>1, <3>1 DEF Staked, betting, Sides
  <2>2. Payout(old)[u] >= Staked(old)[u]
    <3>1. CASE u \in Betters(old, win)
      BY <1>1, <3>1, WinnersKeepStake
    <3>2. CASE u \notin Betters(old, win)
      <4>1. \A s \in Sides : u \notin Betters(old, s)
        BY <1>8, <3>2 DEF WinSide, Other, Sides
      <4>2. old.betters["long"][u] = 0 /\ old.betters["short"][u] = 0
        BY <1>1, <4>1 DEF Betters, betting, Sides
      <4>3. Staked(old)[u] = 0
        BY <4>2 DEF Staked
      <4> QED BY <2>1, <4>3
    <3> QED BY <3>1, <3>2
  <2>3. wallet'[u] = wallet[u] + Payout(old)[u]
    BY <1>2 DEF Pay
  <2>4. Held(old, u) = Staked(old)[u] /\ Held(game, u) = 0
    BY <1>2, <1>3 DEF Held, Unsettled
  <2> HIDE DEF old
  <2>5. wallet'[u] \in Nat /\ wallet'[u] + Held(game, u) >= wallet[u] + Held(old, u)
    BY <1>1, <2>1, <2>2, <2>3, <2>4
  <2> QED BY <1>1, <1>3, <1>4, <2>5, StakeReturned DEF old
<1> QED BY <1>7, <1>8

\* A bet is recorded in the name of who sent it.
LEMMA BetIsRecorded ==
  ASSUME RowInv, NEW u \in Users, NEW v \in Users, NEW q \in Quantities, NEW id \in BetIds,
         NEW p \in Sides, bet(v, q, id, p)
  PROVE  LedKept(u)
<1> DEFINE old == bettings[id]
           game == AddBetter(old, v, q, p)
           stake(row) == row.betters["long"][u] + row.betters["short"][u]
<1>1. old \in betting /\ TypeOK /\ wallet[u] \in Nat /\ q \in Nat
  BY BettingAssumption DEF RowInv, TypeOK
<1>2. /\ game.betters = [old.betters EXCEPT ![p][v] = q]
      /\ game.status = "IS_LIVE" /\ old.status = "IS_LIVE"
  BY <1>1 DEF AddBetter, bet, betting
<1>3. game \in betting
  <2>1. bettings' \in [BetIds -> betting] /\ bettings'[id] = game
    <3>1. RowInv'
      BY BetInv DEF RowsKept
    <3> QED BY <1>1, <3>1 DEF RowInv, TypeOK, bet
  <2> QED BY <2>1
<1>4. bettings' = [bettings EXCEPT ![id] = game]
  BY <1>1 DEF bet, TypeOK
<1> HIDE DEF game
<1>5. /\ old.betters["long"] \in [Users -> Nat] /\ old.betters["short"] \in [Users -> Nat]
      /\ old.betters \in [Sides -> [Users -> Nat]]
  BY <1>1 DEF betting, Sides
<1>6. old.betters["long"][v] = 0 /\ old.betters["short"][v] = 0
  BY <1>5 DEF bet, AlreadyBet, Betters, Sides
<1>7. stake(game) = IF u = v THEN q ELSE stake(old)
  <2>1. CASE p = "long"
    <3>1. game.betters["short"] = old.betters["short"]
          /\ game.betters["long"] = [old.betters["long"] EXCEPT ![v] = q]
      BY <1>2, <1>5, <2>1 DEF Sides
    <3> QED BY <1>1, <1>5, <1>6, <3>1
  <2>2. CASE p = "short"
    <3>1. game.betters["long"] = old.betters["long"]
          /\ game.betters["short"] = [old.betters["short"] EXCEPT ![v] = q]
      BY <1>2, <1>5, <2>2 DEF Sides
    <3> QED BY <1>1, <1>5, <1>6, <3>1
  <2> QED BY <2>1, <2>2 DEF Sides
<1>8. /\ Held(game, u) = stake(game) /\ Held(old, u) = stake(old)
      /\ stake(old) \in Nat /\ (u = v => stake(old) = 0)
  BY <1>2, <1>5, <1>6 DEF Held, Unsettled, Staked
<1>9. /\ wallet'[u] = IF u = v THEN wallet[u] - q ELSE wallet[u]
      /\ u = v => wallet[u] >= q
  BY <1>1 DEF bet, TypeOK
<1> HIDE DEF stake, old
<1>10. wallet'[u] \in Nat /\ wallet'[u] + Held(game, u) >= wallet[u] + Held(old, u)
  BY <1>1, <1>7, <1>8, <1>9
<1> QED BY <1>1, <1>3, <1>4, <1>10, StakeReturned DEF old

\* Every step leaves an account what it has, unless it loses a bet.
LEMMA LedIsKept ==
  ASSUME RowInv, [Next]_vars, NEW u \in Users
  PROVE  LedKept(u)
<1>1. CASE UNCHANGED <<bettings, wallet>>
  <2>1. HeldBy(u) \in [BetIds -> Nat]
    BY DEF HeldBy, Held, Staked, RowInv, TypeOK, betting, Sides
  <2>2. Total(HeldBy(u)) \in Nat
    BY <2>1, BetIdsFinite, TotalNat
  <2>3. HeldBy(u)' = HeldBy(u)
    BY <1>1 DEF HeldBy, Held, Staked
  <2>4. wallet'[u] = wallet[u] /\ wallet[u] \in Nat
    BY <1>1 DEF RowInv, TypeOK
  <2> QED BY <2>2, <2>3, <2>4 DEF LedKept
<1>2. ASSUME NEW t \in Schedules, createbet(t[1], t[2], t[3]) PROVE LedKept(u)
  BY <1>2, RowsWithoutStakes
<1>3. ASSUME NEW id \in BetIds, setbet(id) PROVE LedKept(u)
  BY <1>3, SetbetKeepsStakes, RefundReturnsStakes DEF setbet
<1>4. ASSUME NEW id \in BetIds, claimbet(id) PROVE LedKept(u)
  BY <1>4, ClaimbetTakesFromLosers
<1>5. ASSUME NEW id \in BetIds, rmbet(id) PROVE LedKept(u)
  BY <1>5, RowsWithoutStakes
<1>6. ASSUME NEW v \in Users, NEW q \in Quantities, NEW id \in BetIds, NEW p \in Sides,
             bet(v, q, id, p)
      PROVE  LedKept(u)
  BY <1>6, BetIsRecorded
<1> QED BY <1>1, <1>2, <1>3, <1>4, <1>5, <1>6 DEF Next, Tick, setbtcprice, vars

\* Whatever is called when, an account's LED, the stakes it has in unsettled
\* games included, becomes less only when a game it lost is settled.
THEOREM StakesOnlyLostInBets == Spec => [][\A u \in Users : LedKept(u)]_vars
<1>1. IInv /\ [Next]_vars => [\A u \in Users : LedKept(u)]_vars
  BY LedIsKept DEF IInv
<1> QED BY <1>1, Invariance, PTL DEF Spec

-----------------------------------------------------------------------------
(***************************************************************************)
(* The dividend a settled game pays.                                       *)
(***************************************************************************)
\* The dividends of a row are those of its present totals.
DividendsOfTotals ==
  \A id \in BetIds, s \in Sides :
    LET game == bettings[id]
    IN  game.amount[s] > 0 =>
          game.dividend[s] = <<game.amount["long"] + game.amount["short"], game.amount[s]>>

\* No payout product of two amounts of a row reaches U64.
NoProductWraps ==
  \A id \in BetIds, s \in Sides, u \in Users :
    bettings[id].betters[s][u] * bettings[id].amount[Other(s)] < U64

\* A row that keeps its totals and its dividends, or has none.
LEMMA DividendsKept ==
  ASSUME TypeOK, DividendsOfTotals, NEW id \in BetIds, NEW game,
         \/ game.amount = bettings[id].amount /\ game.dividend = bettings[id].dividend
         \/ \A s \in Sides : game.amount[s] = 0,
         bettings' = [bettings EXCEPT ![id] = game]
  PROVE  DividendsOfTotals'
<1>1. ASSUME NEW i \in BetIds
      PROVE  bettings'[i] = IF i = id THEN game ELSE bettings[i]
  BY DEF TypeOK
<1>2. ASSUME NEW i \in BetIds, NEW s \in Sides, bettings'[i].amount[s] > 0
      PROVE  bettings'[i].dividend[s] =
               <<bettings'[i].amount["long"] + bettings'[i].amount["short"],
                 bettings'[i].amount[s]>>
  <2>1. CASE i = id /\ \A r \in Sides : game.amount[r] = 0
    BY <1>1, <1>2, <2>1
  <2>2. CASE /\ bettings'[i].amount = bettings[i].amount
             /\ bettings'[i].dividend = bettings[i].dividend
    BY <1>2, <2>2 DEF DividendsOfTotals
  <2> QED BY <1>1, <2>1, <2>2
<1> QED BY <1>2 DEF DividendsOfTotals

\* bet computes both dividends from the totals it writes.
LEMMA BetDividends ==
  ASSUME TypeOK, DividendsOfTotals, NEW u \in Users, NEW q \in Quantities,
         NEW id \in BetIds, NEW p \in Sides, bet(u, q, id, p)
  PROVE  DividendsOfTotals'
<1> DEFINE game == AddBetter(bettings[id], u, q, p)
<1>1. bettings[id] \in betting /\ q \in Nat
  BY BettingAssumption DEF TypeOK
<1>2. ASSUME NEW s \in Sides, game.amount[s] > 0
      PROVE  game.dividend[s] = <<game.amount["long"] + game.amount["short"], game.amount[s]>>
  BY <1>1, <1>2 DEF AddBetter, Dividend, betting, Sides
<1>3. \A i \in BetIds : bettings'[i] = IF i = id THEN game ELSE bettings[i]
  BY DEF bet, TypeOK
<1> HIDE DEF game
<1>4. ASSUME NEW i \in BetIds, NEW s \in Sides, bettings'[i].amount[s] > 0
      PROVE  bettings'[i].dividend[s] =
               <<bettings'[i].amount["long"] + bettings'[i].amount["short"],
                 bettings'[i].amount[s]>>
  <2>1. CASE i = id
    BY <1>2, <1>3, <1>4, <2>1
  <2>2. CASE i # id
    BY <1>3, <1>4, <2>2 DEF DividendsOfTotals
  <2> QED BY <2>1, <2>2
<1> QED BY <1>4 DEF DividendsOfTotals

\* What setbet, claimbet and rmbet write leaves totals and dividends alone, or
\* removes the row.
LEMMA GameDividends ==
  ASSUME TypeOK, DividendsOfTotals, NEW id \in BetIds, setbet(id) \/ claimbet(id) \/ rmbet(id)
  PROVE  DividendsOfTotals'
<1>1. bettings[id] \in betting
  BY DEF TypeOK
<1>2. CASE rmbet(id)
  <2>1. \A s \in Sides : NoRow.amount[s] = 0
    BY DEF NoRow, NewBet
  <2>2. bettings' = [bettings EXCEPT ![id] = NoRow]
    BY <1>2 DEF rmbet
  <2> QED BY <2>1, <2>2, DividendsKept
<1>3. CASE setbet(id) \/ claimbet(id)
  <2>1. \E status, base, final :
          bettings' = [bettings EXCEPT ![id] = [@ EXCEPT !.status = status,
                                                         !.base_price = base,
                                                         !.final_price = final]]
    <3>1. CASE SetLive(id)
      <4>1. bettings' = [bettings EXCEPT ![id] =
              [@ EXCEPT !.status = "IS_LIVE", !.base_price = btc_price,
                        !.final_price = bettings[id].final_price]]
        BY <1>1, <3>1 DEF SetLive, TypeOK, betting
      <4> QED BY <4>1
    <3>2. CASE SetBettingFinish(id)
      <4>1. bettings' = [bettings EXCEPT ![id] =
              [@ EXCEPT !.status = "BETTING_FINISH", !.base_price = bettings[id].base_price,
                        !.final_price = bettings[id].final_price]]
        BY <1>1, <3>2 DEF SetBettingFinish, TypeOK, betting
      <4> QED BY <4>1
    <3>3. CASE SetNoGame(id)
      <4>1. bettings' = [bettings EXCEPT ![id] =
              [@ EXCEPT !.status = "NO_GAME", !.base_price = bettings[id].base_price,
                        !.final_price = btc_price]]
        BY <1>1, <3>3 DEF SetNoGame, TypeOK, betting
      <4> QED BY <4>1
    <3>4. CASE SetNotClaimed(id)
      <4>1. bettings' = [bettings EXCEPT ![id] =
              [@ EXCEPT !.status = "NOT_CLAIMED", !.base_price = bettings[id].base_price,
                        !.final_price = btc_price]]
        BY <1>1, <3>4 DEF SetNotClaimed, TypeOK, betting
      <4> QED BY <4>1
    <3>5. CASE claimbet(id)
      <4>1. bettings' = [bettings EXCEPT ![id] =
              [@ EXCEPT !.status = "FINISHED", !.base_price = bettings[id].base_price,
                        !.final_price = bettings[id].final_price]]
        BY <1>1, <3>5 DEF claimbet, TypeOK, betting
      <4> QED BY <4>1
    <3> QED BY <1>3, <3>1, <3>2, <3>3, <3>4, <3>5 DEF setbet
  <2>2. PICK status, base, final :
          bettings' = [bettings EXCEPT ![id] = [@ EXCEPT !.status = status,
                                                         !.base_price = base,
                                                         !.final_price = final]]
    BY <2>1
  <2> DEFINE game == [bettings[id] EXCEPT !.status = status, !.base_price = base,
                                          !.final_price = final]
  <2>3. game.amount = bettings[id].amount /\ game.dividend = bettings[id].dividend
    BY <1>1 DEF betting
  <2>4. bettings' = [bettings EXCEPT ![id] = game]
    BY <2>2 DEF TypeOK
  <2> HIDE DEF game
  <2> QED BY <2>3, <2>4, DividendsKept
<1> QED BY <1>2, <1>3

\* A remainder does not change the value of a number below the modulus.
LEMMA NoWrap ==
  ASSUME NEW k \in Nat, NEW n \in Nat \ {0}, k < n
  PROVE  k % n = k
<1> DEFINE d == k \div n
<1>1. d \in Nat /\ k % n \in 0 .. (n - 1) /\ k = n * d + (k % n)
  BY DivMod
<1>2. d < 1
  BY DivBelow
<1> HIDE DEF d
<1>3. d = 0
  BY <1>1, <1>2
<1>4. n * 0 = 0
  OBVIOUS
<1> QED BY <1>1, <1>3, <1>4

\* Where the product does not wrap, the two truncations cost a winner less
\* than two units.
LEMMA ShareAtLeast ==
  ASSUME NEW q \in Nat, NEW l \in Nat, NEW w \in Nat \ {0}, q * l < U64
  PROVE  20 * (w * (Share(q, l, w) + 2)) > 19 * (q * l)
<1> DEFINE product == q * l
           a == product \div w
           r == product % w
           b == BettingRatio(a)
<1>1. product \in Nat /\ product % U64 = product
  <2>1. product \in Nat /\ product < U64
    OBVIOUS
  <2> HIDE DEF product
  <2> QED BY <2>1, BettingAssumption, NoWrap
<1>2. Share(q, l, w) = b
  BY <1>1 DEF Share
<1> HIDE DEF product
<1>3. a \in Nat /\ r \in 0 .. (w - 1) /\ product = w * a + r
  BY <1>1, DivMod
<1> HIDE DEF a, r
<1>4. b \in Nat /\ 19 * a + 1 <= 20 * (b + 1)
  BY <1>3 DEF BettingRatio
<1> HIDE DEF b
<1>5. (19 * a + 1) * w <= (20 * (b + 1)) * w
  BY <1>3, <1>4, ProductMonotone
<1> DEFINE wa == w * a
           wb == w * b
<1>6. /\ wa \in Nat /\ wb \in Nat
      /\ (19 * a + 1) * w = 19 * wa + w
      /\ (20 * (b + 1)) * w = 20 * wb + 20 * w
      /\ w * (b + 2) = wb + 2 * w
  BY <1>3, <1>4
<1> HIDE DEF wa, wb
<1>7. product = wa + r
  BY <1>3 DEF wa
<1>8. 20 * (wb + 2 * w) > 19 * product
  BY <1>3, <1>5, <1>6, <1>7
<1> QED BY <1>2, <1>6, <1>8 DEF product

\* What claimbet pays one account is its dividend.
LEMMA PaidDividend ==
  ASSUME NEW game, GoodRow(game), \A s \in Sides : Betters(game, s) # {},
         NEW u \in Users,
         game.betters[WinSide(game)][u] * game.amount[Other(WinSide(game))] < U64
  PROVE  LET side_amount == game.amount[WinSide(game)]
             total == game.amount["long"] + game.amount["short"]
             paid == Payout(game)[u]
             stake == game.betters[WinSide(game)][u]
         IN  /\ side_amount > 0
             /\ 20 * side_amount * (paid + 2) > 19 * stake * total
             /\ side_amount * paid <= stake * total
<1> DEFINE win == WinSide(game)
           q == game.betters[win][u]
           w == game.amount[win]
           l == game.amount[Other(win)]
           paid == Payout(game)[u]
<1>1. win \in Sides /\ Other(win) \in Sides /\ Other(win) # win
  BY DEF WinSide, Sides, Other
<1>2. /\ q \in Nat /\ w \in Nat /\ l \in Nat
      /\ game.amount["long"] + game.amount["short"] = w + l
  BY <1>1 DEF GoodRow, betting, Sides
<1>3. w > 0
  <2>1. PICK v \in Users : game.betters[win][v] > 0
    BY <1>1 DEF Betters
  <2>2. game.betters[win] \in [Users -> Nat] /\ w = Total(game.betters[win])
    BY <1>1 DEF GoodRow, betting, Sides
  <2>3. game.betters[win][v] <= w
    BY <2>2, BettingAssumption, TotalMember
  <2> QED BY <1>2, <2>1, <2>2, <2>3
<1>4. paid = IF q > 0 THEN q + Share(q, l, w) ELSE 0
  BY DEF Payout, Betters
<1>5. q * l < U64
  OBVIOUS
<1> HIDE DEF win, q, w, l, paid
<1> DEFINE share == Share(q, l, w)
           ws == w * share
           wq == w * q
           ql == q * l
<1>6. share \in Nat /\ ws \in Nat /\ wq \in Nat /\ ql \in Nat /\ ws <= ql
  <2>1. w \in Nat \ {0}
    BY <1>2, <1>3
  <2>2. share \in Nat /\ w * share <= q * l
    BY <1>2, <2>1, ShareBound
  <2> HIDE DEF share
  <2> QED BY <1>2, <2>2
<1>7. 20 * (w * (share + 2)) > 19 * ql
  BY <1>2, <1>3, <1>5, ShareAtLeast
<1> HIDE DEF share
<1>8. w * (share + 2) = ws + 2 * w /\ q * (w + l) = wq + ql
  BY <1>2, <1>6
<1>9. 20 * w * (paid + 2) > 19 * q * (w + l) /\ w * paid <= q * (w + l)
  <2>1. CASE q > 0
    <3>1. paid = q + share
      BY <1>4, <2>1 DEF share
    <3>2. w * paid = wq + ws /\ 20 * w * (paid + 2) = 20 * (wq + ws + 2 * w)
      BY <1>2, <1>6, <3>1
    <3>3. 19 * q * (w + l) = 19 * (q * (w + l))
      BY <1>2
    <3> HIDE DEF ws, wq, ql
    <3> QED BY <1>2, <1>3, <1>6, <1>7, <1>8, <3>2, <3>3
  <2>2. CASE q = 0
    <3>1. paid = 0
      BY <1>4, <2>2
    <3>2. w * paid = 0 /\ q * (w + l) = 0 /\ 19 * q * (w + l) = 0
      BY <1>2, <2>2, <3>1
    <3>3. 20 * w * (paid + 2) = 40 * w
      BY <1>2, <3>1
    <3> QED BY <1>2, <1>3, <3>2, <3>3
  <2> QED BY <1>2, <2>1, <2>2
<1> QED BY <1>2, <1>3, <1>9 DEF win, q, w, paid

\* Only claimbet marks a game FINISHED.
LEMMA OnlyClaimbetFinishes ==
  ASSUME RowInv, [Next]_vars, NEW id \in BetIds,
         bettings[id].status = "NOT_CLAIMED", bettings'[id].status = "FINISHED"
  PROVE  claimbet(id)
<1>1. bettings \in [BetIds -> betting]
  BY DEF RowInv, TypeOK
<1>2. bettings' # bettings
  OBVIOUS
<1>3. ASSUME NEW t \in Schedules, createbet(t[1], t[2], t[3]) PROVE FALSE
  <2>1. AvailableKey \in BetIds /\ bettings[AvailableKey].status = "ABSENT"
    BY <1>3, AvailableKeyIsFree DEF createbet
  <2>2. bettings'[id] = bettings[id]
    BY <1>1, <1>3, <2>1 DEF createbet
  <2> QED BY <2>2
<1>4. ASSUME NEW i \in BetIds, setbet(i) PROVE FALSE
  BY <1>1, <1>4
     DEF setbet, SetLive, SetBettingFinish, SetNoGame, SetNotClaimed, MayFinishBetting, betting
<1>5. ASSUME NEW i \in BetIds, claimbet(i) PROVE i = id
  BY <1>1, <1>5 DEF claimbet
<1>6. ASSUME NEW i \in BetIds, rmbet(i) PROVE FALSE
  BY <1>1, <1>6 DEF rmbet, NoRow, NewBet
<1>7. ASSUME NEW u \in Users, NEW q \in Quantities, NEW i \in BetIds, NEW s \in Sides,
             bet(u, q, i, s)
      PROVE  FALSE
  BY <1>1, <1>7 DEF bet, AddBetter, betting
<1> QED BY <1>2, <1>3, <1>4, <1>5, <1>6, <1>7 DEF Next, Tick, setbtcprice, vars

\* Dividends are those of the totals in every reachable state.
LEMMA DividendsInv ==
  ASSUME RowInv, DividendsOfTotals, [Next]_vars
  PROVE  DividendsOfTotals'
<1>1. TypeOK
  BY DEF RowInv
<1>2. CASE bettings' = bettings
  BY <1>2 DEF DividendsOfTotals
<1>3. ASSUME NEW t \in Schedules, createbet(t[1], t[2], t[3]) PROVE DividendsOfTotals'
  <2> DEFINE game == NewBet(t[1], t[2], t[3])
  <2>1. AvailableKey \in BetIds
    BY <1>3, AvailableKeyIsFree DEF createbet
  <2>2. bettings' = [bettings EXCEPT ![AvailableKey] = game]
    BY <1>3 DEF createbet
  <2>3. \A s \in Sides : game.amount[s] = 0
    BY DEF NewBet
  <2> HIDE DEF game
  <2> QED BY <1>1, <2>1, <2>2, <2>3, DividendsKept
<1>4. ASSUME NEW id \in BetIds, setbet(id) \/ claimbet(id) \/ rmbet(id)
      PROVE  DividendsOfTotals'
  BY <1>1, <1>4, GameDividends
<1>5. ASSUME NEW u \in Users, NEW q \in Quantities, NEW id \in BetIds, NEW s \in Sides,
             bet(u, q, id, s)
      PROVE  DividendsOfTotals'
  BY <1>1, <1>5, BetDividends
<1> QED BY <1>2, <1>3, <1>4, <1>5 DEF Next, Tick, setbtcprice, vars

\* At first there are no totals.
LEMMA NoDividends == Init => DividendsOfTotals
BY DEF Init, NoRow, NewBet, DividendsOfTotals

\* The claimbet that finishes a game pays the dividend of the row.
LEMMA SettledAtDividend ==
  ASSUME RowInv, DividendsOfTotals, NoProductWraps, [Next]_vars
  PROVE  WinnersGetDividend
<1> SUFFICES ASSUME NEW id \in BetIds, bettings[id].status = "NOT_CLAIMED",
                    bettings'[id].status = "FINISHED", NEW u \in Users
             PROVE  LET game == bettings[id]
                        win == WinSide(game)
                        total == game.dividend[win][1]
                        side_amount == game.dividend[win][2]
                        paid == wallet'[u] - wallet[u]
                        stake == game.betters[win][u]
                    IN  /\ 20 * side_amount * (paid + 2) > 19 * stake * total
                        /\ side_amount * paid <= stake * total
  BY DEF WinnersGetDividend
<1> DEFINE game == bettings[id]
           win == WinSide(game)
<1>1. claimbet(id)
  BY OnlyClaimbetFinishes
<1>2. GoodRow(game) /\ \A s \in Sides : Betters(game, s) # {}
  BY DEF RowInv, GoodRow
<1>3. win \in Sides
  BY DEF WinSide, Sides
<1>4. game.betters[win][u] * game.amount[Other(win)] < U64
  BY <1>3 DEF NoProductWraps
<1>5. Payout(game) \in [Users -> Nat] /\ wallet \in [Users -> Nat]
  BY <1>2, PayoutBound DEF RowInv, TypeOK
<1>6. wallet'[u] - wallet[u] = Payout(game)[u]
  <2>1. wallet'[u] = wallet[u] + Payout(game)[u]
    BY <1>1 DEF claimbet, Pay
  <2> HIDE DEF game
  <2> QED BY <1>5, <2>1
<1>7. /\ game.amount[win] > 0
      /\ 20 * game.amount[win] * (Payout(game)[u] + 2)
           > 19 * game.betters[win][u] * (game.amount["long"] + game.amount["short"])
      /\ game.amount[win] * Payout(game)[u]
           <= game.betters[win][u] * (game.amount["long"] + game.amount["short"])
  BY <1>2, <1>4, PaidDividend
<1>8. /\ game.dividend[win][1] = game.amount["long"] + game.amount["short"]
      /\ game.dividend[win][2] = game.amount[win]
  BY <1>3, <1>7 DEF DividendsOfTotals
<1> QED BY <1>6, <1>7, <1>8

\* While no product of two amounts of a row reaches U64, every game that
\* claimbet settles pays each account the advertised dividend: less than two
\* units below it at most, and never more than its share of the pot.
THEOREM DividendsArePaid ==
  Spec /\ []NoProductWraps => WinnersGetAdvertisedDividend
<1>1. Init => DividendsOfTotals
  BY NoDividends
<1>2. IInv /\ DividendsOfTotals /\ [Next]_vars => DividendsOfTotals'
  BY DividendsInv DEF IInv
<1>3. IInv /\ DividendsOfTotals /\ NoProductWraps /\ [Next]_vars => WinnersGetDividend
  BY SettledAtDividend DEF IInv
<1> QED BY <1>1, <1>2, <1>3, Invariance, PTL DEF Spec, WinnersGetAdvertisedDividend

=============================================================================
