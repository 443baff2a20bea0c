------------------------- MODULE BettingRefinement -------------------------
(***************************************************************************)
(* The betting games implement the escrow of module BettingEscrow, for any *)
(* number of users and games: every transaction is a step of the escrow or *)
(* leaves its state unchanged.                                             *)
(***************************************************************************)
EXTENDS BettingProofs

\* The escrow sums as the contract does.
LEMMA EscrowTotal ==
  ASSUME NEW f
  PROVE  Escrow!Total(f) = Total(f)
  BY DEF Escrow!Total, Total, Escrow!Units, Units, Escrow!Cardinality, Cardinality

\* A transaction that replaces one row moves one game of the escrow.
LEMMA ReplaceGame ==
  ASSUME TypeOK, NEW id \in BetIds, NEW game, bettings' = [bettings EXCEPT ![id] = game]
  PROVE  /\ EscrowPhases' = [EscrowPhases EXCEPT ![id] = EscrowPhase(game)]
         /\ EscrowStakes' = [EscrowStakes EXCEPT ![id] = Staked(game)]
<1>1. \A i \in BetIds : bettings'[i] = IF i = id THEN game ELSE bettings[i]
  BY DEF TypeOK
<1>2. EscrowPhases' = [i \in BetIds |-> EscrowPhase(bettings'[i])]
  BY DEF EscrowPhases, EscrowPhase
<1>3. EscrowStakes' = [i \in BetIds |-> Staked(bettings'[i])]
  BY DEF EscrowStakes, Staked
<1>4. /\ \A i \in BetIds : EscrowPhase(bettings'[i])
                           = IF i = id THEN EscrowPhase(game) ELSE EscrowPhase(bettings[i])
      /\ \A i \in BetIds : Staked(bettings'[i])
                           = IF i = id THEN Staked(game) ELSE Staked(bettings[i])
  BY <1>1
<1>5. /\ [EscrowPhases EXCEPT ![id] = EscrowPhase(game)]
           = [i \in BetIds |-> IF i = id THEN EscrowPhase(game) ELSE EscrowPhase(bettings[i])]
      /\ [EscrowStakes EXCEPT ![id] = Staked(game)]
           = [i \in BetIds |-> IF i = id THEN Staked(game) ELSE Staked(bettings[i])]
  BY DEF EscrowPhases, EscrowStakes
<1> QED BY <1>2, <1>3, <1>4, <1>5

\* If the row keeps its bets, only the phase of the game moves.
LEMMA MovePhase ==
  ASSUME TypeOK, NEW id \in BetIds, NEW game, bettings' = [bettings EXCEPT ![id] = game],
         game.betters = bettings[id].betters
  PROVE  /\ EscrowPhases' = [EscrowPhases EXCEPT ![id] = EscrowPhase(game)]
         /\ EscrowStakes' = EscrowStakes
<1>1. Staked(game) = Staked(bettings[id])
  BY DEF Staked
<1>2. [EscrowStakes EXCEPT ![id] = Staked(bettings[id])] = EscrowStakes
  BY DEF EscrowStakes
<1>3. /\ EscrowPhases' = [EscrowPhases EXCEPT ![id] = EscrowPhase(game)]
      /\ EscrowStakes' = [EscrowStakes EXCEPT ![id] = Staked(game)]
  BY ReplaceGame
<1> QED BY <1>1, <1>2, <1>3

\* The escrow does not see a row replaced by one of the same phase and bets.
LEMMA SameGame ==
  ASSUME TypeOK, NEW id \in BetIds, NEW game, bettings' = [bettings EXCEPT ![id] = game],
         EscrowPhase(game) = EscrowPhase(bettings[id]),
         game.betters = bettings[id].betters,
         wallet' = wallet, vault' = vault
  PROVE  UNCHANGED Escrow!vars
<1>1. EscrowPhases' = [EscrowPhases EXCEPT ![id] = EscrowPhase(game)] /\ EscrowStakes' = EscrowStakes
  BY MovePhase
<1>2. [EscrowPhases EXCEPT ![id] = EscrowPhase(bettings[id])] = EscrowPhases
  BY DEF EscrowPhases
<1> QED BY <1>1, <1>2 DEF Escrow!vars

LEMMA EscrowInit == Init => Escrow!Init
<1> SUFFICES ASSUME Init PROVE Escrow!Init
  OBVIOUS
<1>1. \A id \in BetIds : bettings[id] = NoRow
  BY DEF Init
<1>2. EscrowPhases = [id \in BetIds |-> "idle"]
  BY <1>1 DEF EscrowPhases, EscrowPhase, NoRow, NewBet
<1>3. Staked(NoRow) = Escrow!NoStakes
  BY DEF Staked, NoRow, NewBet, NoBets, Sides, Escrow!NoStakes
<1>4. EscrowStakes = [id \in BetIds |-> Escrow!NoStakes]
  BY <1>1, <1>3 DEF EscrowStakes
<1> QED BY <1>2, <1>4 DEF Init, Escrow!Init

-----------------------------------------------------------------------------
(***************************************************************************)
(* Each transaction, as a step of the escrow.                              *)
(***************************************************************************)
\* The escrow's view of one row.
LEMMA GameView ==
  ASSUME TypeOK, NEW id \in BetIds
  PROVE  /\ bettings[id] \in betting
         /\ EscrowPhases[id] = EscrowPhase(bettings[id])
         /\ EscrowStakes[id] = Staked(bettings[id])
  BY DEF TypeOK, EscrowPhases, EscrowStakes

\* A row without bets stakes nothing.
LEMMA NothingStaked ==
  ASSUME NEW game, game.betters = NoBets
  PROVE  Staked(game) = Escrow!NoStakes
  BY DEF Staked, NoBets, Sides, Escrow!NoStakes

LEMMA CreatebetStep ==
  ASSUME RowInv, NEW t \in Schedules, createbet(t[1], t[2], t[3])
  PROVE  UNCHANGED Escrow!vars
<1> DEFINE id == AvailableKey
           game == NewBet(t[1], t[2], t[3])
<1>1. id \in BetIds /\ bettings[id].status = "ABSENT"
  BY AvailableKeyIsFree DEF createbet
<1>2. bettings[id].betters = NoBets
  BY <1>1 DEF RowInv, GoodRow
<1>3. game.betters = NoBets /\ EscrowPhase(game) = "idle"
  BY DEF NewBet, EscrowPhase
<1>4. EscrowPhase(bettings[id]) = "idle"
  BY <1>1 DEF EscrowPhase
<1>5. bettings' = [bettings EXCEPT ![id] = game] /\ wallet' = wallet /\ vault' = vault
  BY DEF createbet
<1> HIDE DEF id, game
<1> QED BY <1>1, <1>2, <1>3, <1>4, <1>5, SameGame DEF RowInv

LEMMA SetLiveStep ==
  ASSUME RowInv, NEW id \in BetIds, SetLive(id)
  PROVE  Escrow!Open(id)
<1> DEFINE game == [bettings[id] EXCEPT !.status = "IS_LIVE", !.base_price = btc_price]
<1>1. bettings[id] \in betting /\ GoodRow(bettings[id]) /\ TypeOK
  BY DEF RowInv, TypeOK
<1>2. bettings[id].status = "NOT_STARTED" /\ bettings[id].betters = NoBets
  BY <1>1 DEF SetLive, GoodRow
<1>3. game.status = "IS_LIVE" /\ game.betters = NoBets
  BY <1>1, <1>2 DEF betting
<1>4. bettings' = [bettings EXCEPT ![id] = game] /\ wallet' = wallet /\ vault' = vault
  BY <1>1 DEF SetLive, TypeOK
<1> HIDE DEF game
<1>5. EscrowPhase(bettings[id]) = "idle" /\ EscrowPhase(game) = "open"
  BY <1>2, <1>3 DEF EscrowPhase
<1>6. Staked(bettings[id]) = Escrow!NoStakes
  BY <1>2, NothingStaked
<1>7. /\ EscrowPhases' = [EscrowPhases EXCEPT ![id] = "open"]
      /\ EscrowStakes' = EscrowStakes
  BY <1>1, <1>2, <1>3, <1>4, <1>5, MovePhase
<1> QED BY <1>1, <1>4, <1>5, <1>6, <1>7, GameView DEF Escrow!Open, Escrow!Move

LEMMA SetBettingFinishStep ==
  ASSUME RowInv, NEW id \in BetIds, SetBettingFinish(id)
  PROVE  Escrow!Lock(id)
<1> DEFINE game == [bettings[id] EXCEPT !.status = "BETTING_FINISH"]
<1>1. bettings[id] \in betting /\ TypeOK
  BY DEF RowInv, TypeOK
<1>2. bettings[id].status = "IS_LIVE"
  BY DEF SetBettingFinish, MayFinishBetting
<1>3. game.status = "BETTING_FINISH" /\ game.betters = bettings[id].betters
  BY <1>1 DEF betting
<1>4. bettings' = [bettings EXCEPT ![id] = game] /\ wallet' = wallet /\ vault' = vault
  BY <1>1 DEF SetBettingFinish, TypeOK
<1> HIDE DEF game
<1>5. EscrowPhase(bettings[id]) = "open" /\ EscrowPhase(game) = "locked"
  BY <1>2, <1>3 DEF EscrowPhase
<1>7. /\ EscrowPhases' = [EscrowPhases EXCEPT ![id] = "locked"]
      /\ EscrowStakes' = EscrowStakes
  BY <1>1, <1>3, <1>4, <1>5, MovePhase
<1> QED BY <1>1, <1>4, <1>5, <1>7, GameView DEF Escrow!Lock, Escrow!Move

LEMMA SetNotClaimedStep ==
  ASSUME RowInv, NEW id \in BetIds, SetNotClaimed(id)
  PROVE  UNCHANGED Escrow!vars
<1> DEFINE game == [bettings[id] EXCEPT !.status = "NOT_CLAIMED", !.final_price = btc_price]
<1>1. bettings[id] \in betting /\ TypeOK
  BY DEF RowInv, TypeOK
<1>2. bettings[id].status = "BETTING_FINISH"
  BY DEF SetNotClaimed
<1>3. game.status = "NOT_CLAIMED" /\ game.betters = bettings[id].betters
  BY <1>1 DEF betting
<1>4. bettings' = [bettings EXCEPT ![id] = game] /\ wallet' = wallet /\ vault' = vault
  BY <1>1 DEF SetNotClaimed, TypeOK
<1> HIDE DEF game
<1>5. EscrowPhase(bettings[id]) = "locked" /\ EscrowPhase(game) = "locked"
  BY <1>2, <1>3 DEF EscrowPhase
<1> QED BY <1>1, <1>3, <1>4, <1>5, SameGame

LEMMA RmbetStep ==
  ASSUME RowInv, NEW id \in BetIds, rmbet(id)
  PROVE  Escrow!Remove(id)
<1>1. TypeOK /\ bettings[id].status = "FINISHED"
  BY DEF RowInv, rmbet
<1>2. bettings' = [bettings EXCEPT ![id] = NoRow] /\ wallet' = wallet /\ vault' = vault
  BY DEF rmbet
<1>3. NoRow.status = "ABSENT" /\ NoRow.betters = NoBets
  BY DEF NoRow, NewBet
<1>4. EscrowPhase(bettings[id]) = "settled" /\ EscrowPhase(NoRow) = "idle"
  BY <1>1, <1>3 DEF EscrowPhase
<1>5. Staked(NoRow) = Escrow!NoStakes
  BY <1>3, NothingStaked
<1>6. /\ EscrowPhases' = [EscrowPhases EXCEPT ![id] = "idle"]
      /\ EscrowStakes' = [EscrowStakes EXCEPT ![id] = Escrow!NoStakes]
  BY <1>1, <1>2, <1>4, <1>5, ReplaceGame
<1>7. EscrowPhases[id] = "settled"
  BY <1>1, <1>4, GameView
<1> QED BY <1>2, <1>6, <1>7 DEF Escrow!Remove, Escrow!Move

LEMMA BetStep ==
  ASSUME RowInv, NEW u \in Users, NEW q \in Quantities, NEW id \in BetIds,
         NEW p \in Sides, bet(u, q, id, p)
  PROVE  Escrow!Deposit(id)
<1> DEFINE old == bettings[id]
           game == AddBetter(old, u, q, p)
<1>1. old \in betting /\ TypeOK /\ q \in Nat \ {0}
  BY BettingAssumption DEF RowInv, TypeOK
<1>2. game.betters = [old.betters EXCEPT ![p][u] = q] /\ game.status = "IS_LIVE"
      /\ old.status = "IS_LIVE"
  BY <1>1 DEF AddBetter, bet, betting
<1>3. bettings' = [bettings EXCEPT ![id] = game]
  BY <1>1 DEF bet, TypeOK
<1>4. old.betters["long"] \in [Users -> Nat] /\ old.betters["short"] \in [Users -> Nat]
      /\ old.betters \in [Sides -> [Users -> Nat]]
  BY <1>1 DEF betting, Sides
<1>5. old.betters["long"][u] = 0 /\ old.betters["short"][u] = 0
  BY <1>4 DEF bet, AlreadyBet, Betters, Sides
<1>6. wallet[u] \in Nat /\ wallet' = [wallet EXCEPT ![u] = @ - q] /\ vault' = vault + q
      /\ wallet \in [Users -> Nat]
  BY <1>1 DEF bet, TypeOK
<1> HIDE DEF game
<1>7. Staked(game) = [Staked(old) EXCEPT ![u] = q]
  <2>1. \A v \in Users : game.betters["long"][v] + game.betters["short"][v]
                          = IF v = u THEN q ELSE old.betters["long"][v] + old.betters["short"][v]
    <3> SUFFICES ASSUME NEW v \in Users
                 PROVE  game.betters["long"][v] + game.betters["short"][v]
                          = IF v = u THEN q ELSE old.betters["long"][v] + old.betters["short"][v]
      OBVIOUS
    <3>1. CASE p = "long"
      <4>1. game.betters["short"] = old.betters["short"]
            /\ game.betters["long"] = [old.betters["long"] EXCEPT ![u] = q]
        BY <1>2, <1>4, <3>1 DEF Sides
      <4> QED BY <1>1, <1>4, <1>5, <4>1
    <3>2. CASE p = "short"
      <4>1. game.betters["long"] = old.betters["long"]
            /\ game.betters["short"] = [old.betters["short"] EXCEPT ![u] = q]
        BY <1>2, <1>4, <3>2 DEF Sides
      <4> QED BY <1>1, <1>4, <1>5, <4>1
    <3> QED BY <3>1, <3>2 DEF Sides
  <2> QED BY <2>1 DEF Staked
<1>8. Staked(old)[u] = 0
  BY <1>5 DEF Staked
<1>9. EscrowPhase(old) = "open" /\ EscrowPhase(game) = "open"
  BY <1>2 DEF EscrowPhase
<1>10. EscrowPhases[id] = "open" /\ EscrowStakes[id] = Staked(old)
  BY <1>1, <1>9, GameView
<1>11. /\ EscrowPhases' = [EscrowPhases EXCEPT ![id] = "open"]
       /\ EscrowStakes' = [EscrowStakes EXCEPT ![id] = Staked(game)]
  BY <1>1, <1>3, <1>9, ReplaceGame
<1>12. [EscrowPhases EXCEPT ![id] = EscrowPhase(old)] = EscrowPhases
  BY DEF EscrowPhases
<1>13. [EscrowStakes EXCEPT ![id] = [@ EXCEPT ![u] = q]]
         = [EscrowStakes EXCEPT ![id] = [Staked(old) EXCEPT ![u] = q]]
  BY <1>10
<1>14. wallet[u] - wallet'[u] = q
  BY <1>1, <1>6
<1> HIDE DEF old
<1>15. EscrowPhases' = EscrowPhases
  BY <1>9, <1>11, <1>12
<1>16. EscrowStakes' = [EscrowStakes EXCEPT ![id][u] = q]
  BY <1>7, <1>11, <1>13
<1>17. EscrowStakes[id][u] = 0
  BY <1>8, <1>10
<1>18. /\ wallet' = [wallet EXCEPT ![u] = @ - (wallet[u] - wallet'[u])]
       /\ vault' = vault + (wallet[u] - wallet'[u])
       /\ wallet[u] - wallet'[u] > 0
  <2>1. q > 0
    BY <1>1
  <2> QED BY <1>6, <1>14, <2>1
<1> QED BY <1>10, <1>14, <1>15, <1>16, <1>17, <1>18 DEF Escrow!Deposit

\* What a transaction of the contract pays, as the escrow sees it.
LEMMA PaidIs ==
  ASSUME TypeOK, NEW pays \in [Users -> Nat], Pay(pays)
  PROVE  Escrow!Paid = pays /\ vault' = vault - Total(pays)
<1>1. \A u \in Users : wallet'[u] - wallet[u] = pays[u]
  BY DEF Pay, TypeOK
<1>2. Escrow!Paid = [u \in Users |-> pays[u]]
  BY <1>1 DEF Escrow!Paid
<1> QED BY <1>2 DEF Pay

LEMMA SetNoGameStep ==
  ASSUME RowInv, NEW id \in BetIds, SetNoGame(id)
  PROVE  Escrow!Refund(id)
<1> DEFINE game == [bettings[id] EXCEPT !.status = "NO_GAME", !.final_price = btc_price]
<1>1. bettings[id] \in betting /\ TypeOK
  BY DEF RowInv, TypeOK
<1>2. bettings[id].status = "IS_LIVE" /\ Pay(Refund(bettings[id]))
  BY DEF SetNoGame, MayFinishBetting
<1>3. game.status = "NO_GAME" /\ game.betters = bettings[id].betters
  BY <1>1 DEF betting
<1>4. bettings' = [bettings EXCEPT ![id] = game]
  BY <1>1 DEF SetNoGame, TypeOK
<1> HIDE DEF game
<1>5. EscrowPhase(bettings[id]) = "open" /\ EscrowPhase(game) = "settled"
  BY <1>2, <1>3 DEF EscrowPhase
<1>6. /\ EscrowPhases' = [EscrowPhases EXCEPT ![id] = "settled"]
      /\ EscrowStakes' = EscrowStakes
  BY <1>1, <1>3, <1>4, <1>5, MovePhase
<1>7. /\ bettings[id].betters["long"] \in [Users -> Nat]
      /\ bettings[id].betters["short"] \in [Users -> Nat]
  BY <1>1 DEF betting, Sides
<1>8. Refund(bettings[id]) = Staked(bettings[id]) /\ Refund(bettings[id]) \in [Users -> Nat]
  BY <1>7 DEF Refund, Staked
<1>9. Escrow!Paid = Staked(bettings[id]) /\ vault' = vault - Total(Staked(bettings[id]))
  BY <1>1, <1>2, <1>8, PaidIs
<1>10. EscrowPhases[id] = "open" /\ EscrowStakes[id] = Staked(bettings[id])
  BY <1>1, <1>5, GameView
<1>11. vault' = vault - Escrow!Total(EscrowStakes[id])
  BY <1>9, <1>10, EscrowTotal
<1> QED BY <1>6, <1>9, <1>10, <1>11 DEF Escrow!Refund, Escrow!Move

LEMMA ClaimbetStep ==
  ASSUME RowInv, NEW id \in BetIds, claimbet(id)
  PROVE  Escrow!Settle(id)
<1> DEFINE old == bettings[id]
           game == [old EXCEPT !.status = "FINISHED"]
           win == WinSide(old)
           long == old.betters["long"]
           short == old.betters["short"]
<1>1. old \in betting /\ GoodRow(old) /\ TypeOK
  BY DEF RowInv, TypeOK
<1>2. /\ old.status = "NOT_CLAIMED" /\ Pay(Payout(old))
      /\ \A s \in Sides : Betters(old, s) # {}
  BY DEF claimbet, TwoSided, Sides
<1>3. game.status = "FINISHED" /\ game.betters = old.betters
  BY <1>1 DEF betting
<1>4. bettings' = [bettings EXCEPT ![id] = game]
  BY <1>1 DEF claimbet, TypeOK
<1> HIDE DEF game
<1>5. EscrowPhase(old) = "locked" /\ EscrowPhase(game) = "settled"
  BY <1>2, <1>3 DEF EscrowPhase
<1>6. /\ EscrowPhases' = [EscrowPhases EXCEPT ![id] = "settled"]
      /\ EscrowStakes' = EscrowStakes
  BY <1>1, <1>3, <1>4, <1>5, MovePhase
<1>7. EscrowPhases[id] = "locked" /\ EscrowStakes[id] = Staked(old)
  BY <1>1, <1>5, GameView
<1>8. /\ Payout(old) \in [Users -> Nat]
      /\ Total(Payout(old)) <= old.amount["long"] + old.amount["short"]
  BY <1>1, <1>2, PayoutBound
<1>9. Escrow!Paid = Payout(old) /\ vault' = vault - Total(Payout(old))
  BY <1>1, <1>2, <1>8, PaidIs
<1>10. long \in [Users -> Nat] /\ short \in [Users -> Nat] /\ win \in Sides
  BY <1>1 DEF betting, Sides, WinSide
<1>11. Total(Staked(old)) = old.amount["long"] + old.amount["short"]
  <2>1. Total(Staked(old)) = Total(long) + Total(short)
    BY <1>10, BettingAssumption, TotalAdd DEF Staked
  <2> QED BY <1>1, <2>1 DEF GoodRow, Sides
<1>12. ASSUME NEW u \in Users, u \notin Betters(old, win)
       PROVE  Payout(old)[u] = 0
  BY <1>12 DEF Payout
<1>13. ASSUME NEW u \in Users, u \in Betters(old, win)
       PROVE  Staked(old)[u] > 0 /\ Payout(old)[u] >= Staked(old)[u]
  BY <1>1, <1>13, WinnersKeepStake
<1>14. \A u \in Users : Escrow!Paid[u] = 0
                       \/ (EscrowStakes[id][u] > 0 /\ Escrow!Paid[u] >= EscrowStakes[id][u])
  BY <1>7, <1>9, <1>12, <1>13
<1>15. \E u \in Users : Escrow!Paid[u] > 0
  <2>1. PICK u \in Users : u \in Betters(old, win)
    BY <1>2, <1>10 DEF Betters
  <2>2. Payout(old)[u] \in Nat /\ Staked(old)[u] \in Nat
    BY <1>8, <1>10 DEF Staked
  <2>3. Payout(old)[u] > 0
    BY <1>13, <2>1, <2>2
  <2> QED BY <1>9, <2>3
<1>16. Total(Escrow!Paid) <= Total(EscrowStakes[id])
  BY <1>7, <1>8, <1>9, <1>11
<1>17. /\ Escrow!Total(Escrow!Paid) <= Escrow!Total(EscrowStakes[id])
       /\ vault' = vault - Escrow!Total(Escrow!Paid)
  BY <1>9, <1>16, EscrowTotal
<1>18. EscrowPhases[id] = "locked" /\ EscrowPhases' = [EscrowPhases EXCEPT ![id] = "settled"]
       /\ EscrowStakes' = EscrowStakes
  BY <1>6, <1>7
<1> HIDE DEF old, game, win, long, short
<1> QED BY <1>14, <1>15, <1>17, <1>18 DEF Escrow!Settle, Escrow!Move

\* Every transaction is a step of the escrow, or leaves it unchanged.
LEMMA EscrowStep ==
  ASSUME RowInv, [Next]_vars
  PROVE  [Escrow!Next]_Escrow!vars
<1>1. ASSUME UNCHANGED <<bettings, wallet, vault>>
      PROVE  UNCHANGED Escrow!vars
  BY <1>1 DEF Escrow!vars, EscrowPhases, EscrowPhase, EscrowStakes, Staked
<1>2. CASE Tick
  BY <1>1, <1>2 DEF Tick
<1>3. ASSUME NEW p \in Prices, setbtcprice(p)
      PROVE  [Escrow!Next]_Escrow!vars
  BY <1>1, <1>3 DEF setbtcprice
<1>4. ASSUME NEW t \in Schedules, createbet(t[1], t[2], t[3])
      PROVE  [Escrow!Next]_Escrow!vars
  BY <1>4, CreatebetStep
<1>5. ASSUME NEW id \in BetIds, setbet(id)
      PROVE  [Escrow!Next]_Escrow!vars
  BY <1>5, SetLiveStep, SetBettingFinishStep, SetNoGameStep, SetNotClaimedStep
     DEF setbet, Escrow!Next
<1>6. ASSUME NEW id \in BetIds, claimbet(id)
      PROVE  [Escrow!Next]_Escrow!vars
  BY <1>6, ClaimbetStep DEF Escrow!Next
<1>7. ASSUME NEW id \in BetIds, rmbet(id)
      PROVE  [Escrow!Next]_Escrow!vars
  BY <1>7, RmbetStep DEF Escrow!Next
<1>8. ASSUME NEW u \in Users, NEW q \in Quantities, NEW id \in BetIds, NEW p \in Sides,
             bet(u, q, id, p)
      PROVE  [Escrow!Next]_Escrow!vars
  BY <1>8, BetStep DEF Escrow!Next
<1>9. CASE UNCHANGED vars
  BY <1>1, <1>9 DEF vars
<1> QED BY <1>2, <1>3, <1>4, <1>5, <1>6, <1>7, <1>8, <1>9 DEF Next

-----------------------------------------------------------------------------
\* The betting games implement the escrow: whatever accounts, the service and
\* the reuse of keys do, every stake is given back or its game is settled once,
\* out of its own pot, and no winner gets less than the own stake.
THEOREM GamesAreEscrows == Spec => EscrowSpec
<1>1. Init => Escrow!Init
  BY EscrowInit
<1>2. IInv /\ [Next]_vars => [Escrow!Next]_Escrow!vars
  BY EscrowStep DEF IInv
<1> QED BY <1>1, <1>2, Invariance, PTL DEF Spec, EscrowSpec, Escrow!Spec

=============================================================================
