--------------------------- MODULE LemonadeProofs ---------------------------
(***************************************************************************)
(* The deployed contract, for any users, games, products and memos: games  *)
(* and deposits share one clock, one configs row and one LED balance, and  *)
(* neither spends or records what is the other's.                          *)
(*                                                                         *)
(* A step of the contract is an operation on deposits that leaves the      *)
(* games alone, an operation on games that leaves the deposits alone, or a *)
(* transfer that only moves LED (DepositsPart, GamesPart and PlainPart).   *)
(* The invariant LInv joins SInv of the deposits, RowInv of the games, and *)
(* that a staking without a balance is no row.  The games' invariant IInv  *)
(* does not hold here: interest is paid from the LED the pots are in.      *)
(***************************************************************************)
EXTENDS Lemonade, RewardProofs

\* The games again, with what is proved about them.
GP == INSTANCE BettingRefinement

DepositsPart == Next /\ UNCHANGED gameVars
GamesPart == GP!Next /\ UNCHANGED tables
PlainPart(u, q) == MoveLed(u, q, 0) /\ UNCHANGED <<tables, gameVars>>

\* No row is stored for a deposit without a balance.
EmptyRows ==
  \A u \in Users, id \in ProductIds :
    stakings[u][id].balance = 0 => stakings[u][id] = NoStaking

LInv == SInv /\ GP!RowInv /\ EmptyRows

-----------------------------------------------------------------------------
(***************************************************************************)
(* The games of Lemonade are the games the theorems are about.             *)
(***************************************************************************)
\* The assumption of module Betting.
LEMMA GameConstants ==
  /\ GP!IsFiniteSet(Users)
  /\ MaxBetId \in Nat
  /\ Quantities \subseteq Nat \ {0}
  /\ Schedules \subseteq Nat \X Nat \X Nat
  /\ MaxTime \in Nat
  /\ Prices \subseteq Nat
  /\ Funds \in Nat
  /\ Reserve \in Nat
  /\ U64 \in Nat \ {0}
BY IssuanceAssumption, StakingAssumption, LemonadeAssumption DEF GP!IsFiniteSet, IsFiniteSet

\* Both instances sum as the deposits do.
LEMMA SameSums ==
  ASSUME NEW f
  PROVE  Games!Total(f) = Total(f) /\ GP!Total(f) = Total(f)
BY DEF Games!Total, GP!Total, Total, Games!Units, GP!Units, Units,
       Games!Cardinality, GP!Cardinality, Cardinality

\* And they have the same rows, sides and keys.
LEMMA SameRows ==
  /\ Games!BetIds = GP!BetIds /\ Games!Sides = GP!Sides /\ Games!NoRow = GP!NoRow
  /\ Games!Unsettled = GP!Unsettled
  /\ \A game : /\ Games!Pot(game) = GP!Pot(game) /\ Games!Staked(game) = GP!Staked(game)
               /\ Games!WinSide(game) = GP!WinSide(game)
               /\ \A s : Games!Betters(game, s) = GP!Betters(game, s)
  /\ \A s : Games!Other(s) = GP!Other(s)
BY DEF Games!BetIds, GP!BetIds, Games!Sides, GP!Sides, Games!NoRow, GP!NoRow,
       Games!NewBet, GP!NewBet, Games!NoBets, GP!NoBets, Games!Unsettled, GP!Unsettled,
       Games!Pot, GP!Pot, Games!Staked, GP!Staked, Games!WinSide, GP!WinSide,
       Games!Betters, GP!Betters, Games!Other, GP!Other

\* The operations of the games.
LEMMA SameOperations ==
  /\ \A p : Games!setbtcprice(p) => GP!setbtcprice(p)
  /\ \A s, b, e : Games!createbet(s, b, e) => GP!createbet(s, b, e)
  /\ \A id : /\ Games!setbet(id) => GP!setbet(id)
             /\ Games!claimbet(id) => GP!claimbet(id)
             /\ Games!rmbet(id) => GP!rmbet(id)
  /\ \A u, q, id, s : Games!bet(u, q, id, s) => GP!bet(u, q, id, s)
<1>1. ASSUME NEW p, Games!setbtcprice(p) PROVE GP!setbtcprice(p)
  BY <1>1 DEF Games!setbtcprice, GP!setbtcprice
<1>2. ASSUME NEW s, NEW b, NEW e, Games!createbet(s, b, e) PROVE GP!createbet(s, b, e)
  BY <1>2
     DEF Games!createbet, GP!createbet, Games!AvailableKey, GP!AvailableKey, Games!Rows,
         GP!Rows, Games!BetIds, GP!BetIds, Games!NewBet, GP!NewBet, Games!NoBets, GP!NoBets,
         Games!Sides, GP!Sides
<1>3. ASSUME NEW id, Games!setbet(id) PROVE GP!setbet(id)
  BY <1>3
     DEF Games!setbet, GP!setbet, Games!SetLive, GP!SetLive,
         Games!SetBettingFinish, GP!SetBettingFinish, Games!SetNoGame, GP!SetNoGame,
         Games!SetNotClaimed, GP!SetNotClaimed, Games!MayFinishBetting, GP!MayFinishBetting,
         Games!TwoSided, GP!TwoSided, Games!Betters, GP!Betters, Games!Refund, GP!Refund,
         Games!Pay, GP!Pay, Games!Total, GP!Total, Games!Units, GP!Units,
         Games!Cardinality, GP!Cardinality
<1>4. ASSUME NEW id, Games!claimbet(id) PROVE GP!claimbet(id)
  BY <1>4
     DEF Games!claimbet, GP!claimbet, Games!TwoSided, GP!TwoSided, Games!Betters, GP!Betters,
         Games!Pay, GP!Pay, Games!Payout, GP!Payout, Games!Share, GP!Share,
         Games!BettingRatio, GP!BettingRatio, Games!WinSide, GP!WinSide, Games!Other, GP!Other,
         Games!Total, GP!Total, Games!Units, GP!Units, Games!Cardinality, GP!Cardinality
<1>5. ASSUME NEW id, Games!rmbet(id) PROVE GP!rmbet(id)
  BY <1>5 DEF Games!rmbet, GP!rmbet, Games!NoRow, GP!NoRow, Games!NewBet, GP!NewBet,
              Games!NoBets, GP!NoBets, Games!Sides, GP!Sides
<1>6. ASSUME NEW u, NEW q, NEW id, NEW s, Games!bet(u, q, id, s) PROVE GP!bet(u, q, id, s)
  BY <1>6 DEF Games!bet, GP!bet, Games!AlreadyBet, GP!AlreadyBet, Games!Betters, GP!Betters,
              Games!AddBetter, GP!AddBetter, Games!Dividend, GP!Dividend, Games!Sides, GP!Sides
<1> QED BY <1>1, <1>2, <1>3, <1>4, <1>5, <1>6

-----------------------------------------------------------------------------
(***************************************************************************)
(* A step of the contract is a step of its parts.                          *)
(***************************************************************************)
\* What a transfer is for decides which part runs.
LEMMA TransferSteps ==
  ASSUME NEW u \in Users, NEW q \in Quantities, NEW memo \in Memos, transfer_event(u, q, memo)
  PROVE  DepositsPart \/ GamesPart \/ (PlainPart(u, q) /\ PlainTransfer(u, q, memoParser(memo)))
<1> DEFINE event == memoParser(memo)
<1>1. CASE StakeTransfer(u, q, event)
  <2>1. PICK id \in Offers : stake(u, q, id, PredictionOf(event))
    BY <1>1 DEF StakeTransfer
  <2>2. id \in ProductIds /\ PredictionOf(event) \in Predictions
    BY DEF Offers, PredictionOf, Predictions
  <2>3. Next
    BY <2>1, <2>2 DEF Next
  <2> QED BY <1>1, <2>3 DEF StakeTransfer, DepositsPart
<1>2. CASE BetTransfer(u, q, event)
  <2>1. PICK id \in Games!BetIds, p \in PositionsOf(event) : Games!bet(u, q, id, p)
    BY <1>2 DEF BetTransfer
  <2>2. p \in Games!Sides
    BY DEF PositionsOf
  <2>3. GP!bet(u, q, id, p) /\ id \in GP!BetIds /\ p \in GP!Sides
    BY <2>1, <2>2, SameOperations, SameRows
  <2>4. GP!Next
    BY <2>3 DEF GP!Next
  <2> QED BY <1>2, <2>4 DEF BetTransfer, GamesPart, depositVars, tables
<1>3. CASE PlainTransfer(u, q, event)
  BY <1>3 DEF PlainTransfer, PlainPart, depositVars, tables, gameVars
<1> QED BY <1>1, <1>2, <1>3 DEF transfer_event

\* Every step of the contract is of one of the three kinds.
LEMMA LemonadeSteps ==
  ASSUME LemonadeNext
  PROVE  \/ DepositsPart
         \/ GamesPart
         \/ \E u \in Users, q \in Quantities, memo \in Memos :
              PlainPart(u, q) /\ PlainTransfer(u, q, memoParser(memo))
<1>1. CASE GameOperations
  <2>1. GP!Next
    <3>1. ASSUME NEW p \in Prices, Games!setbtcprice(p) PROVE GP!Next
      <4>1. GP!setbtcprice(p)
        BY <3>1, SameOperations
      <4> QED BY <4>1 DEF GP!Next
    <3>2. ASSUME NEW t \in Schedules, Games!createbet(t[1], t[2], t[3]) PROVE GP!Next
      <4>1. GP!createbet(t[1], t[2], t[3])
        BY <3>2, SameOperations
      <4> QED BY <4>1 DEF GP!Next
    <3>3. ASSUME NEW id \in Games!BetIds,
                 Games!setbet(id) \/ Games!claimbet(id) \/ Games!rmbet(id)
          PROVE  GP!Next
      <4>1. id \in GP!BetIds /\ (GP!setbet(id) \/ GP!claimbet(id) \/ GP!rmbet(id))
        BY <3>3, SameOperations, SameRows
      <4> QED BY <4>1 DEF GP!Next
    <3> QED BY <1>1, <3>1, <3>2, <3>3 DEF GameOperations
  <2> QED BY <1>1, <2>1 DEF GameOperations, GamesPart, depositVars, tables
<1>2. CASE DepositOperations
  <2>1. Next
    BY <1>2 DEF DepositOperations, Next
  <2> QED BY <1>2, <2>1 DEF DepositOperations, DepositsPart
<1>3. CASE \E u \in Users, q \in Quantities, memo \in Memos : transfer_event(u, q, memo)
  BY <1>3, TransferSteps
<1> QED BY <1>1, <1>2, <1>3 DEF LemonadeNext

\* The games' part of the invariant depends on the table, the clock and the LED.
LEMMA GameRowsUnchanged ==
  ASSUME GP!RowInv, UNCHANGED gameVars, now' \in Nat, wallet' \in [Users -> Nat], vault' \in Nat
  PROVE  GP!RowInv'
<1>1. bettings' = bettings /\ btc_price' = btc_price
  BY DEF gameVars
<1>2. GP!TypeOK'
  BY <1>1 DEF GP!RowInv, GP!TypeOK
<1>3. (\A id \in GP!BetIds : GP!GoodRow(bettings[id]))'
  BY <1>1 DEF GP!RowInv, GP!GoodRow, GP!Betters, GP!Total, GP!Units
<1> QED BY <1>2, <1>3 DEF GP!RowInv

\* Steps that leave the deposits alone and keep the types of the LED balances.
LEMMA DepositsUnchanged ==
  ASSUME SInv, UNCHANGED tables, wallet' \in [Users -> Nat], vault' \in Nat
  PROVE  SInv'
<1>1. /\ now' = now /\ configs' = configs /\ lem' = lem /\ led_price' = led_price
      /\ products' = products /\ stakings' = stakings
  BY DEF tables, issuanceVars
<1>2. ClockInv' /\ now <= now'
  BY <1>1, LedgerKeepsClock DEF SInv, ClockInv, IssuanceTypeOK
<1>3. TypeOK'
  BY <1>1, <1>2 DEF SInv, TypeOK, ClockInv
<1> QED BY <1>1, <1>2, <1>3, TablesUnchanged

\* Each operation on a row writes a balance or erases the row.
LEMMA EmptyRowsKept ==
  ASSUME SInv, SInv', EmptyRows, DepositsStep
  PROVE  EmptyRows'
<1> SUFFICES ASSUME NEW u \in Users, NEW id \in ProductIds, stakings'[u][id].balance = 0
             PROVE  stakings'[u][id] = NoStaking
  BY DEF EmptyRows
<1> DEFINE old == stakings[u][id]
           new == stakings'[u][id]
<1>0. stakings \in [Users -> [ProductIds -> staking]] /\ old \in staking
  BY DEF SInv, TypeOK
<1>1. CASE new = old
  BY <1>1 DEF EmptyRows
<1>2. CASE new # old
  <2>1. DepositOperation(u, id)
    BY <1>2, RowChanges
  <2>2. CASE unstake(u, id)
    BY <1>0, <2>2 DEF unstake
  <2>3. ASSUME NEW q \in Quantities, NEW p \in Predictions, StakeNew(u, q, id, p) PROVE FALSE
    <3>1. new = NewStaking(products[id].offer, q, p)
      BY <1>0, <2>3 DEF StakeNew
    <3>2. q \in Nat /\ q > 0
      BY Numbers
    <3> QED BY <3>1, <3>2 DEF NewStaking
  <2>4. CASE Holds(u, id) /\ ~unstake(u, id)
    <3>1. new.balance >= old.balance /\ old.balance > 0 /\ old.balance \in Nat
      BY <2>1, <2>4, BalanceGrows
    <3> QED BY <3>1
  <2> QED BY <2>1, <2>2, <2>3, <2>4
         DEF DepositOperation, StakeMore, claimled, claimlem, changeyield
<1> QED BY <1>1, <1>2

\* The invariant holds in every reachable state of the deployed contract.
LEMMA LemonadeStep ==
  ASSUME LInv, LemonadeNext
  PROVE  LInv'
<1>1. now \in Nat /\ TypeOK /\ SInv /\ GP!RowInv /\ EmptyRows
  BY DEF LInv, SInv, TypeOK, IssuanceTypeOK
<1>2. CASE DepositsPart
  <2>1. SInv'
    BY <1>1, <1>2, DepositStepInv DEF DepositsPart
  <2>2. now' \in Nat /\ wallet' \in [Users -> Nat] /\ vault' \in Nat
    BY <2>1 DEF SInv, TypeOK, IssuanceTypeOK
  <2>3. GP!RowInv'
    BY <1>1, <1>2, <2>2, GameRowsUnchanged DEF DepositsPart
  <2>4. EmptyRows'
    BY <1>1, <1>2, <2>1, EmptyRowsKept DEF DepositsPart, DepositsStep
  <2> QED BY <2>1, <2>3, <2>4 DEF LInv
<1>3. CASE GamesPart
  <2>1. GP!RowsKept
    BY <1>1, <1>3, GameConstants, GP!RowsStep DEF GamesPart
  <2>2. wallet' \in [Users -> Nat] /\ vault' \in Nat
    BY <2>1 DEF GP!RowsKept, GP!RowInv, GP!TypeOK
  <2>3. SInv'
    BY <1>1, <1>3, <2>2, DepositsUnchanged DEF GamesPart
  <2>4. EmptyRows'
    BY <1>1, <1>3, <2>3, EmptyRowsKept DEF GamesPart, DepositsStep
  <2> QED BY <2>1, <2>3, <2>4 DEF LInv, GP!RowsKept
<1>4. ASSUME NEW u \in Users, NEW q \in Quantities, PlainPart(u, q) PROVE LInv'
  <2>1. wallet' \in [Users -> Nat] /\ vault' \in Nat
    BY <1>1, <1>4, Numbers, MoveLedType DEF PlainPart
  <2>2. SInv' /\ now' \in Nat
    BY <1>1, <1>4, <2>1, DepositsUnchanged DEF PlainPart, tables, issuanceVars
  <2>3. GP!RowInv'
    BY <1>1, <1>4, <2>1, <2>2, GameRowsUnchanged DEF PlainPart
  <2>4. EmptyRows'
    BY <1>1, <1>4, <2>2, EmptyRowsKept DEF PlainPart, DepositsStep
  <2> QED BY <2>2, <2>3, <2>4 DEF LInv
<1> QED BY <1>2, <1>3, <1>4, LemonadeSteps

\* At first nothing is deposited and there are no games.
LEMMA LemonadeStart ==
  ASSUME LemonadeInit
  PROVE  LInv
<1>1. SInv
  BY NothingDeposited DEF LemonadeInit
<1>2. GP!RowInv
  <2>1. GP!Init
    BY SameRows DEF LemonadeInit, Init, IssuanceInit, GP!Init
  <2> QED BY <2>1, GameConstants, GP!InitInv DEF GP!IInv
<1>3. EmptyRows
  BY DEF LemonadeInit, Init, EmptyRows, NoStaking
<1> QED BY <1>1, <1>2, <1>3 DEF LInv

\* Games and deposits keep each other's invariants.
THEOREM LemonadeInvariance == LemonadeSpec => []LInv
<1>1. LemonadeInit => LInv
  BY LemonadeStart
<1>2. ASSUME LInv, UNCHANGED allVars PROVE LInv'
  <2>1. UNCHANGED tables /\ UNCHANGED gameVars /\ wallet' = wallet /\ vault' = vault /\ now' = now
    BY <1>2 DEF allVars, vars, tables, gameVars, issuanceVars, ledVars
  <2>2. now \in Nat /\ wallet \in [Users -> Nat] /\ vault \in Nat /\ SInv /\ GP!RowInv
    BY <1>2 DEF LInv, SInv, TypeOK, IssuanceTypeOK
  <2>3. SInv' /\ GP!RowInv'
    BY <2>1, <2>2, DepositsUnchanged, GameRowsUnchanged
  <2>4. EmptyRows'
    BY <1>2, <2>1 DEF LInv, EmptyRows, tables
  <2> QED BY <2>3, <2>4 DEF LInv
<1>3. LInv /\ [LemonadeNext]_allVars => LInv'
  BY <1>2, LemonadeStep
<1> QED BY <1>1, <1>3, PTL DEF LemonadeSpec

-----------------------------------------------------------------------------
(***************************************************************************)
(* The LED the contract may spend.                                         *)
(***************************************************************************)
\* A deposit has been paid no more than its interest until now.
LEMMA InterestLeftNat ==
  ASSUME LInv, NEW u \in Users, NEW id \in ProductIds
  PROVE  InterestLeft(u, id) \in Nat
<1> DEFINE row == stakings[u][id]
           terms == products[id].offer
           max == terms.maximum_yield
           s == row.last_claim_led_reward - row.started_at
           t == now - row.started_at
<1>1. /\ SInv /\ now \in Nat /\ max \in Nat
      /\ row \in staking /\ row.balance \in Nat
  <2>1. SInv /\ TypeOK /\ now \in Nat
    BY DEF LInv, SInv, TypeOK, IssuanceTypeOK
  <2> QED BY <2>1, TableTypes DEF staking, offer
<1>2. InterestLeft(u, id) = Interest(row.balance, max, t) - row.led_rewards
  BY DEF InterestLeft
<1>3. CASE row.balance = 0
  <2>1. row = NoStaking
    BY <1>3 DEF LInv, EmptyRows
  <2>2. t = now /\ row.led_rewards = 0 /\ t \in Nat
    BY <1>1, <2>1 DEF NoStaking
  <2>3. Interest(row.balance, max, t) \in Nat
    BY <1>1, <2>2, InterestNat
  <2> QED BY <1>2, <2>2, <2>3
<1>4. CASE row.balance > 0
  <2>1. Holds(u, id)
    BY <1>1, <1>4 DEF Holds, SInv, GoodDeposits
  <2>2. /\ row.led_rewards \in Nat /\ row.started_at \in Nat /\ row.last_claim_led_reward \in Nat
        /\ GoodRow(row, terms, now)
    BY <1>1, <2>1, HeldRow
  <2>3. s \in Nat /\ t \in Nat /\ s <= t /\ row.led_rewards <= Interest(row.balance, max, s)
    BY <1>1, <2>2 DEF GoodRow
  <2> HIDE DEF row, max, s, t
  <2>4. /\ Interest(row.balance, max, s) <= Interest(row.balance, max, t)
        /\ Interest(row.balance, max, s) \in Nat /\ Interest(row.balance, max, t) \in Nat
    BY <1>1, <2>3, InterestLater, InterestNat
  <2> QED BY <1>2, <2>2, <2>3, <2>4
<1> QED BY <1>1, <1>3, <1>4

\* The interest a step may pay.
Spending == Total([u \in Users |-> Total(PaidInterest(u))])

\* It covers that of each deposit the step touches.
LEMMA SpendingCovers ==
  ASSUME LInv
  PROVE  /\ Spending \in Nat
         /\ \A u \in Users, id \in ProductIds :
              stakings'[u][id] # stakings[u][id] => InterestLeft(u, id) <= Spending
<1> DEFINE f == [u \in Users |-> Total(PaidInterest(u))]
<1>1. \A u \in Users : PaidInterest(u) \in [ProductIds -> Nat]
  BY InterestLeftNat DEF PaidInterest
<1>2. IsFiniteSet(Users) /\ IsFiniteSet(ProductIds)
  BY StakingAssumption, ProductIdsFinite
<1>3. f \in [Users -> Nat]
  BY <1>1, <1>2, TotalNat
<1>4. Spending = Total(f)
  BY DEF Spending
<1>5. ASSUME NEW u \in Users, NEW id \in ProductIds, stakings'[u][id] # stakings[u][id]
      PROVE  InterestLeft(u, id) <= Spending
  <2>1. PaidInterest(u)[id] = InterestLeft(u, id)
    BY <1>5 DEF PaidInterest
  <2>2. PaidInterest(u)[id] <= Total(PaidInterest(u)) /\ Total(PaidInterest(u)) \in Nat
    BY <1>1, <1>2, TotalMember, TotalNat
  <2>3. f[u] = Total(PaidInterest(u))
    OBVIOUS
  <2> HIDE DEF f
  <2>4. f[u] <= Total(f) /\ Total(f) \in Nat
    BY <1>2, <1>3, TotalMember, TotalNat
  <2> QED BY <1>4, <2>1, <2>2, <2>3, <2>4, InterestLeftNat
<1> HIDE DEF f
<1>6. Spending \in Nat
  BY <1>2, <1>3, <1>4, TotalNat
<1> QED BY <1>5, <1>6

\* The principal in all products, when one of them changes.
LEMMA ProductReplaced ==
  ASSUME TypeOK, NEW id \in ProductIds, NEW p, p.current_amount \in Nat,
         products' = [products EXCEPT ![id] = p]
  PROVE  /\ Principals \in Nat /\ products[id].current_amount \in Nat
         /\ Principals' = Principals - products[id].current_amount + p.current_amount
<1> DEFINE f == [i \in ProductIds |-> products[i].current_amount]
<1>1. f \in [ProductIds -> Nat] /\ IsFiniteSet(ProductIds)
  BY ProductIdsFinite DEF TypeOK, product
<1>2. Principals = Total(f) /\ Principals' = Total([i \in ProductIds |-> products'[i].current_amount])
  BY DEF Principals, Total, Units
<1>3. [i \in ProductIds |-> products'[i].current_amount] = [f EXCEPT ![id] = p.current_amount]
  BY DEF TypeOK
<1>4. f[id] = products[id].current_amount
  OBVIOUS
<1> HIDE DEF f
<1>5. Total(f) \in Nat /\ Total([f EXCEPT ![id] = p.current_amount]) = Total(f) - f[id] + p.current_amount
  BY <1>1, TotalNat, TotalUpdate
<1> QED BY <1>1, <1>2, <1>3, <1>4, <1>5

\* What the three payments on a deposit come to, against the interest left.
LEMMA PaymentsWithin ==
  ASSUME LInv, NEW u \in Users, NEW id \in ProductIds, Holds(u, id),
         NEW row, row = stakings[u][id], NEW terms, terms = products[id].offer
  PROVE  LET topup == Interest(row.balance, row.current_yield, now - row.started_at)
                        - row.led_rewards
             claim == Interest(row.balance, row.current_yield,
                               ClaimEnd(row, terms) - row.last_claim_led_reward)
         IN  /\ topup \in Int /\ topup <= InterestLeft(u, id)
             /\ claim \in Int /\ claim <= InterestLeft(u, id)
             /\ Matured(row) => /\ UnstakeLed(row, terms) \in Int
                                /\ UnstakeLed(row, terms) - row.balance <= InterestLeft(u, id)
<1> DEFINE b == row.balance
           y == row.current_yield
           max == terms.maximum_yield
           s == row.last_claim_led_reward - row.started_at
           t == now - row.started_at
           c == ClaimEnd(row, terms) - row.last_claim_led_reward
           e == UnstakeEnd(row, terms) - row.started_at
           z == FinalYield(row, terms)
<1>1. /\ row \in staking /\ b \in Nat /\ y \in Nat /\ row.led_rewards \in Nat
      /\ row.started_at \in Nat /\ row.ended_at \in Nat /\ row.last_claim_led_reward \in Nat
      /\ now \in Nat /\ GoodRow(row, terms, now) /\ SInv
  BY HeldRow DEF LInv
<1>2. terms \in offer /\ terms.minimum_yield \in Nat /\ max \in Nat
  BY <1>1, TermTypes
<1>3. InterestLeft(u, id) = Interest(b, max, t) - row.led_rewards
  BY DEF InterestLeft
<1>4. /\ y <= max /\ s \in Nat /\ t \in Nat /\ s <= t
      /\ row.led_rewards <= Interest(b, max, s)
  BY <1>1, <1>2 DEF GoodRow
<1>5. c \in Nat /\ s + c \in Nat /\ s + c <= t
  <2>1. /\ ClaimEnd(row, terms) \in Nat /\ ClaimEnd(row, terms) <= now
        /\ row.last_claim_led_reward <= ClaimEnd(row, terms)
    BY <1>1, <1>2, InterestEnds
  <2> QED BY <1>1, <1>4, <2>1
<1>6. z \in Nat /\ z <= max
  BY <1>1, <1>2 DEF FinalYield, GoodRow
<1>7. Matured(row) => e \in Nat /\ e <= t
  <2> SUFFICES ASSUME Matured(row) PROVE e \in Nat /\ e <= t
    OBVIOUS
  <2>1. /\ UnstakeEnd(row, terms) \in Nat /\ UnstakeEnd(row, terms) <= now
        /\ row.last_claim_led_reward <= UnstakeEnd(row, terms)
    BY <1>1, <1>2, InterestEnds
  <2>2. row.started_at <= row.last_claim_led_reward
    BY <1>1 DEF GoodRow
  <2> QED BY <1>1, <2>1, <2>2
<1>8. UnstakeLed(row, terms) = b + Interest(b, z, e) - row.led_rewards
  BY DEF UnstakeLed
<1> HIDE DEF b, y, max, s, t, c, e, z
<1>9. Interest(b, y, t) \in Nat /\ Interest(b, max, t) \in Nat /\ Interest(b, y, t) <= Interest(b, max, t)
  BY <1>1, <1>2, <1>4, InterestNat, InterestGrows
<1>10. Interest(b, y, c) \in Nat /\ row.led_rewards + Interest(b, y, c) <= Interest(b, max, t)
  <2>1. row.led_rewards + Interest(b, y, c) <= Interest(b, max, s + c)
    BY <1>1, <1>2, <1>4, <1>5, ClaimWithin
  <2>2. Interest(b, max, s + c) <= Interest(b, max, t) /\ Interest(b, max, s + c) \in Nat
    BY <1>1, <1>2, <1>4, <1>5, InterestLater, InterestNat
  <2>3. Interest(b, y, c) \in Nat
    BY <1>1, <1>5, InterestNat
  <2> QED BY <1>1, <1>9, <2>1, <2>2, <2>3
<1>11. Matured(row) => Interest(b, z, e) \in Nat /\ Interest(b, z, e) <= Interest(b, max, t)
  <2> SUFFICES ASSUME Matured(row)
               PROVE  Interest(b, z, e) \in Nat /\ Interest(b, z, e) <= Interest(b, max, t)
    OBVIOUS
  <2>1. e \in Nat /\ e <= t
    BY <1>7
  <2>2. Interest(b, z, e) <= Interest(b, max, e) /\ Interest(b, max, e) <= Interest(b, max, t)
    BY <1>1, <1>2, <1>4, <1>6, <2>1, InterestGrows, InterestLater
  <2>3. Interest(b, z, e) \in Nat /\ Interest(b, max, e) \in Nat
    BY <1>1, <1>2, <1>6, <2>1, InterestNat
  <2> QED BY <1>9, <2>2, <2>3
<1>12. /\ Interest(b, y, t) - row.led_rewards \in Int
       /\ Interest(b, y, t) - row.led_rewards <= InterestLeft(u, id)
       /\ Interest(b, y, c) \in Int /\ Interest(b, y, c) <= InterestLeft(u, id)
  BY <1>1, <1>3, <1>9, <1>10
<1>13. Matured(row) => /\ UnstakeLed(row, terms) \in Int
                       /\ UnstakeLed(row, terms) - b <= InterestLeft(u, id)
  BY <1>1, <1>3, <1>8, <1>9, <1>11
<1> QED BY <1>12, <1>13 DEF b, y, t, c

\* The products of a table hold a total, and the games of one have pots.
LEMMA CommittedNat ==
  ASSUME LInv
  PROVE  Principals \in Nat /\ Pots \in Nat /\ vault \in Nat
<1>1. TypeOK /\ GP!RowInv
  BY DEF LInv, SInv
<1>2. Principals \in Nat
  <2>1. [id \in ProductIds |-> products[id].current_amount] \in [ProductIds -> Nat]
    BY <1>1 DEF TypeOK, product
  <2> QED BY <2>1, ProductIdsFinite, TotalNat DEF Principals
<1>3. Pots \in Nat
  <2>1. GP!Total([id \in GP!BetIds |-> GP!Pot(bettings[id])]) \in Nat
    BY <1>1, GameConstants, GP!PotsTotal DEF GP!RowInv, GP!TypeOK
  <2>2. Pots = Total([id \in GP!BetIds |-> GP!Pot(bettings[id])])
    BY SameRows DEF Pots
  <2> QED BY <2>1, <2>2, SameSums
<1> QED BY <1>1, <1>2, <1>3 DEF TypeOK

\* The same after a step.
LEMMA CommittedLater == LInv' => Principals' \in Nat /\ Pots' \in Nat
<1>1. LInv => (Principals \in Nat /\ Pots \in Nat)
  BY CommittedNat
<1>2. LInv' => (Principals \in Nat /\ Pots \in Nat)'
  BY <1>1, PTL
<1> QED BY <1>2

\* A payment on a deposit that takes no more than the interest left on it and
\* what it takes off the principal.
LEMMA PaymentSpends ==
  ASSUME LInv, NEW u \in Users, NEW id \in ProductIds,
         NEW in \in Nat, NEW out \in Int, NEW d \in Int, MoveLed(u, in, out),
         Principals' = Principals + d, stakings'[u][id] # stakings[u][id],
         d <= in, d - in + out <= InterestLeft(u, id)
  PROVE  vault' - Principals' >= vault - Principals - Spending
<1>1. /\ Spending \in Nat /\ InterestLeft(u, id) \in Nat
      /\ InterestLeft(u, id) <= Spending
  BY SpendingCovers, InterestLeftNat
<1>2. vault \in Nat /\ Principals \in Nat
  BY CommittedNat
<1>3. vault' = vault + in - (IF out > 0 THEN out ELSE 0)
  BY DEF MoveLed
<1>4. CASE out > 0
  BY <1>1, <1>2, <1>3, <1>4
<1>5. CASE ~(out > 0)
  BY <1>1, <1>2, <1>3, <1>5
<1> QED BY <1>4, <1>5

\* An operation that moves no LED and no principal.
LEMMA NothingSpent ==
  ASSUME LInv, vault' = vault, Principals' = Principals
  PROVE  vault' - Principals' >= vault - Principals - Spending
<1>1. Spending \in Nat /\ vault \in Nat /\ Principals \in Nat
  BY SpendingCovers, CommittedNat
<1> QED BY <1>1

\* An account's operations on a deposit.
LEMMA OperationSpends ==
  ASSUME LInv, NEW u \in Users, NEW id \in ProductIds, DepositOperation(u, id)
  PROVE  vault' - Principals' >= vault - Principals - Spending
<1> DEFINE row == stakings[u][id]
           terms == products[id].offer
           Goal == vault' - Principals' >= vault - Principals - Spending
<1>0. SInv /\ TypeOK /\ products \in [ProductIds -> product]
      /\ stakings \in [Users -> [ProductIds -> staking]] /\ row \in staking /\ row.balance \in Nat
      /\ products[id] \in product /\ products[id].current_amount \in Nat
  BY TableTypes DEF LInv, SInv, TypeOK
<1>1. ASSUME UNCHANGED products PROVE Principals' = Principals
  BY <1>1 DEF Principals, Total, Units
<1>2. Principals \in Nat
  BY CommittedNat
<1>3. ASSUME NEW q \in Quantities, NEW p \in Predictions, StakeNew(u, q, id, p) PROVE Goal
  <2>1. q \in Nat /\ q > 0
    BY Numbers
  <2>2. row.balance = 0 /\ MoveLed(u, q, 0)
    BY <1>0, <1>3 DEF StakeNew, Holds
  <2>3. stakings'[u][id] = NewStaking(terms, q, p)
    BY <1>0, <1>3 DEF StakeNew
  <2>4. stakings'[u][id] # row
    BY <2>1, <2>2, <2>3 DEF NewStaking
  <2>5. Principals' = Principals + q
    <3> DEFINE c == products[id].current_amount + q
               B == products[id].buyers \cup {u}
               n == [products[id] EXCEPT !.current_amount = c, !.buyers = B]
    <3>1. products' = [products EXCEPT ![id] = n]
      BY <1>0, <1>3 DEF StakeNew
    <3>2. c \in Nat
      BY <1>0, <2>1
    <3>3. n.current_amount = c
      <4> HIDE DEF c, B
      <4> QED BY <1>0 DEF product
    <3> HIDE DEF n
    <3>4. Principals' = Principals - products[id].current_amount + c
      BY <1>0, <3>1, <3>2, <3>3, ProductReplaced
    <3> QED BY <1>0, <1>2, <2>1, <3>4
  <2>6. q - q + 0 <= InterestLeft(u, id)
    BY <2>1, InterestLeftNat
  <2> QED BY <2>1, <2>2, <2>4, <2>5, <2>6, PaymentSpends
<1>4. ASSUME NEW q \in Quantities, StakeMore(u, q, id) PROVE Goal
  <2> DEFINE out == Interest(row.balance, row.current_yield, now - row.started_at)
                      - row.led_rewards
  <2>1. q \in Nat /\ q > 0
    BY Numbers
  <2>2. Holds(u, id) /\ MoveLed(u, q, out)
    BY <1>4 DEF StakeMore
  <2>3. stakings'[u][id] = ToppedUp(row, terms, q)
    BY <1>0, <1>4 DEF StakeMore
  <2>4. stakings'[u][id].balance = row.balance + q
    <3> HIDE DEF row, terms
    <3> QED BY <1>0, <2>3 DEF ToppedUp, staking
  <2>5. stakings'[u][id] # row
    BY <1>0, <2>1, <2>4
  <2>6. Principals' = Principals + q
    <3> DEFINE c == products[id].current_amount + q
               n == [products[id] EXCEPT !.current_amount = c]
    <3>1. products' = [products EXCEPT ![id] = n]
      BY <1>0, <1>4 DEF StakeMore
    <3>2. c \in Nat
      BY <1>0, <2>1
    <3>3. n.current_amount = c
      <4> HIDE DEF c
      <4> QED BY <1>0 DEF product
    <3> HIDE DEF n
    <3>4. Principals' = Principals - products[id].current_amount + c
      BY <1>0, <3>1, <3>2, <3>3, ProductReplaced
    <3> QED BY <1>0, <1>2, <2>1, <3>4
  <2>7. out \in Int /\ out <= InterestLeft(u, id)
    BY <2>2, PaymentsWithin
  <2> HIDE DEF out
  <2>8. q - q + out <= InterestLeft(u, id)
    BY <2>1, <2>7
  <2> QED BY <2>1, <2>2, <2>5, <2>6, <2>7, <2>8, PaymentSpends
<1>5. CASE unstake(u, id)
  <2> DEFINE out == UnstakeLed(row, terms)
             n == Withdraw(u, id)[id]
  <2>1. Holds(u, id) /\ Matured(row) /\ MoveLed(u, 0, out)
    BY <1>5 DEF unstake
  <2>2. row.balance > 0
    BY <2>1 DEF Holds
  <2>3. stakings'[u][id] # row
    <3>1. stakings'[u][id] = NoStaking
      BY <1>0, <1>5 DEF unstake
    <3> QED BY <2>2, <3>1 DEF NoStaking
  <2>4. Principals' = Principals - row.balance
    <3>1. products' = [products EXCEPT ![id] = n]
      BY <1>0, <1>5 DEF unstake, Withdraw
    <3>2. n.current_amount = products[id].current_amount - row.balance
      BY <1>0 DEF Withdraw, product
    <3>3. n \in product
      <4>1. SInv'
        <5>1. Next
          BY <1>5 DEF Next
        <5> QED BY <1>0, <5>1, DepositStepInv
      <4>2. products' \in [ProductIds -> product]
        BY <4>1 DEF SInv, TypeOK
      <4>3. products'[id] = n
        BY <1>0, <3>1
      <4> QED BY <4>2, <4>3
    <3> HIDE DEF n, row
    <3>4. n.current_amount \in Nat
      BY <3>3 DEF product
    <3>5. Principals' = Principals - products[id].current_amount + n.current_amount
      BY <1>0, <3>1, <3>4, ProductReplaced
    <3> QED BY <1>0, <1>2, <3>2, <3>5
  <2>5. out \in Int /\ out - row.balance <= InterestLeft(u, id)
    BY <2>1, PaymentsWithin
  <2> HIDE DEF out
  <2>6. InterestLeft(u, id) \in Nat /\ Principals \in Nat
    BY InterestLeftNat, CommittedNat
  <2> DEFINE d == -row.balance
  <2>7. d \in Int /\ d <= 0 /\ Principals' = Principals + d /\ d - 0 + out <= InterestLeft(u, id)
    <3> HIDE DEF row
    <3> QED BY <1>0, <2>2, <2>4, <2>5, <2>6
  <2> HIDE DEF d
  <2> QED BY <2>1, <2>3, <2>5, <2>7, PaymentSpends
<1>6. CASE claimled(u, id)
  <2> DEFINE current == ClaimEnd(row, terms)
             amount == Interest(row.balance, row.current_yield,
                                current - row.last_claim_led_reward)
  <2>1. Holds(u, id) /\ amount > 0 /\ MoveLed(u, 0, amount)
    BY <1>6 DEF claimled
  <2>2. amount \in Int /\ amount <= InterestLeft(u, id)
    BY <2>1, PaymentsWithin
  <2>3. stakings'[u][id] = LedClaimed(row, current, amount)
    BY <1>0, <1>6 DEF claimled
  <2> HIDE DEF amount, current
  <2>4. stakings'[u][id] # row
    <3>1. row.led_rewards \in Nat
      BY <1>0 DEF staking
    <3>2. stakings'[u][id].led_rewards = row.led_rewards + amount
      <4> HIDE DEF row
      <4> QED BY <1>0, <2>3 DEF LedClaimed, staking
    <3> QED BY <2>1, <2>2, <3>1, <3>2
  <2>5. Principals' = Principals + 0
    BY <1>1, <1>6, CommittedNat DEF claimled
  <2> DEFINE d == 0
  <2>6. d \in Nat /\ d \in Int /\ d <= d /\ d - d + amount <= InterestLeft(u, id)
    BY <2>2
  <2>7. Principals' = Principals + d /\ MoveLed(u, d, amount)
    BY <2>1, <2>5
  <2> HIDE DEF d
  <2> QED BY <2>2, <2>4, <2>6, <2>7, PaymentSpends
<1>7. CASE claimlem(u, id)
  BY <1>1, <1>7, NothingSpent DEF claimlem, ledVars
<1>8. ASSUME NEW y \in Yields, changeyield(u, id, y) PROVE Goal
  BY <1>1, <1>8, NothingSpent DEF changeyield, ledVars
<1> QED BY <1>3, <1>4, <1>5, <1>6, <1>7, <1>8 DEF DepositOperation

\* The pots of the games, as the theorems on the games count them.
LEMMA PotsAre == Pots = GP!Total(GP!Pots) /\ Pots' = GP!Total(GP!Pots')
<1>1. Pots = GP!Total(GP!Pots)
  BY SameRows, SameSums DEF Pots, GP!Pots
<1>2. (Pots = GP!Total(GP!Pots))'
  BY <1>1, PTL
<1> QED BY <1>1, <1>2

\* A product nobody can have bought holds nothing.
LEMMA NothingInFreeKey ==
  ASSUME SInv, NEW id \in ProductIds, ~Offered(id)
  PROVE  products[id].current_amount = 0
<1>1. \A u \in Users : stakings[u][id].balance = 0
  BY TableTypes DEF SInv, GoodDeposits
<1>2. [u \in Users |-> stakings[u][id].balance] = [u \in Users |-> 0]
  BY <1>1
<1>3. Total([u \in Users |-> 0]) = 0
  BY StakingAssumption, TotalZero
<1> QED BY <1>2, <1>3 DEF SInv, ProductsMatchStakings

\* The operations on deposits spend interest only.
LEMMA DepositsSpend ==
  ASSUME LInv, DepositsPart
  PROVE  vault' - Principals' >= vault - Principals - Spending
<1> DEFINE Goal == vault' - Principals' >= vault - Principals - Spending
<1>0. SInv /\ TypeOK
  BY DEF LInv, SInv
<1>1. ASSUME NEW u \in Users, NEW id \in ProductIds, DepositOperation(u, id) PROVE Goal
  BY <1>1, OperationSpends
<1>2. ASSUME UNCHANGED products, UNCHANGED ledVars PROVE Goal
  <2>1. Principals' = Principals
    BY <1>2 DEF Principals, Total, Units
  <2> QED BY <1>2, <2>1, NothingSpent DEF ledVars
<1>3. ASSUME NEW id \in ProductIds, NEW p, p.current_amount = 0,
             products[id].current_amount = 0, products' = [products EXCEPT ![id] = p],
             UNCHANGED ledVars
      PROVE  Goal
  <2>1. p.current_amount \in Nat /\ Principals \in Nat
    BY <1>3, CommittedNat
  <2>2. Principals' = Principals - products[id].current_amount + p.current_amount
    BY <1>0, <1>3, <2>1, ProductReplaced
  <2>3. Principals' = Principals
    BY <1>3, <2>1, <2>2
  <2> QED BY <1>3, <2>3, NothingSpent DEF ledVars
<1>4. ASSUME NEW new \in Catalogue, addproduct(new) PROVE Goal
  <2>1. AvailableProductId \in ProductIds /\ ~Offered(AvailableProductId)
    BY <1>4, AvailableProductIdIsFree DEF addproduct
  <2>2. products[AvailableProductId].current_amount = 0
    BY <1>0, <2>1, NothingInFreeKey
  <2>3. [NoProduct EXCEPT !.offer = new].current_amount = 0
    BY DEF NoProduct
  <2> QED BY <1>3, <1>4, <2>1, <2>2, <2>3 DEF addproduct
<1>5. ASSUME NEW id \in ProductIds, rmproduct(id) PROVE Goal
  <2>1. NoProduct.current_amount = 0
    BY DEF NoProduct
  <2> QED BY <1>3, <1>5, <2>1 DEF rmproduct, Unsold
<1> QED BY <1>1, <1>2, <1>4, <1>5
       DEF DepositsPart, Next, Emission, setledprice, stake, DepositOperation

\* Every step of the contract spends interest only.
LEMMA InterestOnly ==
  ASSUME LInv, LInv', LemonadeNext
  PROVE  Uncommitted' >= Uncommitted - Spending
<1>1. /\ Spending \in Nat /\ vault \in Nat /\ Principals \in Nat /\ Pots \in Nat
      /\ vault' \in Nat
  BY SpendingCovers, CommittedNat DEF LInv, SInv, TypeOK
<1>2. Principals' \in Nat /\ Pots' \in Nat
  BY CommittedLater
<1>0. ASSUME vault' - Pots' - Principals' >= vault - Pots - Principals - Spending
      PROVE  Uncommitted' >= Uncommitted - Spending
  BY <1>0 DEF Uncommitted
<1>3. CASE DepositsPart
  <2>1. vault' - Principals' >= vault - Principals - Spending
    BY <1>3, DepositsSpend
  <2>2. Pots' = Pots
    BY <1>3 DEF DepositsPart, gameVars, Pots, Total, Units, Games!Pot, Games!Unsettled,
                Games!BetIds
  <2>3. PICK p \in Nat, m \in Nat, n \in Nat, c \in Nat, d \in Nat, s \in Nat :
          /\ m = vault /\ n = vault' /\ c = Principals /\ d = Principals'
          /\ p = Pots /\ s = Spending
    BY <1>1, <1>2
  <2>4. n - d >= m - c - s
    BY <2>1, <2>3
  <2>5. n - p - d >= m - p - c - s
    BY <2>4
  <2> QED BY <1>0, <2>2, <2>3, <2>5
<1>4. CASE GamesPart \/ \E u \in Users, q \in Quantities : PlainPart(u, q)
  <2>1. Principals' = Principals
    BY <1>4 DEF GamesPart, PlainPart, tables, Principals, Total, Units
  <2>2. vault' - Pots' >= vault - Pots
    <3>1. CASE GamesPart
      <4>1. GP!Spare' >= GP!Spare
        BY <3>1, GameConstants, GP!RowsStep DEF LInv, GamesPart, GP!RowsKept
      <4> QED BY <4>1, PotsAre DEF GP!Spare
    <3>2. ASSUME NEW u \in Users, NEW q \in Quantities, PlainPart(u, q)
          PROVE  vault' - Pots' >= vault - Pots
      <4>1. Pots' = Pots
        BY <3>2 DEF PlainPart, gameVars, Pots, Total, Units, Games!Pot, Games!Unsettled,
                    Games!BetIds
      <4>2. vault' = vault + q - 0 /\ q \in Nat
        BY <3>2, Numbers DEF PlainPart, MoveLed
      <4> QED BY <1>1, <4>1, <4>2
    <3> QED BY <1>4, <3>1, <3>2
  <2>3. PICK d \in Nat, m \in Nat, n \in Nat, p \in Nat, r \in Nat, s \in Nat :
          /\ m = vault /\ n = vault' /\ p = Pots /\ r = Pots'
          /\ d = Principals /\ s = Spending
    BY <1>1, <1>2
  <2>4. n - r >= m - p
    BY <2>2, <2>3
  <2>5. n - r - d >= m - p - d - s
    BY <2>4
  <2> QED BY <1>0, <2>1, <2>3, <2>5
<1> QED BY <1>3, <1>4, LemonadeSteps

\* For all users, games and deposits together: the LED that is neither in a pot
\* nor a principal is spent on interest only, and on no more than is left of it.
THEOREM OnlyInterestIsSpent == LemonadeSpec => UncommittedPaysInterestOnly
<1>1. LInv /\ LInv' /\ [LemonadeNext]_allVars
        => [Uncommitted' >= Uncommitted - Total([u \in Users |-> Total(PaidInterest(u))])]_allVars
  BY InterestOnly DEF Spending
<1> QED BY <1>1, LemonadeInvariance, PTL DEF LemonadeSpec, UncommittedPaysInterestOnly

-----------------------------------------------------------------------------
(***************************************************************************)
(* What an account has: its LED, the stakes it has in unsettled games and  *)
(* its deposits.                                                           *)
(***************************************************************************)
Deposited(u) == [id \in ProductIds |-> stakings[u][id].balance]

\* An account's LED and deposits do not become less.
DepositsKept(u) == wallet'[u] + Total(Deposited(u)') >= wallet[u] + Total(Deposited(u))

\* Owed, as the theorems on games and deposits count it.
LEMMA OwedAre ==
  /\ \A u \in Users : Owed(u) = GP!Total(GP!HeldBy(u)) + Total(Deposited(u))
  /\ \A u \in Users : Owed(u)' = GP!Total(GP!HeldBy(u)') + Total(Deposited(u)')
<1>1. \A u \in Users : Owed(u) = GP!Total(GP!HeldBy(u)) + Total(Deposited(u))
  BY SameRows, SameSums DEF Owed, GP!HeldBy, GP!Held, Deposited
<1>2. (\A u \in Users : Owed(u) = GP!Total(GP!HeldBy(u)) + Total(Deposited(u)))'
  BY <1>1, PTL
<1> QED BY <1>1, <1>2

\* The deposits of an account, when one of them changes.
LEMMA DepositReplaced ==
  ASSUME TypeOK, NEW u \in Users, NEW id \in ProductIds, NEW row, row.balance \in Nat,
         stakings' = [stakings EXCEPT ![u][id] = row]
  PROVE  /\ Total(Deposited(u)) \in Nat /\ stakings[u][id].balance \in Nat
         /\ Total(Deposited(u)') = Total(Deposited(u)) - stakings[u][id].balance + row.balance
<1> DEFINE f == Deposited(u)
<1>1. f \in [ProductIds -> Nat] /\ IsFiniteSet(ProductIds) /\ f[id] = stakings[u][id].balance
  BY ProductIdsFinite, TableTypes DEF Deposited
<1>2. Deposited(u)' = [f EXCEPT ![id] = row.balance]
  <2>1. Deposited(u)' = [i \in ProductIds |-> stakings'[u][i].balance]
    BY DEF Deposited
  <2>2. [i \in ProductIds |-> stakings'[u][i].balance] = [f EXCEPT ![id] = row.balance]
    BY DEF Deposited, TypeOK
  <2> QED BY <2>1, <2>2
<1> HIDE DEF f
<1>3. Total(f) \in Nat /\ Total([f EXCEPT ![id] = row.balance]) = Total(f) - f[id] + row.balance
  BY <1>1, TotalNat, TotalUpdate
<1> QED BY <1>1, <1>2, <1>3 DEF f

\* A transaction that moves no LED of an account and leaves its balances alone.
LEMMA NothingMoved ==
  ASSUME TypeOK, NEW u \in Users, wallet'[u] = wallet[u],
         \A id \in ProductIds : stakings'[u][id].balance = stakings[u][id].balance
  PROVE  DepositsKept(u)
<1>1. Deposited(u)' = Deposited(u)
  <2>1. Deposited(u)' = [i \in ProductIds |-> stakings'[u][i].balance]
    BY DEF Deposited
  <2> QED BY <2>1 DEF Deposited
<1>2. Deposited(u) \in [ProductIds -> Nat]
  BY TableTypes DEF Deposited
<1>3. Total(Deposited(u)) \in Nat /\ wallet[u] \in Nat
  BY <1>2, ProductIdsFinite, TotalNat DEF TypeOK
<1> QED BY <1>1, <1>3 DEF DepositsKept

\* A transaction that replaces a row: what its owner pays is in the new row, and
\* what is no longer in it is paid to the owner.
LEMMA RowReplaced ==
  ASSUME TypeOK, NEW u \in Users, NEW id \in ProductIds, NEW row, row.balance \in Nat,
         stakings' = [stakings EXCEPT ![u][id] = row],
         NEW in \in Nat, NEW out \in Int, MoveLed(u, in, out),
         stakings[u][id].balance + in <= row.balance + (IF out > 0 THEN out ELSE 0),
         NEW v \in Users
  PROVE  DepositsKept(v)
<1>1. wallet \in [Users -> Nat] /\ stakings \in [Users -> [ProductIds -> staking]]
  BY DEF TypeOK
<1>2. PICK paid \in Nat : /\ paid = IF out > 0 THEN out ELSE 0
                          /\ wallet' = [wallet EXCEPT ![u] = @ - in + paid]
  <2>1. (IF out > 0 THEN out ELSE 0) \in Nat
    OBVIOUS
  <2>2. wallet' = [wallet EXCEPT ![u] = @ - in + (IF out > 0 THEN out ELSE 0)]
    BY DEF MoveLed
  <2> QED BY <2>1, <2>2
<1>3. CASE v = u
  <2>1. wallet'[u] = wallet[u] - in + paid /\ wallet[u] \in Nat
    BY <1>1, <1>2
  <2>2. /\ Total(Deposited(u)) \in Nat /\ stakings[u][id].balance \in Nat
        /\ Total(Deposited(u)') = Total(Deposited(u)) - stakings[u][id].balance + row.balance
    BY DepositReplaced
  <2>3. PICK m \in Nat, b \in Nat, c \in Nat :
          m = Total(Deposited(u)) /\ b = stakings[u][id].balance /\ c = row.balance
    BY <2>2
  <2>4. wallet[u] - in + paid + (m - b + c) >= wallet[u] + m
    BY <1>2, <2>1, <2>3
  <2> QED BY <1>3, <2>1, <2>2, <2>3, <2>4 DEF DepositsKept
<1>4. CASE v # u
  BY <1>1, <1>2, <1>4, NothingMoved
<1> QED BY <1>3, <1>4

\* Every operation on deposits, if the interest that was claimed is within the
\* interest at the yields of the rows.
LEMMA LedOfDepositsKept ==
  ASSUME SInv, KeptDeposits, Next, NEW v \in Users
  PROVE  DepositsKept(v)
<1>0. TypeOK /\ stakings \in [Users -> [ProductIds -> staking]]
  BY DEF SInv, TypeOK
<1>1. ASSUME stakings' = stakings, UNCHANGED ledVars PROVE DepositsKept(v)
  BY <1>0, <1>1, NothingMoved DEF ledVars
<1>2. ASSUME NEW u \in Users, NEW id \in ProductIds, NEW q \in Quantities,
             NEW p \in Predictions, StakeNew(u, q, id, p)
      PROVE  DepositsKept(v)
  <2> DEFINE row == NewStaking(products[id].offer, q, p)
             d == 0
  <2>1. row.balance = q /\ q \in Nat
    BY Numbers DEF NewStaking
  <2>2. stakings[u][id].balance = d /\ d \in Nat /\ d \in Int
        /\ (IF d > 0 THEN d ELSE 0) = d
    BY <1>0, <1>2, TableTypes DEF StakeNew, Holds
  <2>3. stakings' = [stakings EXCEPT ![u][id] = row] /\ MoveLed(u, q, d)
    BY <1>2 DEF StakeNew
  <2> HIDE DEF row, d
  <2>4. stakings[u][id].balance + q <= row.balance + (IF d > 0 THEN d ELSE 0)
    BY <2>1, <2>2
  <2> QED BY <1>0, <2>1, <2>2, <2>3, <2>4, RowReplaced
<1>3. ASSUME NEW u \in Users, NEW id \in ProductIds, NEW q \in Quantities, StakeMore(u, q, id)
      PROVE  DepositsKept(v)
  <2> DEFINE old == stakings[u][id]
             row == ToppedUp(old, products[id].offer, q)
             out == Interest(old.balance, old.current_yield, now - old.started_at)
                      - old.led_rewards
  <2>1. old \in staking /\ old.balance \in Nat /\ q \in Nat
    BY <1>0, Numbers, TableTypes
  <2>2. row.balance = old.balance + q
    <3> HIDE DEF old
    <3> QED BY <2>1 DEF ToppedUp, staking
  <2>3. stakings' = [stakings EXCEPT ![u][id] = row] /\ MoveLed(u, q, out)
    BY <1>3 DEF StakeMore
  <2>4. out \in Int
    <3>1. Holds(u, id)
      BY <1>3 DEF StakeMore
    <3>2. /\ old.current_yield \in Nat /\ old.led_rewards \in Nat
          /\ now - old.started_at \in Nat
      BY <3>1, HeldRow
    <3> HIDE DEF old
    <3> DEFINE t == now - old.started_at
    <3>3. t \in Nat
      BY <3>2
    <3> HIDE DEF t
    <3>4. Interest(old.balance, old.current_yield, t) \in Nat
      BY <2>1, <3>2, <3>3, InterestNat
    <3> QED BY <3>2, <3>4 DEF t
  <2> HIDE DEF row, out
  <2>5. row.balance \in Nat /\ old.balance + q <= row.balance + (IF out > 0 THEN out ELSE 0)
    BY <2>1, <2>2, <2>4
  <2> QED BY <1>0, <2>1, <2>3, <2>4, <2>5, RowReplaced
<1>4. ASSUME NEW u \in Users, NEW id \in ProductIds, unstake(u, id)
      PROVE  DepositsKept(v)
  <2> DEFINE old == stakings[u][id]
             row == NoStaking
             out == UnstakeLed(old, products[id].offer)
             d == 0
  <2>1. row.balance = 0 /\ row.balance \in Nat /\ old.balance \in Nat /\ d \in Nat /\ d = 0
    BY <1>0, TableTypes DEF NoStaking
  <2>2. /\ stakings' = [stakings EXCEPT ![u][id] = row] /\ MoveLed(u, d, out)
        /\ Holds(u, id) /\ out > 0
    BY <1>4 DEF unstake
  <2>3. out \in Int /\ out >= old.balance
    BY <2>2, UnstakeCovers
  <2> HIDE DEF row, out, d
  <2>4. old.balance + d <= row.balance + (IF out > 0 THEN out ELSE 0)
    BY <2>1, <2>2, <2>3
  <2> QED BY <1>0, <2>1, <2>2, <2>3, <2>4, RowReplaced
<1>5. ASSUME NEW u \in Users, NEW id \in ProductIds, claimled(u, id)
      PROVE  DepositsKept(v)
  <2> DEFINE old == stakings[u][id]
             time == ClaimEnd(old, products[id].offer)
             out == Interest(old.balance, old.current_yield, time - old.last_claim_led_reward)
             row == LedClaimed(old, time, out)
             d == 0
  <2>1. old \in staking /\ old.balance \in Nat /\ d \in Nat /\ d = 0
    BY <1>0, TableTypes
  <2>2. /\ stakings' = [stakings EXCEPT ![u][id] = row] /\ MoveLed(u, d, out)
        /\ Holds(u, id) /\ out > 0
    BY <1>5 DEF claimled
  <2>3. out \in Int
    <3>1. products[id].offer \in offer /\ now \in Nat
      BY <1>0, TableTypes DEF TypeOK, IssuanceTypeOK
    <3>2. /\ old.current_yield \in Nat /\ old.last_claim_led_reward \in Nat
          /\ GoodRow(old, products[id].offer, now)
      BY <2>2, HeldRow
    <3>3. time \in Nat /\ old.last_claim_led_reward <= time
      BY <2>1, <3>1, <3>2, InterestEnds
    <3> HIDE DEF old, time
    <3> DEFINE t == time - old.last_claim_led_reward
    <3>4. t \in Nat
      BY <3>2, <3>3
    <3> HIDE DEF t
    <3>5. Interest(old.balance, old.current_yield, t) \in Nat
      BY <2>1, <3>2, <3>4, InterestNat
    <3> QED BY <3>5 DEF t
  <2>4. row.balance = old.balance
    <3> HIDE DEF old, time, out
    <3> QED BY <2>1 DEF LedClaimed, staking
  <2> HIDE DEF row, out, d
  <2>5. row.balance \in Nat /\ old.balance + d <= row.balance + (IF out > 0 THEN out ELSE 0)
    BY <2>1, <2>2, <2>3, <2>4
  <2> QED BY <1>0, <2>1, <2>2, <2>3, <2>5, RowReplaced
<1>6. ASSUME NEW u \in Users, NEW id \in ProductIds, claimlem(u, id)
      PROVE  DepositsKept(v)
  <2>1. wallet' = wallet /\ \/ stakings' = stakings
                            \/ \E time, amount :
                                 stakings' = [stakings EXCEPT ![u][id] =
                                                LemClaimed(stakings[u][id], time, amount)]
    BY <1>6 DEF claimlem, ledVars
  <2>2. CASE stakings' = stakings
    BY <1>0, <2>1, <2>2, NothingMoved
  <2>3. ASSUME NEW time, NEW amount,
               stakings' = [stakings EXCEPT ![u][id] =
                              LemClaimed(stakings[u][id], time, amount)]
        PROVE  DepositsKept(v)
    <3>1. LemClaimed(stakings[u][id], time, amount).balance = stakings[u][id].balance
      BY <1>0 DEF LemClaimed, staking
    <3>2. \A i \in ProductIds : stakings'[v][i].balance = stakings[v][i].balance
      BY <1>0, <2>3, <3>1
    <3> QED BY <1>0, <2>1, <3>2, NothingMoved
  <2> QED BY <2>1, <2>2, <2>3
<1>7. ASSUME NEW u \in Users, NEW id \in ProductIds, NEW y \in Yields, changeyield(u, id, y)
      PROVE  DepositsKept(v)
  <2>1. /\ wallet' = wallet
        /\ stakings' = [stakings EXCEPT ![u][id] = [stakings[u][id] EXCEPT !.current_yield = y]]
    BY <1>0, <1>7 DEF changeyield, ledVars
  <2>2. [stakings[u][id] EXCEPT !.current_yield = y].balance = stakings[u][id].balance
    BY <1>0 DEF staking
  <2>3. \A i \in ProductIds : stakings'[v][i].balance = stakings[v][i].balance
    BY <1>0, <2>1, <2>2
  <2> QED BY <1>0, <2>1, <2>3, NothingMoved
<1> QED BY <1>1, <1>2, <1>3, <1>4, <1>5, <1>6, <1>7
       DEF Next, Emission, setledprice, addproduct, rmproduct, stake

\* What an account has is an amount, now and after a step.
LEMMA OwedNat ==
  LInv => \A u \in Users : /\ GP!Total(GP!HeldBy(u)) \in Nat
                           /\ Total(Deposited(u)) \in Nat /\ wallet[u] \in Nat
<1> SUFFICES ASSUME LInv, NEW u \in Users
             PROVE  /\ GP!Total(GP!HeldBy(u)) \in Nat
                    /\ Total(Deposited(u)) \in Nat /\ wallet[u] \in Nat
  OBVIOUS
<1>1. TypeOK /\ GP!RowInv
  BY DEF LInv, SInv
<1>2. Deposited(u) \in [ProductIds -> Nat]
  BY <1>1, TableTypes DEF Deposited
<1>3. Total(Deposited(u)) \in Nat /\ wallet[u] \in Nat
  BY <1>1, <1>2, ProductIdsFinite, TotalNat DEF TypeOK
<1>4. GP!HeldBy(u) \in [GP!BetIds -> Nat]
  BY <1>1 DEF GP!HeldBy, GP!Held, GP!Staked, GP!RowInv, GP!TypeOK, GP!betting, GP!Sides
<1>5. IsFiniteSet(GP!BetIds)
  BY LemonadeAssumption, FS_Interval DEF GP!BetIds
<1>6. Total(GP!HeldBy(u)) \in Nat
  BY <1>4, <1>5, TotalNat
<1> QED BY <1>3, <1>6, SameSums

\* And so after the step.
LEMMA OwedLater ==
  LInv' => \A u \in Users : /\ GP!Total(GP!HeldBy(u)') \in Nat
                            /\ Total(Deposited(u)') \in Nat /\ wallet'[u] \in Nat
<1>1. (LInv => \A u \in Users : /\ GP!Total(GP!HeldBy(u)) \in Nat
                                /\ Total(Deposited(u)) \in Nat /\ wallet[u] \in Nat)'
  BY OwedNat, PTL
<1> QED BY <1>1

\* Steps that leave the games alone leave the stakes alone.
LEMMA GamesStay ==
  ASSUME UNCHANGED gameVars, NEW u
  PROVE  GP!Total(GP!HeldBy(u)') = GP!Total(GP!HeldBy(u))
<1>1. bettings' = bettings
  BY DEF gameVars
<1>2. GP!HeldBy(u)' = GP!HeldBy(u)
  BY <1>1 DEF GP!HeldBy, GP!Held, GP!Staked
<1> QED BY <1>2

\* What a step of the contract leaves an account with.
LedStays(u) ==
  wallet'[u] + Owed(u)' < wallet[u] + Owed(u) => LosesBet(u) \/ SendsPlainLed(u)

\* The steps that leave the games alone, the deposits alone, or both.
LEMMA LedStaysInSteps ==
  ASSUME LInv, LInv', KeptDeposits, LemonadeNext, NEW u \in Users
  PROVE  LedStays(u)
<1> DEFINE staked == GP!Total(GP!HeldBy(u))
           stakedLater == GP!Total(GP!HeldBy(u)')
           held == Total(Deposited(u))
           heldLater == Total(Deposited(u)')
<1>1. /\ Owed(u) = staked + held /\ Owed(u)' = stakedLater + heldLater
  BY OwedAre
<1>2. /\ staked \in Nat /\ held \in Nat /\ wallet[u] \in Nat /\ stakedLater \in Nat
      /\ heldLater \in Nat /\ wallet'[u] \in Nat
  BY OwedNat, OwedLater
<1>3. CASE DepositsPart
  <2>1. wallet'[u] + heldLater >= wallet[u] + held
    BY <1>3, LedOfDepositsKept DEF LInv, DepositsPart, DepositsKept
  <2>2. stakedLater = staked
    BY <1>3, GamesStay DEF DepositsPart
  <2> HIDE DEF staked, stakedLater, held, heldLater
  <2>3. ~(wallet'[u] + Owed(u)' < wallet[u] + Owed(u))
    BY <1>1, <1>2, <2>1, <2>2
  <2> QED BY <2>3 DEF LedStays
<1>4. CASE GamesPart
  <2>1. GP!LedKept(u)
    BY <1>4, GameConstants, GP!LedIsKept DEF LInv, GamesPart
  <2>2. GP!LosesBet(u) => LosesBet(u)
    BY SameRows DEF GP!LosesBet, LosesBet
  <2>3. heldLater = held
    BY <1>4 DEF GamesPart, tables, Deposited
  <2>4. GP!LosesBet(u) \/ wallet'[u] + stakedLater >= wallet[u] + staked
    BY <2>1 DEF GP!LedKept
  <2> HIDE DEF staked, stakedLater, held, heldLater
  <2>5. GP!LosesBet(u) \/ ~(wallet'[u] + Owed(u)' < wallet[u] + Owed(u))
    BY <1>1, <1>2, <2>3, <2>4
  <2> QED BY <2>2, <2>5 DEF LedStays
<1>5. ASSUME NEW v \in Users, NEW q \in Quantities, NEW memo \in Memos,
             PlainPart(v, q), PlainTransfer(v, q, memoParser(memo))
      PROVE  LedStays(u)
  <2>1. CASE v = u
    BY <1>5, <2>1 DEF SendsPlainLed, LedStays
  <2>2. CASE v # u
    <3>1. wallet'[u] = wallet[u]
      BY <1>5, <2>2 DEF PlainPart, MoveLed, LInv, SInv, TypeOK
    <3>2. stakedLater = staked
      BY <1>5, GamesStay DEF PlainPart
    <3>3. heldLater = held
      BY <1>5 DEF PlainPart, tables, Deposited
    <3> HIDE DEF staked, stakedLater, held, heldLater
    <3>4. ~(wallet'[u] + Owed(u)' < wallet[u] + Owed(u))
      BY <1>1, <1>2, <3>1, <3>2, <3>3
    <3> QED BY <3>4 DEF LedStays
  <2> QED BY <2>1, <2>2
<1> QED BY <1>3, <1>4, <1>5, LemonadeSteps

\* The deposits' invariant is kept by the games and by plain transfers too.
LEMMA ClaimsStayCovered ==
  ASSUME LInv, KeptDeposits, LemonadeNext, YieldNotLowered
  PROVE  KeptDeposits'
<1>1. SInv
  BY DEF LInv
<1>2. DepositsStep
  BY LemonadeSteps DEF DepositsStep, DepositsPart, GamesPart, PlainPart
<1> QED BY <1>1, <1>2, KeptStep

\* Nobody loses LED to the contract but in a bet, or by sending it with a memo
\* that has no verb, as long as the manager lowers no yield: games and deposits
\* record every transfer they accept in full, in its sender's name, and refunds
\* and withdrawals bring all of it back.
THEOREM LedStaysWithItsOwner ==
  LemonadeSpec /\ [][YieldNotLowered]_allVars => LedLostOnlyInBets
<1>1. LemonadeInit => KeptDeposits
  BY NothingKept DEF LemonadeInit
<1>2. LInv /\ KeptDeposits /\ [LemonadeNext]_allVars /\ [YieldNotLowered]_allVars
        => KeptDeposits'
  <2>1. ASSUME KeptDeposits, UNCHANGED allVars PROVE KeptDeposits'
    BY <2>1 DEF KeptDeposits, allVars, vars
  <2> QED BY <2>1, ClaimsStayCovered
<1>3. LInv /\ LInv' /\ KeptDeposits /\ [LemonadeNext]_allVars
        => [\A u \in Users : LedStays(u)]_allVars
  BY LedStaysInSteps
<1>4. LInv /\ LInv' /\ KeptDeposits /\ [LemonadeNext]_allVars
        => [\A u \in Users : wallet'[u] + Owed(u)' < wallet[u] + Owed(u)
              => LosesBet(u) \/ SendsPlainLed(u)]_allVars
  BY <1>3 DEF LedStays
<1> QED BY <1>1, <1>2, <1>4, LemonadeInvariance, PTL DEF LemonadeSpec, LedLostOnlyInBets

-----------------------------------------------------------------------------
(***************************************************************************)
(* What the deposits and the games promise on their own, in the contract   *)
(* that runs both.                                                         *)
(***************************************************************************)
\* A step of the contract is one the deposits' lemmas are about.
LEMMA LemonadeIsDepositsStep == [LemonadeNext]_allVars => DepositsStep
<1>1. UNCHANGED allVars => DepositsStep
  BY DEF allVars, vars, DepositsStep, tables
<1>2. LemonadeNext => DepositsStep
  BY LemonadeSteps DEF DepositsStep, DepositsPart, GamesPart, PlainPart
<1> QED BY <1>1, <1>2

\* And it is a step of the games, or leaves them alone.
LEMMA GamesOrNothing == [LemonadeNext]_allVars => UNCHANGED gameVars \/ GP!Next
<1>1. UNCHANGED allVars => UNCHANGED gameVars
  BY DEF allVars
<1>2. LemonadeNext => UNCHANGED gameVars \/ GP!Next
  BY LemonadeSteps DEF DepositsPart, GamesPart, PlainPart
<1> QED BY <1>1, <1>2

\* The contract is a composition of its parts: it starts as both do, a step that
\* changes a deposit, a product, a price or the emission is an operation of
\* module Staking as a whole, and one that changes a game or the BTC price is an
\* operation of module Betting, whichever memo it came with and whatever
\* bet finds behind the end of it.
THEOREM PartsOfLemonade ==
  LemonadeSpec => Init /\ GP!Init /\ [][Next]_tables /\ [][GP!Next]_gameVars
<1>1. LemonadeInit => Init /\ GP!Init
  BY SameRows DEF LemonadeInit, Init, IssuanceInit, GP!Init
<1>2. [LemonadeNext]_allVars => [Next]_tables
  BY LemonadeIsDepositsStep DEF DepositsStep
<1>3. [LemonadeNext]_allVars => [GP!Next]_gameVars
  BY GamesOrNothing
<1> QED BY <1>1, <1>2, <1>3, PTL DEF LemonadeSpec

\* Games that pay out of the same LED, and transfers for anything else, leave
\* every deposit on its terms, within its limits and in its product's totals.
THEOREM DepositsInLemonade ==
  LemonadeSpec => [](/\ ProductsMatchStakings /\ LimitsRespected
                     /\ DepositsKeepTheirTerms /\ ClaimsWithinInterest)
<1>1. LInv => /\ ProductsMatchStakings /\ LimitsRespected
              /\ DepositsKeepTheirTerms /\ ClaimsWithinInterest
  BY TablesAreGood DEF LInv
<1> QED BY <1>1, LemonadeInvariance, PTL

\* Whatever the deposits do, a game's amounts are the sums of its bets, nobody
\* bets on both sides, and a game that is settled has bets on both.
THEOREM GamesInLemonade ==
  LemonadeSpec => [](GP!AmountsMatchBetters /\ GP!OnePosition /\ GP!ClaimNeverBlocked)
<1>1. LInv => GP!AmountsMatchBetters /\ GP!OnePosition /\ GP!ClaimNeverBlocked
  BY GameConstants, GP!RowsAreGood DEF LInv
<1> QED BY <1>1, LemonadeInvariance, PTL

\* A withdrawal pays at least the principal, as long as no yield is lowered.
THEOREM PrincipalReturnedInLemonade ==
  LemonadeSpec /\ [][YieldNotLowered]_allVars => UnstakeReturnsPrincipal
<1> DEFINE Paid ==
      \A u \in Users, id \in ProductIds :
        Unstakes(u, id) => wallet'[u] - wallet[u] >= stakings[u][id].balance
<1>1. LemonadeInit => KeptDeposits
  BY NothingKept DEF LemonadeInit
<1>2. LInv /\ KeptDeposits /\ [LemonadeNext]_allVars /\ [YieldNotLowered]_allVars
        => KeptDeposits'
  <2>1. ASSUME KeptDeposits, UNCHANGED allVars PROVE KeptDeposits'
    BY <2>1 DEF KeptDeposits, allVars, vars
  <2> QED BY <2>1, ClaimsStayCovered
<1>3. LInv /\ KeptDeposits /\ [LemonadeNext]_allVars => [Paid]_vars
  <2>1. ASSUME UNCHANGED tables PROVE Paid
    BY <2>1 DEF tables, Unstakes
  <2>2. ASSUME LInv, KeptDeposits, Next PROVE Paid
    BY <2>2, PrincipalStep DEF LInv
  <2>3. [LemonadeNext]_allVars => DepositsStep
    BY LemonadeIsDepositsStep
  <2> QED BY <2>1, <2>2, <2>3 DEF DepositsStep
<1> QED BY <1>1, <1>2, <1>3, LemonadeInvariance, PTL DEF LemonadeSpec, UnstakeReturnsPrincipal

\* The LEM of a deposit whose term ends and crosses no half-life is paid at the
\* rate of its balance.
THEOREM RateInLemonade == LemonadeSpec => [][LemAtTheRateWithinEra]_vars
<1>1. LemonadeInit => LemDeposits
  BY DEF LemonadeInit, Init, LemDeposits, NoStaking
<1>2. LInv /\ LInv' /\ LemDeposits /\ [LemonadeNext]_allVars => LemDeposits'
  <2>1. ASSUME SInv, SInv', LemDeposits, DepositsStep PROVE LemDeposits'
    <3>1. stakings' \in [Users -> [ProductIds -> staking]]
      BY <2>1 DEF SInv, TypeOK
    <3> QED BY <2>1, <3>1, LemStep
  <2> QED BY <2>1, LemonadeIsDepositsStep DEF LInv
<1>3. LInv /\ LemDeposits /\ [LemonadeNext]_allVars => [LemAtTheRateWithinEra]_vars
  <2>1. ASSUME SInv, LemDeposits, DepositsStep PROVE LemAtTheRateWithinEra
    BY <2>1, LemRateStep DEF LemAtTheRateWithinEra
  <2> QED BY <2>1, LemonadeIsDepositsStep DEF LInv
<1> QED BY <1>1, <1>2, <1>3, LemonadeInvariance, PTL DEF LemonadeSpec

\* LEM is never ahead of the halving schedule or above its cap, and at least half
\* of it went to the contract and its stakers.
THEOREM MintedOnScheduleInLemonade ==
  LemonadeSpec => [](NeverAheadOfSchedule /\ SupplyCapped /\ HalfForStakers)
<1>1. LemonadeInit => MintInv /\ HalfForStakers
  BY NothingMinted DEF LemonadeInit, Init
<1>2. LInv /\ LInv' /\ MintInv /\ HalfForStakers /\ [LemonadeNext]_allVars
        => MintInv' /\ HalfForStakers'
  BY MintStep, LemonadeIsDepositsStep DEF LInv
<1>3. MintInv => NeverAheadOfSchedule /\ SupplyCapped
  BY DEF MintInv
<1> QED BY <1>1, <1>2, <1>3, LemonadeInvariance, PTL DEF LemonadeSpec

\* A game that neither of the other parts can settle pays its winners the
\* dividend of its row, as long as no product of the settlement wraps.
THEOREM DividendsInLemonade ==
  LemonadeSpec /\ []GP!NoProductWraps => [][GP!WinnersGetDividend]_allVars
<1>1. LemonadeInit => GP!DividendsOfTotals
  <2>1. LemonadeInit => GP!Init
    BY SameRows DEF LemonadeInit, Init, IssuanceInit, GP!Init
  <2> QED BY <2>1, GameConstants, GP!NoDividends
<1>2. ASSUME UNCHANGED gameVars PROVE /\ GP!DividendsOfTotals => GP!DividendsOfTotals'
                                      /\ GP!WinnersGetDividend
  <2>1. bettings' = bettings
    BY <1>2 DEF gameVars
  <2>2. GP!DividendsOfTotals => GP!DividendsOfTotals'
    BY <2>1 DEF GP!DividendsOfTotals
  <2>3. GP!WinnersGetDividend
    BY <2>1 DEF GP!WinnersGetDividend
  <2> QED BY <2>2, <2>3
<1>3. [LemonadeNext]_allVars => UNCHANGED gameVars \/ GP!Next
  BY GamesOrNothing
<1>4. LInv /\ GP!DividendsOfTotals /\ [LemonadeNext]_allVars => GP!DividendsOfTotals'
  <2>1. ASSUME LInv, GP!DividendsOfTotals, GP!Next PROVE GP!DividendsOfTotals'
    BY <2>1, GameConstants, GP!DividendsInv DEF LInv
  <2> QED BY <1>2, <1>3, <2>1
<1>5. LInv /\ GP!DividendsOfTotals /\ GP!NoProductWraps /\ [LemonadeNext]_allVars
        => [GP!WinnersGetDividend]_allVars
  <2>1. ASSUME LInv, GP!DividendsOfTotals, GP!NoProductWraps, GP!Next
        PROVE  GP!WinnersGetDividend
    BY <2>1, GameConstants, GP!SettledAtDividend DEF LInv
  <2> QED BY <1>2, <1>3, <2>1
<1> QED BY <1>1, <1>4, <1>5, LemonadeInvariance, PTL DEF LemonadeSpec

\* The games are an escrow, in a contract that also moves LED for other reasons:
\* every step that opens, locks, settles, refunds or removes a game, or stakes on
\* one, is that step of the escrow, with what it pays and takes, and every other
\* step leaves all games and stakes alone.
THEOREM EscrowInLemonade ==
  LemonadeSpec => GP!Escrow!Init /\ [][GP!Escrow!Next]_<<GP!EscrowPhases, GP!EscrowStakes>>
<1>1. LemonadeInit => GP!Escrow!Init
  <2>1. LemonadeInit => GP!Init
    BY SameRows DEF LemonadeInit, Init, IssuanceInit, GP!Init
  <2> QED BY <2>1, GameConstants, GP!EscrowInit
<1>2. LInv /\ [LemonadeNext]_allVars => [GP!Escrow!Next]_<<GP!EscrowPhases, GP!EscrowStakes>>
  <2>1. ASSUME UNCHANGED gameVars PROVE UNCHANGED <<GP!EscrowPhases, GP!EscrowStakes>>
    BY <2>1 DEF gameVars, GP!EscrowPhases, GP!EscrowPhase, GP!EscrowStakes, GP!Staked
  <2>2. ASSUME LInv, GP!Next
        PROVE  [GP!Escrow!Next]_<<GP!EscrowPhases, GP!EscrowStakes>>
    <3>1. [GP!Escrow!Next]_GP!Escrow!vars
      BY <2>2, GameConstants, GP!EscrowStep DEF LInv
    <3> QED BY <3>1 DEF GP!Escrow!vars
  <2> QED BY <2>1, <2>2, GamesOrNothing
<1> QED BY <1>1, <1>2, LemonadeInvariance, PTL DEF LemonadeSpec

=============================================================================
