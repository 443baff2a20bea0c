---------------------------- MODULE RewardProofs ----------------------------
(***************************************************************************)
(* What a deposit pays over its life, for any number of owners, products   *)
(* and claims: UnstakeReturnsPrincipal when the manager does not lower a   *)
(* yield, and LemAtTheRate for a deposit whose term ends and crosses no    *)
(* half-life.  Without these conditions the code does break the two (runs  *)
(* staking_principal_doc and staking_halflife_doc).                        *)
(*                                                                         *)
(* The invariants are relative to SInv of StakingProofs and hold for every *)
(* step that is an operation of Staking or leaves its tables alone, so     *)
(* they hold in the deployed contract too, where games move LED as well.   *)
(***************************************************************************)
EXTENDS StakingProofs

tables == <<issuanceVars, led_price, products, stakings>>

DepositsStep == Next \/ UNCHANGED tables

\* The operations that write the row of an owner's deposit.
DepositOperation(u, id) ==
  \/ \E q \in Quantities, p \in Predictions : StakeNew(u, q, id, p)
  \/ \E q \in Quantities : StakeMore(u, q, id)
  \/ unstake(u, id)
  \/ claimled(u, id)
  \/ claimlem(u, id)
  \/ \E y \in Yields : changeyield(u, id, y)

\* A step writes at most the row of the deposit it is called for.
LEMMA RowChanges ==
  ASSUME SInv, DepositsStep, NEW u \in Users, NEW id \in ProductIds,
         stakings'[u][id] # stakings[u][id]
  PROVE  DepositOperation(u, id)
<1>1. stakings \in [Users -> [ProductIds -> staking]]
  BY DEF SInv, TypeOK
<1>2. ASSUME stakings' = stakings PROVE FALSE
  BY <1>2
<1>3. ASSUME NEW v \in Users, NEW j \in ProductIds, NEW row,
             stakings' = [stakings EXCEPT ![v][j] = row]
      PROVE  v = u /\ j = id
  BY <1>1, <1>3
<1>4. ASSUME UNCHANGED tables PROVE FALSE
  BY <1>2, <1>4 DEF tables
<1>5. ASSUME Emission PROVE FALSE
  BY <1>2, <1>5 DEF Emission
<1>6. ASSUME NEW p \in LedPrices, setledprice(p) PROVE FALSE
  BY <1>2, <1>6 DEF setledprice
<1>7. ASSUME NEW new \in Catalogue, addproduct(new) PROVE FALSE
  BY <1>2, <1>7 DEF addproduct
<1>8. ASSUME NEW j \in ProductIds, rmproduct(j) PROVE FALSE
  BY <1>2, <1>8 DEF rmproduct
<1>9. ASSUME NEW v \in Users, NEW j \in ProductIds,
             NEW q \in Quantities, NEW p \in Predictions, stake(v, q, j, p)
      PROVE  DepositOperation(u, id)
  <2>1. CASE StakeNew(v, q, j, p)
    <3>1. stakings' = [stakings EXCEPT ![v][j] = NewStaking(products[j].offer, q, p)]
      BY <2>1 DEF StakeNew
    <3>2. v = u /\ j = id
      BY <1>3, <3>1
    <3> QED BY <2>1, <3>2 DEF DepositOperation
  <2>2. CASE StakeMore(v, q, j)
    <3>1. stakings' = [stakings EXCEPT ![v][j] =
                         ToppedUp(stakings[v][j], products[j].offer, q)]
      BY <2>2 DEF StakeMore
    <3>2. v = u /\ j = id
      BY <1>3, <3>1
    <3> QED BY <2>2, <3>2 DEF DepositOperation
  <2> QED BY <1>9, <2>1, <2>2 DEF stake
<1>10. ASSUME NEW v \in Users, NEW j \in ProductIds, unstake(v, j)
       PROVE  DepositOperation(u, id)
  <2>1. stakings' = [stakings EXCEPT ![v][j] = NoStaking]
    BY <1>10 DEF unstake
  <2>2. v = u /\ j = id
    BY <1>3, <2>1
  <2> QED BY <1>10, <2>2 DEF DepositOperation
<1>11. ASSUME NEW v \in Users, NEW j \in ProductIds, claimled(v, j)
       PROVE  DepositOperation(u, id)
  <2>1. PICK row : stakings' = [stakings EXCEPT ![v][j] = row]
    BY <1>11 DEF claimled
  <2>2. v = u /\ j = id
    BY <1>3, <2>1
  <2> QED BY <1>11, <2>2 DEF DepositOperation
<1>12. ASSUME NEW v \in Users, NEW j \in ProductIds, claimlem(v, j)
       PROVE  DepositOperation(u, id)
  <2>1. \/ stakings' = stakings
        \/ \E row : stakings' = [stakings EXCEPT ![v][j] = row]
    BY <1>12 DEF claimlem
  <2>2. v = u /\ j = id
    BY <1>2, <1>3, <2>1
  <2> QED BY <1>12, <2>2 DEF DepositOperation
<1>13. ASSUME NEW v \in Users, NEW j \in ProductIds, NEW y \in Yields, changeyield(v, j, y)
       PROVE  DepositOperation(u, id)
  <2>1. stakings' = [stakings EXCEPT ![v][j].current_yield = y]
    BY <1>13 DEF changeyield
  <2>2. v = u /\ j = id
    BY <1>1, <2>1
  <2> QED BY <1>13, <2>2 DEF DepositOperation
<1> QED BY <1>4, <1>5, <1>6, <1>7, <1>8, <1>9, <1>10, <1>11, <1>12, <1>13
        DEF DepositsStep, Next

\* The terms of a product that somebody holds do not change: addproduct takes a
\* free key and rmproduct removes nothing that was sold.
LEMMA TermsKept ==
  ASSUME SInv, DepositsStep, NEW u \in Users, NEW id \in ProductIds,
         stakings[u][id].balance > 0
  PROVE  products'[id].offer = products[id].offer
<1>1. Offered(id) /\ products \in [ProductIds -> product]
  BY DEF SInv, GoodDeposits, TypeOK
<1>2. ASSUME products' = products PROVE products'[id].offer = products[id].offer
  BY <1>2
<1>3. ASSUME NEW j \in ProductIds, j # id, NEW p, products' = [products EXCEPT ![j] = p]
      PROVE  products'[id].offer = products[id].offer
  BY <1>1, <1>3
<1>4. ASSUME NEW j \in ProductIds, NEW n, NEW B,
             products' = [products EXCEPT ![j] = [@ EXCEPT !.current_amount = n, !.buyers = B]]
      PROVE  products'[id].offer = products[id].offer
  <2>1. CASE j # id
    BY <1>1, <1>4, <2>1
  <2>2. CASE j = id
    <3>1. products'[id] = [products[id] EXCEPT !.current_amount = n, !.buyers = B]
      BY <1>1, <1>4, <2>2
    <3>2. products[id] \in product
      BY <1>1
    <3> QED BY ONLY <3>1, <3>2 DEF product
  <2> QED BY <2>1, <2>2
<1>5. ASSUME UNCHANGED tables PROVE products' = products
  BY <1>5 DEF tables
<1>6. ASSUME Emission PROVE products' = products
  BY <1>6 DEF Emission
<1>7. ASSUME NEW p \in LedPrices, setledprice(p) PROVE products' = products
  BY <1>7 DEF setledprice
<1>8. ASSUME NEW new \in Catalogue, addproduct(new)
      PROVE  products'[id].offer = products[id].offer
  <2> DEFINE j == AvailableProductId
  <2>1. j \in ProductIds /\ ~Offered(j)
    BY <1>8, AvailableProductIdIsFree DEF addproduct
  <2>2. PICK p : products' = [products EXCEPT ![j] = p]
    BY <1>8 DEF addproduct
  <2> HIDE DEF j
  <2>3. j # id
    BY <1>1, <2>1
  <2> QED BY <1>3, <2>1, <2>2, <2>3
<1>9. ASSUME NEW j \in ProductIds, rmproduct(j)
      PROVE  products'[id].offer = products[id].offer
  <2>1. products[j].current_amount = 0 /\ products' = [products EXCEPT ![j] = NoProduct]
    BY <1>9 DEF rmproduct, Unsold
  <2>2. j # id
    <3>1. SUFFICES ASSUME products[id].current_amount = 0 PROVE FALSE
      BY <2>1
    <3> DEFINE f == BalancesIn(id)
    <3>2. f \in [Users -> Nat] /\ IsFiniteSet(Users) /\ f[u] = stakings[u][id].balance
      BY TableTypes, StakingAssumption DEF SInv, BalancesIn
    <3>3. Total(f) = 0
      BY <3>1 DEF SInv, ProductsMatchStakings, BalancesIn
    <3> HIDE DEF f
    <3>4. f[u] <= Total(f)
      BY ONLY <3>2, TotalMember
    <3> QED BY <3>2, <3>3, <3>4
  <2> QED BY <1>3, <2>1, <2>2
<1>10. ASSUME NEW v \in Users, NEW j \in ProductIds,
              NEW q \in Quantities, NEW p \in Predictions, stake(v, q, j, p)
       PROVE  products'[id].offer = products[id].offer
  <2>1. CASE StakeNew(v, q, j, p)
    <3>1. products' = [products EXCEPT ![j].current_amount = @ + q, ![j].buyers = @ \cup {v}]
      BY <2>1 DEF StakeNew
    <3>2. products' = [products EXCEPT ![j] =
                         [@ EXCEPT !.current_amount = products[j].current_amount + q,
                                   !.buyers = products[j].buyers \cup {v}]]
      BY <1>1, <3>1
    <3> QED BY <1>4, <3>2
  <2>2. CASE StakeMore(v, q, j)
    <3>1. products' = [products EXCEPT ![j].current_amount = @ + q]
      BY <2>2 DEF StakeMore
    <3>2. products' = [products EXCEPT ![j] =
                         [@ EXCEPT !.current_amount = products[j].current_amount + q,
                                   !.buyers = products[j].buyers]]
      <4>1. products[j] \in product
        BY <1>1
      <4>2. [products[j] EXCEPT !.current_amount = products[j].current_amount + q]
              = [products[j] EXCEPT !.current_amount = products[j].current_amount + q,
                                    !.buyers = products[j].buyers]
        BY <4>1 DEF product
      <4> QED BY <1>1, <3>1, <4>2
    <3> QED BY <1>4, <3>2
  <2> QED BY <1>10, <2>1, <2>2 DEF stake
<1>11. ASSUME NEW v \in Users, NEW j \in ProductIds, unstake(v, j)
       PROVE  products'[id].offer = products[id].offer
  <2> DEFINE n == products[j].current_amount - stakings[v][j].balance
             B == products[j].buyers \ {v}
  <2>1. products' = [products EXCEPT ![j].current_amount = n, ![j].buyers = B]
    BY <1>11 DEF unstake, Withdraw
  <2> HIDE DEF n, B
  <2>2. products' = [products EXCEPT ![j] = [@ EXCEPT !.current_amount = n, !.buyers = B]]
    BY <1>1, <2>1
  <2> QED BY <1>4, <2>2
<1>12. ASSUME NEW v \in Users, NEW j \in ProductIds,
              \/ claimled(v, j) \/ claimlem(v, j) \/ \E y \in Yields : changeyield(v, j, y)
       PROVE  products' = products
  BY <1>12 DEF claimled, claimlem, changeyield
<1> QED BY <1>2, <1>5, <1>6, <1>7, <1>8, <1>9, <1>10, <1>11, <1>12 DEF DepositsStep, Next

\* The clock does not run backwards, a step that writes a row takes no time, and
\* the boundaries of the eras are set once, by init.
LEMMA ClockSteps ==
  ASSUME SInv, DepositsStep
  PROVE  /\ now \in Nat /\ now' \in Nat /\ now <= now'
         /\ stakings' # stakings => now' = now
         /\ configs.is_active =>
              /\ configs'.is_active
              /\ configs'.last_half_life_updated = configs.last_half_life_updated
<1>1. now \in Nat /\ configs \in config
  BY DEF SInv, TypeOK, IssuanceTypeOK
<1>2. ASSUME configs' = ConfigAfterIssue
      PROVE  /\ configs'.is_active = configs.is_active
             /\ configs'.last_half_life_updated = configs.last_half_life_updated
  BY <1>1, <1>2 DEF ConfigAfterIssue, ConfigFilled, config
<1>3. CASE UNCHANGED tables
  BY <1>1, <1>3 DEF tables, issuanceVars
<1>4. CASE Emission
  <2>1. IssuanceNext /\ stakings' = stakings
    BY <1>4 DEF Emission
  <2>2. CASE Tick
    BY <1>1, <2>1, <2>2 DEF Tick
  <2>3. CASE init
    BY <1>1, <2>1, <2>3 DEF init
  <2>4. CASE issuelem
    <3>1. configs' = ConfigAfterIssue /\ now' = now
      BY <2>4 DEF issuelem
    <3> QED BY <1>1, <1>2, <2>1, <3>1
  <2> QED BY <2>1, <2>2, <2>3, <2>4 DEF IssuanceNext
<1>5. CASE UNCHANGED issuanceVars
  BY <1>1, <1>5 DEF issuanceVars
<1>6. CASE configs' = ConfigAfterIssue /\ now' = now
  BY <1>1, <1>2, <1>6
<1>7. ASSUME \/ \E p \in LedPrices : setledprice(p)
             \/ \E new \in Catalogue : addproduct(new)
             \/ \E id \in ProductIds : rmproduct(id)
      PROVE  UNCHANGED issuanceVars
  BY <1>7 DEF setledprice, addproduct, rmproduct
<1>8. ASSUME NEW u \in Users, NEW id \in ProductIds,
             \/ \E q \in Quantities, p \in Predictions : stake(u, q, id, p)
             \/ unstake(u, id)
             \/ claimled(u, id)
             \/ claimlem(u, id)
             \/ \E y \in Yields : changeyield(u, id, y)
      PROVE  UNCHANGED issuanceVars \/ (configs' = ConfigAfterIssue /\ now' = now)
  BY <1>8 DEF stake, StakeNew, StakeMore, unstake, claimled, claimlem, changeyield, IssueAndPayLem
<1> QED BY <1>3, <1>4, <1>5, <1>6, <1>7, <1>8 DEF DepositsStep, Next

\* A step that is not an unstake leaves a holder's balance or adds to it.
LEMMA BalanceGrows ==
  ASSUME SInv, NEW u \in Users, NEW id \in ProductIds, Holds(u, id),
         DepositOperation(u, id), ~unstake(u, id)
  PROVE  /\ stakings[u][id].balance \in Nat /\ stakings[u][id].balance > 0
         /\ stakings'[u][id].balance \in Nat
         /\ stakings'[u][id].balance >= stakings[u][id].balance
<1> DEFINE row == stakings[u][id]
           terms == products[id].offer
<1>1. stakings \in [Users -> [ProductIds -> staking]]
  BY DEF SInv, TypeOK
<1>2. row \in staking /\ row.balance \in Nat /\ row.balance > 0
  BY HeldRow
<1>3. ASSUME NEW q \in Quantities, NEW p \in Predictions, StakeNew(u, q, id, p) PROVE FALSE
  BY <1>3 DEF StakeNew
<1>4. ASSUME NEW q \in Quantities, StakeMore(u, q, id)
      PROVE  stakings'[u][id].balance \in Nat /\ stakings'[u][id].balance >= row.balance
  <2>1. stakings'[u][id] = ToppedUp(row, terms, q)
    BY <1>1, <1>4 DEF StakeMore
  <2>2. q \in Nat
    BY Numbers
  <2> HIDE DEF row, terms
  <2>3. stakings'[u][id].balance = row.balance + q
    BY <1>2, <2>1 DEF ToppedUp, staking
  <2> QED BY <1>2, <2>2, <2>3
<1>5. CASE claimled(u, id) \/ claimlem(u, id) \/ \E y \in Yields : changeyield(u, id, y)
  <2>1. \/ stakings'[u][id] = row
        \/ \E time, amount : stakings'[u][id] = LedClaimed(row, time, amount)
        \/ \E time, amount : stakings'[u][id] = LemClaimed(row, time, amount)
        \/ \E y : stakings'[u][id] = [row EXCEPT !.current_yield = y]
    <3>1. ASSUME NEW y \in Yields, changeyield(u, id, y)
          PROVE  stakings'[u][id] = [row EXCEPT !.current_yield = y]
      <4>1. stakings' = [stakings EXCEPT ![u][id].current_yield = y]
        BY <3>1 DEF changeyield
      <4> QED BY <1>1, <4>1
    <3>2. CASE claimled(u, id)
      BY <1>1, <3>2 DEF claimled
    <3>3. CASE claimlem(u, id)
      BY <1>1, <3>3 DEF claimlem
    <3> QED BY <1>5, <3>1, <3>2, <3>3
  <2> HIDE DEF row, terms
  <2>2. stakings'[u][id].balance = row.balance
    BY <1>2, <2>1 DEF LedClaimed, LemClaimed, staking
  <2> QED BY <1>2, <2>2 DEF row
<1> QED BY <1>2, <1>3, <1>4, <1>5 DEF DepositOperation

-----------------------------------------------------------------------------
(***************************************************************************)
(* LED: unstake returns the principal.                                     *)
(***************************************************************************)
\* What a holder may count on: nobody lowers the yield of a deposit, or changes
\* that of one whose yield its prediction decides.
YieldNotLowered ==
  \A u \in Users, id \in ProductIds :
    LET old == stakings[u][id]
        new == stakings'[u][id]
    IN  (old.balance > 0 /\ new.balance > 0) =>
          /\ old.current_yield <= new.current_yield
          /\ old.price_prediction \in {"long", "short"} =>
               new.current_yield = old.current_yield

\* What was claimed is within the interest at the yield of the row, which is the
\* lowest that a prediction can come to.
KeptRow(row, terms) ==
  /\ row.price_prediction \in {"long", "short"} => row.current_yield = terms.minimum_yield
  /\ row.led_rewards <= Interest(row.balance, row.current_yield,
                                 row.last_claim_led_reward - row.started_at)

KeptDeposits ==
  \A u \in Users, id \in ProductIds :
    stakings[u][id].balance > 0 => KeptRow(stakings[u][id], products[id].offer)

\* A row that starts now has paid nothing.
LEMMA FreshRowKept ==
  ASSUME SInv, NEW row, NEW terms, row.balance \in Nat, row.current_yield \in Nat,
         row.started_at = now, row.last_claim_led_reward = now, row.led_rewards = 0,
         row.price_prediction \in {"long", "short"} => row.current_yield = terms.minimum_yield
  PROVE  KeptRow(row, terms)
<1>1. now \in Nat /\ now - now \in Nat
  BY DEF SInv, TypeOK, IssuanceTypeOK
<1>2. Interest(row.balance, row.current_yield, now - now) \in Nat
  BY <1>1, InterestNat
<1> QED BY <1>2 DEF KeptRow

\* Every step that lowers no yield keeps the claims within the interest at the
\* yield of the row.
LEMMA KeptStep ==
  ASSUME SInv, KeptDeposits, DepositsStep, YieldNotLowered
  PROVE  KeptDeposits'
<1> SUFFICES ASSUME NEW u \in Users, NEW id \in ProductIds, stakings'[u][id].balance > 0
             PROVE  KeptRow(stakings'[u][id], products'[id].offer)
  BY DEF KeptDeposits
<1> DEFINE old == stakings[u][id]
           new == stakings'[u][id]
           terms == products[id].offer
<1>0. stakings \in [Users -> [ProductIds -> staking]] /\ products \in [ProductIds -> product]
  BY DEF SInv, TypeOK
<1>1. CASE new = old
  <2>1. KeptRow(old, terms) /\ products'[id].offer = terms
    BY <1>1, TermsKept DEF KeptDeposits
  <2> QED BY <1>1, <2>1
<1>2. ASSUME NEW q \in Quantities, NEW p \in Predictions, StakeNew(u, q, id, p)
      PROVE  KeptRow(new, products'[id].offer)
  <2>1. /\ stakings' = [stakings EXCEPT ![u][id] = NewStaking(terms, q, p)]
        /\ products' = [products EXCEPT ![id].current_amount = @ + q, ![id].buyers = @ \cup {u}]
    BY <1>2 DEF StakeNew
  <2>2. new = NewStaking(terms, q, p)
    BY <1>0, <2>1
  <2>3. products'[id].offer = terms
    <3> DEFINE n == products[id].current_amount + q
               B == products[id].buyers \cup {u}
    <3>1. products'[id] = [products[id] EXCEPT !.current_amount = n, !.buyers = B]
      BY <1>0, <2>1
    <3>2. products[id] \in product
      BY <1>0
    <3> HIDE DEF n, B
    <3> QED BY ONLY <3>1, <3>2 DEF product
  <2>4. q \in Nat /\ terms.minimum_yield \in Nat
    BY Numbers, TermTypes
  <2>5. /\ new.balance = q /\ new.current_yield = terms.minimum_yield
        /\ new.started_at = now /\ new.last_claim_led_reward = now /\ new.led_rewards = 0
    BY <2>2 DEF NewStaking
  <2> HIDE DEF new, terms
  <2>6. KeptRow(new, terms)
    BY <2>4, <2>5, FreshRowKept
  <2> QED BY <2>3, <2>6
<1>3. ASSUME old.balance > 0, DepositOperation(u, id)
      PROVE  KeptRow(new, terms)
  <2>1. /\ old \in staking /\ old.balance \in Nat /\ old.current_yield \in Nat
        /\ old.led_rewards \in Nat /\ old.lem_rewards \in Nat
        /\ old.started_at \in Nat /\ old.last_claim_led_reward \in Nat
        /\ GoodRow(old, terms, now) /\ now \in Nat /\ terms \in offer
    <3>1. Holds(u, id)
      BY <1>3 DEF Holds, SInv, GoodDeposits
    <3> QED BY <3>1, HeldRow, TermTypes
  <2>2. KeptRow(old, terms)
    BY <1>3 DEF KeptDeposits
  <2>3. /\ old.current_yield <= new.current_yield
        /\ old.price_prediction \in {"long", "short"} => new.current_yield = old.current_yield
    BY <1>3 DEF YieldNotLowered
  <2>4. ASSUME NEW q \in Quantities, NEW p \in Predictions, StakeNew(u, q, id, p)
        PROVE  FALSE
    BY <1>3, <2>4 DEF StakeNew, Holds
  <2>5. ASSUME NEW q \in Quantities, StakeMore(u, q, id) PROVE KeptRow(new, terms)
    <3>1. new = ToppedUp(old, terms, q)
      BY <1>0, <2>5 DEF StakeMore
    <3>2. q \in Nat
      BY Numbers
    <3> HIDE DEF old, new, terms
    <3>3. /\ new.balance = old.balance + q /\ new.current_yield = old.current_yield
          /\ new.price_prediction = old.price_prediction
          /\ new.started_at = now /\ new.last_claim_led_reward = now /\ new.led_rewards = 0
      BY <2>1, <3>1 DEF ToppedUp, staking
    <3>4. new.balance \in Nat
      BY <2>1, <3>2, <3>3
    <3> QED BY <2>1, <2>2, <3>3, <3>4, FreshRowKept DEF KeptRow
  <2>6. ASSUME unstake(u, id) PROVE FALSE
    <3>1. new = NoStaking
      BY <1>0, <2>6 DEF unstake
    <3> QED BY <3>1 DEF NoStaking
  <2>7. ASSUME claimled(u, id) PROVE KeptRow(new, terms)
    <3> DEFINE current == ClaimEnd(old, terms)
               s == old.last_claim_led_reward - old.started_at
               d == current - old.last_claim_led_reward
               amount == Interest(old.balance, old.current_yield, d)
    <3>1. new = LedClaimed(old, current, amount)
      BY <1>0, <2>7 DEF claimled
    <3> HIDE DEF old, new, terms, current
    <3>2. s \in Nat /\ d \in Nat /\ s + d = current - old.started_at
      <4>1. current \in Nat /\ old.last_claim_led_reward <= current
        BY <2>1, InterestEnds DEF current
      <4>2. old.started_at <= old.last_claim_led_reward
        BY <2>1 DEF GoodRow
      <4> QED BY <2>1, <4>1, <4>2
    <3>3. old.led_rewards <= Interest(old.balance, old.current_yield, s)
      BY <2>2 DEF KeptRow
    <3> HIDE DEF s, d
    <3>4. old.led_rewards + amount <= Interest(old.balance, old.current_yield, s + d)
      <4>1. old.current_yield <= old.current_yield
        BY <2>1
      <4> QED BY <2>1, <3>2, <3>3, <4>1, ClaimWithin
    <3> HIDE DEF amount
    <3>5. /\ new.balance = old.balance /\ new.current_yield = old.current_yield
          /\ new.price_prediction = old.price_prediction /\ new.started_at = old.started_at
          /\ new.last_claim_led_reward = current /\ new.led_rewards = old.led_rewards + amount
      BY <2>1, <3>1 DEF LedClaimed, staking
    <3> QED BY <2>2, <3>2, <3>4, <3>5 DEF KeptRow
  <2>8. ASSUME claimlem(u, id) PROVE KeptRow(new, terms)
    <3>1. new = old \/ \E time, amount : new = LemClaimed(old, time, amount)
      BY <1>0, <2>8 DEF claimlem
    <3> HIDE DEF old, new, terms
    <3>2. /\ new.balance = old.balance /\ new.current_yield = old.current_yield
          /\ new.price_prediction = old.price_prediction /\ new.started_at = old.started_at
          /\ new.last_claim_led_reward = old.last_claim_led_reward
          /\ new.led_rewards = old.led_rewards
      BY <2>1, <3>1 DEF LemClaimed, staking
    <3> QED BY <2>2, <3>2 DEF KeptRow
  <2>9. ASSUME NEW y \in Yields, changeyield(u, id, y) PROVE KeptRow(new, terms)
    <3>1. stakings' = [stakings EXCEPT ![u][id].current_yield = y]
      BY <2>9 DEF changeyield
    <3>2. new = [old EXCEPT !.current_yield = y]
      BY <1>0, <3>1
    <3>3. y \in Nat
      BY Numbers
    <3> HIDE DEF old, new, terms
    <3>4. /\ new.balance = old.balance /\ new.current_yield = y
          /\ new.price_prediction = old.price_prediction /\ new.started_at = old.started_at
          /\ new.last_claim_led_reward = old.last_claim_led_reward
          /\ new.led_rewards = old.led_rewards
      BY <2>1, <3>2 DEF staking
    <3> DEFINE s == old.last_claim_led_reward - old.started_at
    <3>5. s \in Nat
      BY <2>1 DEF GoodRow
    <3>6. old.led_rewards <= Interest(old.balance, old.current_yield, s)
      BY <2>2 DEF KeptRow
    <3> HIDE DEF s
    <3>7. /\ Interest(old.balance, old.current_yield, s) <= Interest(old.balance, y, s)
          /\ Interest(old.balance, old.current_yield, s) \in Nat
          /\ Interest(old.balance, y, s) \in Nat
      BY <2>1, <2>3, <3>3, <3>4, <3>5, InterestGrows, InterestNat
    <3>8. old.led_rewards <= Interest(old.balance, y, s)
      BY <2>1, <3>6, <3>7
    <3> QED BY <2>2, <2>3, <3>4, <3>8 DEF KeptRow, s
  <2> QED BY <1>3, <2>4, <2>5, <2>6, <2>7, <2>8, <2>9 DEF DepositOperation
<1>4. CASE new # old
  <2>1. DepositOperation(u, id)
    BY <1>4, RowChanges
  <2>2. CASE old.balance > 0
    BY <1>3, <2>1, <2>2, TermsKept
  <2>3. CASE ~(old.balance > 0)
    <3>1. ~Holds(u, id)
      BY <2>3 DEF Holds
    <3>2. \E q \in Quantities, p \in Predictions : StakeNew(u, q, id, p)
      BY <2>1, <3>1 DEF DepositOperation, StakeMore, unstake, claimled, claimlem, changeyield
    <3> QED BY <1>2, <3>2
  <2> QED BY <2>2, <2>3
<1> QED BY <1>1, <1>4

\* At the yield unstake applies, the interest covers what was claimed.
LEMMA UnstakeCovers ==
  ASSUME SInv, KeptDeposits, NEW u \in Users, NEW id \in ProductIds, Holds(u, id)
  PROVE  /\ UnstakeLed(stakings[u][id], products[id].offer) \in Int
         /\ UnstakeLed(stakings[u][id], products[id].offer) >= stakings[u][id].balance
<1> DEFINE row == stakings[u][id]
           terms == products[id].offer
           y == FinalYield(row, terms)
           s == row.last_claim_led_reward - row.started_at
           t == UnstakeEnd(row, terms) - row.started_at
<1>1. /\ row \in staking /\ row.balance \in Nat /\ row.balance > 0
      /\ row.current_yield \in Nat /\ row.led_rewards \in Nat
      /\ row.started_at \in Nat /\ row.last_claim_led_reward \in Nat
      /\ GoodRow(row, terms, now) /\ now \in Nat
  BY HeldRow
<1>2. terms \in offer /\ terms.minimum_yield \in Nat /\ terms.maximum_yield \in Nat
  BY TermTypes
<1>3. KeptRow(row, terms)
  BY <1>1 DEF KeptDeposits
<1> HIDE DEF row, terms
<1>4. y \in Nat /\ row.current_yield <= y
  BY <1>1, <1>2, <1>3 DEF FinalYield, KeptRow, GoodRow
<1>5. s \in Nat /\ t \in Nat /\ s <= t
  <2>1. UnstakeEnd(row, terms) \in Nat /\ row.last_claim_led_reward <= UnstakeEnd(row, terms)
    BY <1>1, <1>2, InterestEnds
  <2>2. row.started_at <= row.last_claim_led_reward
    BY <1>1 DEF GoodRow
  <2> QED BY <1>1, <2>1, <2>2
<1>6. UnstakeLed(row, terms) = row.balance + Interest(row.balance, y, t) - row.led_rewards
  BY DEF UnstakeLed
<1>7. row.led_rewards <= Interest(row.balance, row.current_yield, s)
  BY <1>3 DEF KeptRow
<1> HIDE DEF y, s, t
<1>8. /\ Interest(row.balance, row.current_yield, s) \in Nat
      /\ Interest(row.balance, row.current_yield, t) \in Nat
      /\ Interest(row.balance, y, t) \in Nat
      /\ Interest(row.balance, row.current_yield, s) <= Interest(row.balance, row.current_yield, t)
      /\ Interest(row.balance, row.current_yield, t) <= Interest(row.balance, y, t)
  BY <1>1, <1>4, <1>5, InterestNat, InterestLater, InterestGrows
<1>9. row.led_rewards <= Interest(row.balance, y, t)
  BY <1>1, <1>7, <1>8
<1>10. UnstakeLed(row, terms) \in Int /\ UnstakeLed(row, terms) >= row.balance
  <2> DEFINE i == Interest(row.balance, y, t)
  <2>1. i \in Nat /\ row.led_rewards <= i /\ UnstakeLed(row, terms) = row.balance + i - row.led_rewards
    BY <1>6, <1>8, <1>9
  <2> HIDE DEF i
  <2> QED BY <1>1, <2>1
<1> QED BY <1>10 DEF row, terms

\* Nothing is deposited at first.
LEMMA NothingKept ==
  ASSUME Init
  PROVE  KeptDeposits
BY DEF Init, KeptDeposits, NoStaking

\* A step that empties a row is its owner's unstake, which pays the principal.
LEMMA PrincipalStep ==
  ASSUME SInv, KeptDeposits, Next, NEW u \in Users, NEW id \in ProductIds, Unstakes(u, id)
  PROVE  wallet'[u] - wallet[u] >= stakings[u][id].balance
<1> DEFINE row == stakings[u][id]
           terms == products[id].offer
           out == UnstakeLed(row, terms)
<1>1. stakings \in [Users -> [ProductIds -> staking]] /\ wallet \in [Users -> Nat]
  BY DEF SInv, TypeOK
<1>2. row \in staking /\ row.balance \in Nat /\ row.balance > 0 /\ stakings'[u][id].balance = 0
  BY <1>1 DEF Unstakes, staking
<1>3. Holds(u, id)
  BY <1>2 DEF Holds, SInv, GoodDeposits
<1>4. DepositOperation(u, id)
  BY <1>2, RowChanges DEF DepositsStep
<1>5. unstake(u, id)
  <2>1. ASSUME ~unstake(u, id) PROVE FALSE
    BY <1>2, <1>3, <1>4, <2>1, BalanceGrows
  <2> QED BY <2>1
<1>6. MoveLed(u, 0, out) /\ out > 0
  BY <1>5 DEF unstake
<1>7. out \in Int /\ out >= row.balance
  BY <1>3, UnstakeCovers
<1> HIDE DEF out, row
<1>8. wallet' = [wallet EXCEPT ![u] = @ - 0 + out]
  BY <1>6 DEF MoveLed
<1>9. wallet'[u] = wallet[u] - 0 + out /\ wallet[u] \in Nat
  BY <1>1, <1>8
<1>10. wallet'[u] - wallet[u] >= row.balance
  BY <1>2, <1>7, <1>9
<1> QED BY <1>10 DEF row

\* As long as the manager lowers no yield (and changes none that a prediction
\* decides), unstake brings back at least the principal, whatever was claimed,
\* topped up and predicted before, and whichever way the price went.
THEOREM PrincipalReturned == Spec /\ [][YieldNotLowered]_vars => UnstakeReturnsPrincipal
<1>1. Init => KeptDeposits
  BY NothingKept
<1>2. SInv /\ KeptDeposits /\ [Next]_vars /\ [YieldNotLowered]_vars => KeptDeposits'
  <2>1. ASSUME SInv, KeptDeposits, Next, YieldNotLowered PROVE KeptDeposits'
    BY <2>1, KeptStep DEF DepositsStep
  <2>2. ASSUME KeptDeposits, UNCHANGED vars PROVE KeptDeposits'
    BY <2>2 DEF KeptDeposits, vars
  <2> QED BY <2>1, <2>2
<1> DEFINE Paid ==
      \A u \in Users, id \in ProductIds :
        Unstakes(u, id) => wallet'[u] - wallet[u] >= stakings[u][id].balance
<1>3. SInv /\ KeptDeposits /\ [Next]_vars => [Paid]_vars
  BY PrincipalStep
<1> QED BY <1>1, <1>2, <1>3, DepositInvariance, PTL DEF Spec, UnstakeReturnsPrincipal

-----------------------------------------------------------------------------
(***************************************************************************)
(* LEM: at the rate of the first era at most.                              *)
(***************************************************************************)
\* The boundaries of the eras.
eras == configs.last_half_life_updated

\* The term of a deposit ends, and lies within one era of the emission.
WithinEra(row, h) ==
  /\ row.ended_at # 0
  /\ \A e \in 1 .. 3 : h[e] <= row.started_at \/ row.ended_at <= h[e]

\* What was claimed is within the rate until the last claim.
LemRow(row, terms, time, h) ==
  IF terms.has_lem_rewards
  THEN WithinEra(row, h) =>
         /\ row.started_at <= row.last_claim_lem_reward
         /\ row.last_claim_lem_reward <= time
         /\ row.last_claim_lem_reward <= row.ended_at
         /\ row.lem_rewards <= LemReward(row.balance, row.last_claim_lem_reward - row.started_at)
  ELSE row.lem_rewards = 0

LemDeposits ==
  \A u \in Users, id \in ProductIds :
    stakings[u][id].balance > 0 =>
      configs.is_active /\ LemRow(stakings[u][id], products[id].offer, now, eras)

\* A remainder is at most the dividend, and so is a quotient.
LEMMA AtMostDividend ==
  ASSUME NEW k \in Nat, NEW n \in Nat \ {0}
  PROVE  k % n \in Nat /\ k % n <= k /\ k \div n \in Nat /\ k \div n <= k
<1> DEFINE q == k \div n
<1>1. q \in Nat /\ k % n \in 0 .. (n - 1) /\ k = n * q + (k % n)
  BY DivMod
<1> HIDE DEF q
<1>2. n * q \in Nat /\ q <= n * q
  <2>1. 1 * q <= n * q
    <3>1. 1 <= n
      OBVIOUS
    <3> QED BY <1>1, <3>1, ProductMonotone
  <2> QED BY <1>1, <2>1
<1> QED BY <1>1, <1>2 DEF q

\* What the loop has added up before an era, for an interval within one era.
AtMost(acc, era, start, end) ==
  /\ acc \in Acc /\ acc.last = start
  /\ \/ acc.secs = 0
     \/ acc.secs <= end - start /\ start < configs.last_half_life_updated[era]

\* An iteration of the LEM loop counts at most the seconds of the interval.
LEMMA RewardStepAtMost ==
  ASSUME ClockInv, configs.is_active, NEW start \in Nat, NEW end \in Nat, start <= end,
         \A e \in 1 .. 3 : \/ configs.last_half_life_updated[e] <= start
                           \/ end <= configs.last_half_life_updated[e],
         NEW era \in 0 .. 2, NEW acc, AtMost(acc, era, start, end)
  PROVE  AtMost(RewardStep(era, end, acc), era + 1, start, end)
<1> DEFINE h == configs.last_half_life_updated
           d == end - start
           x == Halved(d % U32, era)
           new == RewardStep(era, end, acc)
<1>1. /\ h[era] \in Nat /\ h[era + 1] \in Nat /\ h[era] <= h[era + 1]
      /\ acc.last = start /\ acc.secs \in Nat /\ d \in Nat /\ era + 1 \in 1 .. 3
  <2>1. h[era] \in Nat /\ h[era + 1] \in Nat /\ h[era + 1] = h[era] + HalfLife
    BY BoundaryTypes DEF ClockInv
  <2>2. HalfLife \in Nat
    BY IssuanceAssumption
  <2> HIDE DEF h
  <2> QED BY <2>1, <2>2 DEF AtMost, Acc
<1>2. new \in Acc
  BY RewardStepType DEF AtMost
<1>3. CASE h[era] <= start /\ start < h[era + 1]
  <2>1. end <= h[era + 1] /\ acc.secs = 0
    BY <1>1, <1>3 DEF AtMost
  <2>2. new = [last |-> start, secs |-> (0 + x) % U32]
    BY <1>1, <1>3, <2>1 DEF RewardStep
  <2>3. x \in Nat /\ x <= d
    <3>1. d % U32 \in Nat /\ d % U32 <= d
      BY <1>1, AtMostDividend, Numbers
    <3>2. Divisor[era + 1] \in Nat \ {0}
      <4>1. era = 0 \/ era = 1 \/ era = 2
        OBVIOUS
      <4> QED BY <4>1 DEF Divisor
    <3> HIDE DEF d
    <3>3. (d % U32) \div Divisor[era + 1] \in Nat /\ (d % U32) \div Divisor[era + 1] <= d % U32
      BY <3>1, <3>2, AtMostDividend
    <3> QED BY <1>1, <3>1, <3>3 DEF Halved
  <2> HIDE DEF x, d
  <2>4. (0 + x) % U32 \in Nat /\ (0 + x) % U32 <= d
    <3>1. 0 + x = x
      BY <2>3
    <3>2. x % U32 \in Nat /\ x % U32 <= x
      BY <2>3, AtMostDividend, Numbers
    <3> QED BY <1>1, <2>3, <3>1, <3>2
  <2>5. AtMost(new, era + 1, start, end)
    <3> HIDE DEF new
    <3> QED BY <1>2, <1>3, <2>2, <2>4 DEF AtMost, d
  <2> QED BY <2>5
<1>4. CASE ~(h[era] <= start /\ start < h[era + 1])
  <2>1. new = acc
    BY <1>1, <1>4 DEF RewardStep
  <2>2. AtMost(acc, era + 1, start, end)
    BY <1>1, <1>4 DEF AtMost
  <2> QED BY <2>1, <2>2
<1> QED BY <1>3, <1>4

\* In an interval within one era LEM accrues for no longer than it lasts.
LEMMA SecondsAtMost ==
  ASSUME ClockInv, configs.is_active, NEW start \in Nat, NEW end \in Nat, start <= end,
         \A e \in 1 .. 3 : \/ configs.last_half_life_updated[e] <= start
                           \/ end <= configs.last_half_life_updated[e]
  PROVE  LemSeconds(start, end) \in Nat /\ LemSeconds(start, end) <= end - start
<1> DEFINE zero == [last |-> start, secs |-> 0]
           one == RewardStep(0, end, zero)
           two == RewardStep(1, end, one)
           three == RewardStep(2, end, two)
<1>1. AtMost(zero, 0, start, end)
  BY DEF AtMost, Acc
<1>2. AtMost(one, 1, start, end)
  <2>1. 0 \in 0 .. 2 /\ 0 + 1 = 1
    OBVIOUS
  <2> HIDE DEF zero
  <2> QED BY <1>1, <2>1, RewardStepAtMost
<1> HIDE DEF one
<1>3. AtMost(two, 2, start, end)
  <2>1. 1 \in 0 .. 2 /\ 1 + 1 = 2
    OBVIOUS
  <2> QED BY <1>2, <2>1, RewardStepAtMost
<1> HIDE DEF two
<1>4. AtMost(three, 3, start, end)
  <2>1. 2 \in 0 .. 2 /\ 2 + 1 = 3
    OBVIOUS
  <2> QED BY <1>3, <2>1, RewardStepAtMost
<1>5. LemSeconds(start, end) = three.secs
  BY DEF LemSeconds, one, two
<1> HIDE DEF three
<1> QED BY <1>4, <1>5 DEF AtMost, Acc

\* The LEM of two intervals, and of a longer one.
LEMMA LemAdds ==
  ASSUME NEW b \in Nat, NEW s \in Nat, NEW t \in Nat
  PROVE  /\ LemReward(b, s) \in Nat /\ LemReward(b, s + t) \in Nat
         /\ LemReward(b, s) + LemReward(b, t) <= LemReward(b, s + t)
         /\ s <= t => LemReward(b, s) <= LemReward(b, t)
<1> DEFINE k == b * s
           l == b * t
<1>1. k \in Nat /\ l \in Nat /\ b * (s + t) = k + l /\ k + l \in Nat
  OBVIOUS
<1>2. s <= t => k <= l
  <2>1. s <= t => s * b <= t * b
    BY ProductMonotone
  <2>2. s * b = b * s /\ t * b = b * t
    OBVIOUS
  <2> QED BY <2>1, <2>2
<1>3. LemReward(b, s) = k \div LemUnit /\ LemReward(b, t) = l \div LemUnit
      /\ LemReward(b, s + t) = (k + l) \div LemUnit
  BY <1>1 DEF LemReward
<1> HIDE DEF k, l
<1>4. k \div LemUnit \in Nat /\ (k + l) \div LemUnit \in Nat
  BY <1>1, DivMod, Numbers
<1>5. (k \div LemUnit) + (l \div LemUnit) <= (k + l) \div LemUnit
  BY <1>1, QuotientsAdd, Numbers
<1>6. k <= l => k \div LemUnit <= l \div LemUnit
  BY <1>1, QuotientGrows, Numbers
<1> QED BY <1>2, <1>3, <1>4, <1>5, <1>6

\* claimlem's signed sum earns LEM only if it is the sum.
LEMMA SignedReward ==
  ASSUME NEW b \in Nat, NEW secs \in Nat, LemReward(b, SignedSeconds(secs)) > 0
  PROVE  LemReward(b, SignedSeconds(secs)) <= LemReward(b, secs)
<1> DEFINE t == SignedSeconds(secs)
           p == b * t
<1>1. t \in Int /\ (t = secs \/ t = secs - U32)
  BY Numbers DEF SignedSeconds
<1>2. CASE t < 0
  <2> HIDE DEF t
  <2>1. -t \in Nat /\ b * (-t) \in Nat /\ p = -(b * (-t))
    BY <1>1, <1>2
  <2>2. p \in Int /\ p <= 0
    BY <2>1
  <2>3. LemReward(b, t) = p \div LemUnit
    BY DEF LemReward
  <2> HIDE DEF p
  <2> DEFINE q == p \div LemUnit
  <2>4. q \in Int /\ p = LemUnit * q + (p % LemUnit) /\ p % LemUnit \in Nat
    BY <2>2, Numbers
  <2> HIDE DEF q
  <2>5. ASSUME q > 0 PROVE FALSE
    <3>1. q \in Nat /\ LemUnit * q \in Nat /\ LemUnit * q >= LemUnit
      <4>1. 1 <= q /\ q \in Nat
        BY <2>4, <2>5
      <4>2. 1 * LemUnit <= q * LemUnit
        BY <4>1, ProductMonotone, Numbers
      <4> QED BY <4>1, <4>2, Numbers
    <3> QED BY <2>2, <2>4, <3>1, Numbers
  <2>6. LemReward(b, t) > 0
    BY DEF t
  <2> QED BY <2>3, <2>5, <2>6 DEF q
<1>3. CASE t >= 0
  <2>1. t \in Nat /\ t <= secs
    BY <1>1, <1>3, Numbers
  <2> HIDE DEF t
  <2>2. LemReward(b, t) <= LemReward(b, secs)
    BY <2>1, LemAdds
  <2> QED BY <2>2 DEF t
<1> QED BY <1>1, <1>2, <1>3

\* What IssueAndPayLem adds to the stakers' LEM: issue_lem itself adds nothing.
LEMMA PaidLem ==
  ASSUME ClockInv, NEW amount \in Int, IssueAndPayLem(amount)
  PROVE  lem'.balance["users"] - lem.balance["users"] = IF amount > 0 THEN amount ELSE 0
<1> DEFINE issued == LemAfterIssue
           users == lem.balance["users"]
<1>1. configs.is_active
      /\ lem' = IF amount > 0
                THEN [issued EXCEPT !.balance["self"] = @ - amount,
                                    !.balance["users"] = @ + amount]
                ELSE issued
  BY DEF IssueAndPayLem
<1>2. issued \in [supply : Nat, balance : [LemAccounts -> Nat]]
  BY <1>1, IssuedLedger
<1>3. /\ "users" \in LemAccounts /\ "self" \in LemAccounts /\ "users" # "self"
      /\ "users" \notin Buckets
  BY DEF LemAccounts, Buckets
<1>4. users \in Nat
  BY <1>3 DEF ClockInv, IssuanceTypeOK
<1>5. issued.balance["users"] = users
  BY <1>3 DEF LemAfterIssue, LemIssued
<1> HIDE DEF issued, users
<1>6. CASE amount > 0
  <2>1. lem'.balance["users"] = issued.balance["users"] + amount
    BY <1>1, <1>2, <1>3, <1>6
  <2> QED BY <1>4, <1>5, <1>6, <2>1 DEF users
<1>7. CASE ~(amount > 0)
  BY <1>1, <1>4, <1>5, <1>7 DEF users
<1> QED BY <1>6, <1>7

\* Within one era, a deposit accrues no more than the rate times the time.
LEMMA AccruedAtMost ==
  ASSUME ClockInv, configs.is_active, NEW row \in staking, WithinEra(row, eras),
         NEW start \in Nat, NEW end \in Nat,
         row.started_at <= start, start <= end, end <= row.ended_at
  PROVE  /\ LemSeconds(start, end) \in Nat
         /\ LemReward(row.balance, LemSeconds(start, end)) <= LemReward(row.balance, end - start)
<1>1. row.balance \in Nat /\ row.started_at \in Nat /\ row.ended_at \in Nat
  BY DEF staking
<1>2. \A e \in 1 .. 3 : configs.last_half_life_updated[e] \in Nat
  BY DEF ClockInv, IssuanceTypeOK, config
<1>3. \A e \in 1 .. 3 : \/ configs.last_half_life_updated[e] <= start
                        \/ end <= configs.last_half_life_updated[e]
  BY <1>1, <1>2 DEF WithinEra, eras
<1>4. LemSeconds(start, end) \in Nat /\ LemSeconds(start, end) <= end - start
  BY <1>3, SecondsAtMost
<1>5. end - start \in Nat
  OBVIOUS
<1> DEFINE s == LemSeconds(start, end)
           t == end - start
<1> HIDE DEF s, t
<1>6. LemReward(row.balance, s) <= LemReward(row.balance, t)
  BY <1>1, <1>4, <1>5, LemAdds DEF s, t
<1> QED BY <1>4, <1>6 DEF s, t

\* For a deposit whose LEM accrues within one era: when rewards end, and that
\* what was claimed is within the rate until any later time.
LEMMA LemTimes ==
  ASSUME SInv, NEW u \in Users, NEW id \in ProductIds, Holds(u, id),
         NEW row, row = stakings[u][id], NEW terms, terms = products[id].offer,
         terms.has_lem_rewards, WithinEra(row, eras), LemRow(row, terms, now, eras)
  PROVE  /\ row.started_at <= row.last_claim_lem_reward
         /\ row.last_claim_lem_reward <= RewardsEnd(now, row)
         /\ RewardsEnd(now, row) \in Nat
         /\ RewardsEnd(now, row) <= now /\ RewardsEnd(now, row) <= row.ended_at
         /\ row.lem_rewards <= LemReward(row.balance, row.last_claim_lem_reward - row.started_at)
         /\ row.lem_rewards <= LemReward(row.balance, now - row.started_at)
<1>1. /\ row \in staking /\ row.balance \in Nat /\ row.lem_rewards \in Nat
      /\ row.started_at \in Nat /\ row.ended_at \in Nat /\ row.last_claim_lem_reward \in Nat
      /\ now \in Nat
  BY HeldRow
<1>2. /\ row.started_at <= row.last_claim_lem_reward
      /\ row.last_claim_lem_reward <= now
      /\ row.last_claim_lem_reward <= row.ended_at
      /\ row.lem_rewards <= LemReward(row.balance, row.last_claim_lem_reward - row.started_at)
  BY DEF LemRow
<1>3. /\ row.last_claim_lem_reward <= RewardsEnd(now, row) /\ RewardsEnd(now, row) \in Nat
      /\ RewardsEnd(now, row) <= now /\ RewardsEnd(now, row) <= row.ended_at
  BY <1>1, <1>2 DEF RewardsEnd
<1> DEFINE s == row.last_claim_lem_reward - row.started_at
           t == now - row.started_at
<1>4. s \in Nat /\ t \in Nat /\ s <= t
  BY <1>1, <1>2
<1> HIDE DEF s, t
<1>5. /\ LemReward(row.balance, s) <= LemReward(row.balance, t)
      /\ LemReward(row.balance, s) \in Nat /\ LemReward(row.balance, t) \in Nat
  BY <1>1, <1>4, LemAdds
<1>6. row.lem_rewards <= LemReward(row.balance, t)
  BY <1>1, <1>2, <1>5 DEF s
<1> QED BY <1>2, <1>3, <1>6 DEF t

\* claimlem stays within the rate until the claim.
LEMMA ClaimlemWithin ==
  ASSUME SInv, configs.is_active, NEW u \in Users, NEW id \in ProductIds, Holds(u, id),
         NEW row, row = stakings[u][id], NEW terms, terms = products[id].offer,
         terms.has_lem_rewards, WithinEra(row, eras), LemRow(row, terms, now, eras),
         NEW end, end = RewardsEnd(now, row),
         NEW amount, amount = LemReward(row.balance,
                                SignedSeconds(LemSeconds(row.last_claim_lem_reward, end))),
         amount > 0
  PROVE  /\ amount \in Int
         /\ row.lem_rewards + amount <= LemReward(row.balance, end - row.started_at)
<1>1. /\ row \in staking /\ row.balance \in Nat /\ row.lem_rewards \in Nat
      /\ row.started_at \in Nat /\ row.last_claim_lem_reward \in Nat /\ now \in Nat
  BY HeldRow
<1>2. /\ row.started_at <= row.last_claim_lem_reward /\ row.last_claim_lem_reward <= end
      /\ end \in Nat /\ end <= row.ended_at
      /\ row.lem_rewards <= LemReward(row.balance, row.last_claim_lem_reward - row.started_at)
  BY LemTimes
<1>3. ClockInv
  BY DEF SInv
<1> DEFINE secs == LemSeconds(row.last_claim_lem_reward, end)
           s == row.last_claim_lem_reward - row.started_at
           t == end - row.last_claim_lem_reward
<1>4. secs \in Nat /\ LemReward(row.balance, secs) <= LemReward(row.balance, t)
  BY <1>1, <1>2, <1>3, AccruedAtMost
<1>5. amount \in Int
  BY <1>1, <1>2, <1>3, LemRewardInt
<1>6. amount <= LemReward(row.balance, secs)
  <2> HIDE DEF secs
  <2>1. amount = LemReward(row.balance, SignedSeconds(secs))
    BY DEF secs
  <2> QED BY <1>1, <1>4, <2>1, SignedReward
<1>7. s \in Nat /\ t \in Nat /\ s + t = end - row.started_at
  BY <1>1, <1>2
<1> HIDE DEF secs, s, t
<1>8. /\ LemReward(row.balance, s) \in Nat /\ LemReward(row.balance, t) \in Nat
      /\ LemReward(row.balance, secs) \in Nat /\ LemReward(row.balance, s + t) \in Nat
      /\ LemReward(row.balance, s) + LemReward(row.balance, t) <= LemReward(row.balance, s + t)
  BY <1>1, <1>4, <1>7, LemAdds
<1>9. row.lem_rewards + amount <= LemReward(row.balance, s + t)
  BY <1>1, <1>2, <1>4, <1>5, <1>6, <1>8 DEF s
<1> QED BY <1>5, <1>7, <1>9

\* A row that starts now has claimed nothing.
LEMMA FreshRowLem ==
  ASSUME SInv, NEW row \in staking, NEW terms \in offer, NEW h,
         row.started_at = now, row.ended_at # 0 => now <= row.ended_at,
         row.last_claim_lem_reward = LemClock(terms), row.lem_rewards = 0
  PROVE  LemRow(row, terms, now, h)
<1>1. now \in Nat /\ now - now \in Nat /\ row.balance \in Nat
  BY DEF SInv, TypeOK, IssuanceTypeOK, staking
<1>2. LemReward(row.balance, now - now) \in Nat
  BY <1>1, LemAdds
<1> QED BY <1>1, <1>2 DEF LemRow, LemClock, WithinEra

\* Every step keeps the LEM claims of such deposits within their rate.
LEMMA LemStep ==
  ASSUME SInv, LemDeposits, DepositsStep, stakings' \in [Users -> [ProductIds -> staking]]
  PROVE  LemDeposits'
<1> SUFFICES ASSUME NEW u \in Users, NEW id \in ProductIds, stakings'[u][id].balance > 0
             PROVE  configs'.is_active
                    /\ LemRow(stakings'[u][id], products'[id].offer, now', eras')
  BY DEF LemDeposits
<1> DEFINE old == stakings[u][id]
           new == stakings'[u][id]
           terms == products[id].offer
<1>0. /\ stakings \in [Users -> [ProductIds -> staking]] /\ products \in [ProductIds -> product]
      /\ old \in staking /\ new \in staking /\ terms \in offer
      /\ now \in Nat /\ now' \in Nat /\ now <= now'
      /\ new # old => now' = now
  BY ClockSteps, TableTypes DEF SInv, TypeOK
<1>1. ASSUME old.balance > 0
      PROVE  /\ configs.is_active /\ configs'.is_active /\ eras' = eras
             /\ LemRow(old, terms, now, eras) /\ products'[id].offer = terms
  BY <1>1, ClockSteps, TermsKept DEF LemDeposits, eras
<1>2. ASSUME old.balance > 0, new.balance = old.balance,
             new.started_at = old.started_at, new.ended_at = old.ended_at,
             new.last_claim_lem_reward = old.last_claim_lem_reward,
             new.lem_rewards = old.lem_rewards
      PROVE  configs'.is_active /\ LemRow(new, products'[id].offer, now', eras')
  <2>1. LemRow(new, terms, now', eras)
    <3>1. old.last_claim_lem_reward \in Nat
      BY <1>0 DEF staking
    <3> HIDE DEF old, new, terms
    <3>2. LemRow(old, terms, now, eras)
      BY <1>1, <1>2
    <3> QED BY <1>0, <1>2, <3>1, <3>2 DEF LemRow, WithinEra
  <2> QED BY <1>1, <1>2, <2>1
<1>3. CASE new = old
  BY <1>2, <1>3
<1>4. ASSUME new # old, new.started_at = now, new.ended_at = EndOf(terms),
             new.last_claim_lem_reward = LemClock(terms), new.lem_rewards = 0
      PROVE  LemRow(new, terms, now', eras')
  <2>1. new.ended_at # 0 => now <= new.ended_at
    <3>1. /\ Day * terms.duration \in Nat
          /\ EndOf(terms) = IF terms.duration = 0 THEN 0 ELSE now + Day * terms.duration
      BY TermTypes
    <3> HIDE DEF new, terms
    <3> QED BY <1>0, <1>4, <3>1
  <2>2. now' = now
    BY <1>0, <1>4
  <2> HIDE DEF new, terms
  <2>3. LemRow(new, terms, now, eras')
    BY <1>0, <1>4, <2>1, FreshRowLem
  <2> QED BY <2>2, <2>3
<1>5. ASSUME NEW q \in Quantities, NEW p \in Predictions, StakeNew(u, q, id, p), new # old
      PROVE  configs'.is_active /\ LemRow(new, products'[id].offer, now', eras')
  <2>1. /\ configs.is_active /\ configs' = configs
        /\ stakings' = [stakings EXCEPT ![u][id] = NewStaking(terms, q, p)]
        /\ products' = [products EXCEPT ![id].current_amount = @ + q, ![id].buyers = @ \cup {u}]
    BY <1>5 DEF StakeNew, issuanceVars
  <2>2. new = NewStaking(terms, q, p)
    BY <1>0, <2>1
  <2>3. products'[id].offer = terms
    <3> DEFINE n == products[id].current_amount + q
               B == products[id].buyers \cup {u}
    <3>1. products'[id] = [products[id] EXCEPT !.current_amount = n, !.buyers = B]
      BY <1>0, <2>1
    <3>2. products[id] \in product
      BY <1>0
    <3> HIDE DEF n, B
    <3> QED BY ONLY <3>1, <3>2 DEF product
  <2>4. /\ new.started_at = now /\ new.ended_at = EndOf(terms)
        /\ new.last_claim_lem_reward = LemClock(terms) /\ new.lem_rewards = 0
    BY <2>2 DEF NewStaking
  <2>5. LemRow(new, terms, now', eras')
    BY <1>4, <1>5, <2>4
  <2> QED BY <2>1, <2>3, <2>5
<1>6. ASSUME NEW q \in Quantities, StakeMore(u, q, id), new # old, old.balance > 0
      PROVE  configs'.is_active /\ LemRow(new, products'[id].offer, now', eras')
  <2>1. new = ToppedUp(old, terms, q)
    BY <1>0, <1>6 DEF StakeMore
  <2>2. /\ new.started_at = now /\ new.ended_at = EndOf(terms)
        /\ new.last_claim_lem_reward = LemClock(terms) /\ new.lem_rewards = 0
    <3> HIDE DEF old, new, terms
    <3> QED BY <1>0, <2>1 DEF ToppedUp, staking
  <2>3. LemRow(new, terms, now', eras')
    BY <1>4, <1>6, <2>2
  <2> QED BY <1>1, <1>6, <2>3
<1>7. ASSUME claimlem(u, id), new # old, old.balance > 0
      PROVE  configs'.is_active /\ LemRow(new, products'[id].offer, now', eras')
  <2> DEFINE end == RewardsEnd(now, old)
             amount == LemReward(old.balance, SignedSeconds(LemSeconds(old.last_claim_lem_reward, end)))
  <2>1. /\ Holds(u, id) /\ terms.has_lem_rewards /\ amount > 0
        /\ new = LemClaimed(old, end, amount)
    BY <1>0, <1>7 DEF claimlem
  <2>2. now' = now
    BY <1>0, <1>7
  <2>3. LemRow(new, terms, now, eras)
    <3>1. SUFFICES ASSUME WithinEra(new, eras)
                   PROVE  /\ new.started_at <= new.last_claim_lem_reward
                          /\ new.last_claim_lem_reward <= now
                          /\ new.last_claim_lem_reward <= new.ended_at
                          /\ new.lem_rewards
                               <= LemReward(new.balance, new.last_claim_lem_reward - new.started_at)
      BY <2>1 DEF LemRow
    <3>2. configs.is_active /\ LemRow(old, terms, now, eras)
      BY <1>1, <1>7
    <3>3. /\ new.balance = old.balance
          /\ new.started_at = old.started_at /\ new.ended_at = old.ended_at
          /\ new.last_claim_lem_reward = end /\ new.lem_rewards = old.lem_rewards + amount
      <4> HIDE DEF old, new, terms, end, amount
      <4> QED BY <1>0, <2>1 DEF LemClaimed, staking
    <3>4. WithinEra(old, eras)
      <4> HIDE DEF old, new
      <4> QED BY <3>1, <3>3 DEF WithinEra
    <3>5. /\ old.started_at <= old.last_claim_lem_reward /\ old.last_claim_lem_reward <= end
          /\ end \in Nat /\ end <= now /\ end <= old.ended_at
      BY <2>1, <3>2, <3>4, LemTimes
    <3>6. old.lem_rewards + amount <= LemReward(old.balance, end - old.started_at)
      BY <2>1, <3>2, <3>4, ClaimlemWithin
    <3>7. old.started_at \in Nat /\ old.last_claim_lem_reward \in Nat
      BY <1>0 DEF staking
    <3> HIDE DEF old, new, terms, end, amount
    <3> QED BY <3>3, <3>5, <3>6, <3>7
  <2> QED BY <1>1, <1>7, <2>2, <2>3
<1>8. ASSUME claimled(u, id), old.balance > 0
      PROVE  configs'.is_active /\ LemRow(new, products'[id].offer, now', eras')
  <2>1. \E time, amount : new = LedClaimed(old, time, amount)
    BY <1>0, <1>8 DEF claimled
  <2>2. /\ new.balance = old.balance
        /\ new.started_at = old.started_at /\ new.ended_at = old.ended_at
        /\ new.last_claim_lem_reward = old.last_claim_lem_reward
        /\ new.lem_rewards = old.lem_rewards
    <3> HIDE DEF old, new
    <3> QED BY <1>0, <2>1 DEF LedClaimed, staking
  <2> QED BY <1>2, <1>8, <2>2
<1>9. ASSUME NEW y \in Yields, changeyield(u, id, y), old.balance > 0
      PROVE  configs'.is_active /\ LemRow(new, products'[id].offer, now', eras')
  <2>1. stakings' = [stakings EXCEPT ![u][id].current_yield = y]
    BY <1>9 DEF changeyield
  <2>2. new = [old EXCEPT !.current_yield = y]
    BY <1>0, <2>1
  <2>3. /\ new.balance = old.balance
        /\ new.started_at = old.started_at /\ new.ended_at = old.ended_at
        /\ new.last_claim_lem_reward = old.last_claim_lem_reward
        /\ new.lem_rewards = old.lem_rewards
    <3> HIDE DEF old, new
    <3> QED BY <1>0, <2>2 DEF staking
  <2> QED BY <1>2, <1>9, <2>3
<1>10. CASE new # old
  <2>1. DepositOperation(u, id)
    BY <1>10, RowChanges
  <2>2. ASSUME unstake(u, id) PROVE FALSE
    <3>1. new = NoStaking
      BY <1>0, <2>2 DEF unstake
    <3> QED BY <3>1 DEF NoStaking
  <2>3. CASE old.balance > 0
    BY <1>5, <1>6, <1>7, <1>8, <1>9, <1>10, <2>1, <2>2, <2>3 DEF DepositOperation
  <2>4. CASE ~(old.balance > 0)
    <3>1. ~Holds(u, id)
      BY <2>4 DEF Holds
    <3>2. \E q \in Quantities, p \in Predictions : StakeNew(u, q, id, p)
      BY <2>1, <3>1 DEF DepositOperation, StakeMore, unstake, claimled, claimlem, changeyield
    <3> QED BY <1>5, <1>10, <3>2
  <2> QED BY <2>3, <2>4
<1> QED BY <1>3, <1>10

\* What a top-up or an unstake pays in LEM, and what was claimed, are together
\* within the rate until now.
LEMMA LemDueWithin ==
  ASSUME SInv, configs.is_active, NEW u \in Users, NEW id \in ProductIds, Holds(u, id),
         NEW row, row = stakings[u][id], NEW terms, terms = products[id].offer,
         LemRow(row, terms, now, eras), terms.has_lem_rewards => WithinEra(row, eras),
         NEW current \in Nat, RewardsEnd(current, row) = RewardsEnd(now, row) \/ ~terms.has_lem_rewards
  PROVE  /\ row.lem_rewards <= LemReward(row.balance, now - row.started_at)
         /\ LemDue(row, terms, current) \in Int
         /\ row.lem_rewards + LemDue(row, terms, current)
              <= LemReward(row.balance, now - row.started_at)
<1>1. /\ row \in staking /\ row.balance \in Nat /\ row.lem_rewards \in Nat
      /\ row.started_at \in Nat /\ now \in Nat /\ now - row.started_at \in Nat
  BY HeldRow
<1> DEFINE t == now - row.started_at
<1>2. LemReward(row.balance, t) \in Nat
  <2> HIDE DEF t
  <2>1. t \in Nat
    BY <1>1 DEF t
  <2> QED BY <1>1, <2>1, LemAdds
<1>3. LemDue(row, terms, current) \in Int
  BY LemDueInt
<1>4. CASE ~terms.has_lem_rewards
  <2>1. row.lem_rewards = 0 /\ LemDue(row, terms, current) = 0
    BY <1>4 DEF LemRow, LemDue
  <2> QED BY <1>2, <2>1
<1>5. CASE terms.has_lem_rewards
  <2> DEFINE end == RewardsEnd(now, row)
             s == end - row.started_at
             earned == LemReward(row.balance, LemSeconds(row.started_at, end))
  <2>1. /\ row.started_at <= row.last_claim_lem_reward /\ row.last_claim_lem_reward <= end
        /\ end \in Nat /\ end <= now /\ end <= row.ended_at
        /\ row.lem_rewards <= LemReward(row.balance, t)
    BY <1>5, LemTimes
  <2>2. row.started_at <= end
    <3>1. row.last_claim_lem_reward \in Nat
      BY <1>1 DEF staking
    <3> HIDE DEF end
    <3> QED BY <1>1, <2>1, <3>1
  <2>3. LemDue(row, terms, current) = earned - row.lem_rewards
    BY <1>5 DEF LemDue
  <2> HIDE DEF end
  <2>4. earned <= LemReward(row.balance, s)
    <3>1. ClockInv /\ row.started_at <= row.started_at
      BY <1>1 DEF SInv
    <3> QED BY <1>1, <1>5, <2>1, <2>2, <3>1, AccruedAtMost
  <2>5. earned \in Int
    BY <1>1, <2>1, LemRewardInt DEF SInv
  <2>6. s \in Nat /\ t \in Nat /\ s <= t
    BY <1>1, <2>1, <2>2
  <2> HIDE DEF s, t, earned
  <2>7. LemReward(row.balance, s) <= LemReward(row.balance, t)
        /\ LemReward(row.balance, s) \in Nat
    BY <1>1, <2>6, LemAdds
  <2>8. row.lem_rewards + LemDue(row, terms, current) <= LemReward(row.balance, t)
    BY <1>1, <1>2, <2>3, <2>4, <2>5, <2>7
  <2> QED BY <1>3, <2>1, <2>8 DEF t
<1> QED BY <1>4, <1>5

\* Every operation on a deposit keeps the LEM it has brought within the rate.
LEMMA LemRateStep ==
  ASSUME SInv, LemDeposits, DepositsStep, NEW u \in Users, NEW id \in ProductIds,
         NEW row, row = stakings[u][id], NEW terms, terms = products[id].offer,
         stakings'[u][id] # row, row.balance > 0,
         terms.has_lem_rewards => WithinEra(row, eras)
  PROVE  row.lem_rewards + (lem'.balance["users"] - lem.balance["users"])
           <= LemReward(row.balance, now - row.started_at)
<1> DEFINE paid == lem'.balance["users"] - lem.balance["users"]
           limit == LemReward(row.balance, now - row.started_at)
<1>1. stakings \in [Users -> [ProductIds -> staking]] /\ lem.balance["users"] \in Nat /\ ClockInv
  <2>1. "users" \in LemAccounts
    BY DEF LemAccounts
  <2> QED BY <2>1 DEF SInv, TypeOK, IssuanceTypeOK
<1>2. Holds(u, id)
  BY DEF SInv, GoodDeposits, Holds
<1>3. /\ row \in staking /\ row.balance \in Nat /\ row.lem_rewards \in Nat
      /\ row.started_at \in Nat /\ row.ended_at \in Nat /\ row.last_claim_lem_reward \in Nat
      /\ now \in Nat /\ now - row.started_at \in Nat /\ GoodRow(row, terms, now)
  BY <1>2, HeldRow
<1>4. configs.is_active /\ LemRow(row, terms, now, eras)
  BY DEF LemDeposits
<1>5. row.lem_rewards <= limit
  BY <1>2, <1>3, <1>4, LemDueWithin
<1>6. limit \in Nat
  <2> DEFINE t == now - row.started_at
  <2>1. t \in Nat
    BY <1>3
  <2> HIDE DEF t
  <2>2. LemReward(row.balance, t) \in Nat
    BY <1>3, <2>1, LemAdds
  <2> QED BY <2>2 DEF t
<1>7. ASSUME NEW amount \in Int, IssueAndPayLem(amount), row.lem_rewards + amount <= limit
      PROVE  row.lem_rewards + paid <= limit
  <2>1. paid = IF amount > 0 THEN amount ELSE 0
    BY <1>1, <1>7, PaidLem
  <2> HIDE DEF paid, limit
  <2> QED BY <1>3, <1>5, <1>6, <1>7, <2>1
<1>8. ASSUME lem' = lem PROVE row.lem_rewards + paid <= limit
  <2>1. paid = 0
    BY <1>1, <1>8
  <2> HIDE DEF paid, limit
  <2> QED BY <1>3, <1>5, <1>6, <2>1
<1>9. ASSUME NEW q \in Quantities, NEW p \in Predictions, StakeNew(u, q, id, p) PROVE FALSE
  BY <1>2, <1>9 DEF StakeNew
<1>10. ASSUME NEW q \in Quantities, StakeMore(u, q, id)
       PROVE  row.lem_rewards + paid <= limit
  <2> DEFINE amount == LemDue(row, terms, now)
  <2>1. IssueAndPayLem(amount)
    BY <1>10 DEF StakeMore
  <2>2. amount \in Int /\ row.lem_rewards + amount <= limit
    BY <1>2, <1>3, <1>4, LemDueWithin
  <2> HIDE DEF amount, limit, paid
  <2> QED BY <1>7, <2>1, <2>2
<1>11. ASSUME unstake(u, id) PROVE row.lem_rewards + paid <= limit
  <2> DEFINE current == UnstakeEnd(row, terms)
             amount == LemDue(row, terms, current)
  <2>1. IssueAndPayLem(amount) /\ Matured(row)
    BY <1>11 DEF unstake
  <2>2. current \in Nat
    <3>1. terms \in offer
      BY TermTypes DEF SInv
    <3> QED BY <1>3, <3>1, InterestEnds
  <2>3. RewardsEnd(current, row) = RewardsEnd(now, row) \/ ~terms.has_lem_rewards
    <3>1. SUFFICES ASSUME terms.has_lem_rewards PROVE RewardsEnd(current, row) = RewardsEnd(now, row)
      OBVIOUS
    <3>2. row.ended_at # 0
      BY <3>1 DEF WithinEra
    <3>3. terms.duration # 0 /\ row.ended_at <= now
      BY <1>3, <2>1, <3>2 DEF GoodRow, Matured
    <3>4. current = row.ended_at
      BY <3>3 DEF UnstakeEnd
    <3> QED BY <1>3, <3>3, <3>4 DEF RewardsEnd
  <2> HIDE DEF current
  <2>4. amount \in Int /\ row.lem_rewards + amount <= limit
    BY <1>2, <1>3, <1>4, <2>2, <2>3, LemDueWithin
  <2> HIDE DEF amount, limit, paid
  <2> QED BY <1>7, <2>1, <2>4
<1>12. ASSUME claimled(u, id) PROVE lem' = lem
  BY <1>12 DEF claimled, issuanceVars
<1>13. ASSUME NEW y \in Yields, changeyield(u, id, y) PROVE lem' = lem
  BY <1>13 DEF changeyield, issuanceVars
<1>14. ASSUME claimlem(u, id) PROVE row.lem_rewards + paid <= limit
  <2> DEFINE end == RewardsEnd(now, row)
             amount == LemReward(row.balance, SignedSeconds(LemSeconds(row.last_claim_lem_reward, end)))
  <2>1. /\ terms.has_lem_rewards /\ IssueAndPayLem(amount)
        /\ amount > 0
    BY <1>14 DEF claimlem
  <2>2. /\ row.started_at <= row.last_claim_lem_reward /\ row.last_claim_lem_reward <= end
        /\ end \in Nat /\ end <= now
    BY <1>2, <1>4, <2>1, LemTimes
  <2>3. amount \in Int /\ row.lem_rewards + amount <= LemReward(row.balance, end - row.started_at)
    BY <1>2, <1>4, <2>1, ClaimlemWithin
  <2> HIDE DEF amount
  <2> DEFINE s == end - row.started_at
             t == now - row.started_at
  <2> HIDE DEF end
  <2>4. s \in Nat /\ t \in Nat /\ s <= t
    BY <1>3, <2>2
  <2> HIDE DEF s, t
  <2>5. LemReward(row.balance, s) <= LemReward(row.balance, t) /\ LemReward(row.balance, s) \in Nat
    BY <1>3, <2>4, LemAdds
  <2>6. row.lem_rewards + amount <= limit
    BY <1>3, <1>6, <2>3, <2>5 DEF s, t
  <2> HIDE DEF paid, limit
  <2> QED BY <1>7, <2>1, <2>3, <2>6
<1>15. DepositOperation(u, id)
  BY RowChanges
<1> HIDE DEF paid, limit
<1>16. row.lem_rewards + paid <= limit
  BY <1>8, <1>9, <1>10, <1>11, <1>12, <1>13, <1>14, <1>15 DEF DepositOperation
<1> QED BY <1>16 DEF paid, limit

\* LemAtTheRate for the deposits that earn LEM, if any, within one era only.
LemAtTheRateWithinEra ==
  \A u \in Users, id \in ProductIds :
    LET row == stakings[u][id]
        paid == lem'.balance["users"] - lem.balance["users"]
    IN  (/\ stakings'[u][id] # row /\ row.balance > 0
         /\ products[id].offer.has_lem_rewards => WithinEra(row, eras))
        => row.lem_rewards + paid <= LemReward(row.balance, now - row.started_at)

\* Whoever claims, tops up and withdraws in whatever order, a deposit whose term
\* ends and crosses no half-life brings LEM at the rate of the first era at most.
THEOREM RateWithinEra == Spec => [][LemAtTheRateWithinEra]_vars
<1>1. Init => LemDeposits
  BY DEF Init, LemDeposits, NoStaking
<1>2. SInv /\ SInv' /\ LemDeposits /\ [Next]_vars => LemDeposits'
  <2>1. ASSUME SInv, SInv', LemDeposits, Next PROVE LemDeposits'
    <3>1. stakings' \in [Users -> [ProductIds -> staking]]
      BY <2>1 DEF SInv, TypeOK
    <3> QED BY <2>1, <3>1, LemStep DEF DepositsStep
  <2>2. ASSUME LemDeposits, UNCHANGED vars PROVE LemDeposits'
    BY <2>2 DEF LemDeposits, vars, issuanceVars, eras
  <2> QED BY <2>1, <2>2
<1>3. SInv /\ LemDeposits /\ [Next]_vars => [LemAtTheRateWithinEra]_vars
  <2>1. ASSUME SInv, LemDeposits, Next PROVE LemAtTheRateWithinEra
    BY <2>1, LemRateStep DEF LemAtTheRateWithinEra, DepositsStep
  <2> QED BY <2>1
<1> QED BY <1>1, <1>2, <1>3, DepositInvariance, PTL DEF Spec

\* Products that pay LEM have a duration, and no half-life falls in a term.
TermsWithinEras ==
  \A u \in Users, id \in ProductIds :
    (Holds(u, id) /\ products[id].offer.has_lem_rewards) => WithinEra(stakings[u][id], eras)

\* So in a contract whose LEM products all have terms within an era, LEM is paid
\* at the rate of the first era at most.
THEOREM RateRespected == Spec /\ []TermsWithinEras => LemAtTheRate
<1> DEFINE AtTheRate ==
      \A u \in Users, id \in ProductIds :
        LET row == stakings[u][id]
            paid == lem'.balance["users"] - lem.balance["users"]
        IN  (stakings'[u][id] # row /\ row.balance > 0) =>
              row.lem_rewards + paid <= LemReward(row.balance, now - row.started_at)
<1>1. SInv /\ TermsWithinEras /\ [LemAtTheRateWithinEra]_vars => [AtTheRate]_vars
  <2>1. ASSUME SInv, TermsWithinEras, LemAtTheRateWithinEra PROVE AtTheRate
    BY <2>1 DEF TermsWithinEras, LemAtTheRateWithinEra, Holds, SInv, GoodDeposits
  <2> QED BY <2>1
<1> QED BY <1>1, RateWithinEra, DepositInvariance, PTL DEF LemAtTheRate

-----------------------------------------------------------------------------
(***************************************************************************)
(* The emission when stakers run it: stake, unstake and claimlem call      *)
(* issue_lem before they pay, and the LEM they pay comes from its half.    *)
(***************************************************************************)
\* What was issued and not paid out yet is the contract's, and what was paid out
\* is the stakers': together at least half of the supply.
HalfForStakers == 2 * (lem.balance["self"] + lem.balance["users"]) >= lem.supply

\* What issuelem and the operations of deposits leave of the LEM ledger: either
\* they issue, or it stays as it is.
LemMoves ==
  \/ /\ configs.is_active /\ configs' = ConfigAfterIssue /\ now' = now
     /\ lem'.supply = LemAfterIssue.supply
     /\ lem'.balance["self"] + lem'.balance["users"]
          = LemAfterIssue.balance["self"] + LemAfterIssue.balance["users"]
  \/ configs' = configs /\ lem' = lem /\ now' = now

\* A payment moves LEM from the contract to the stakers.
LEMMA PayingKeepsSupply ==
  ASSUME ClockInv, NEW amount \in Int, IssueAndPayLem(amount), now' = now
  PROVE  LemMoves
<1> DEFINE issued == LemAfterIssue
<1>1. /\ configs.is_active /\ configs' = ConfigAfterIssue
      /\ lem' = IF amount > 0
                THEN [issued EXCEPT !.balance["self"] = @ - amount,
                                    !.balance["users"] = @ + amount]
                ELSE issued
  BY DEF IssueAndPayLem
<1>2. issued \in [supply : Nat, balance : [LemAccounts -> Nat]]
  BY <1>1, IssuedLedger
<1>3. "users" \in LemAccounts /\ "self" \in LemAccounts /\ "users" # "self"
  BY DEF LemAccounts
<1> DEFINE self == issued.balance["self"]
           users == issued.balance["users"]
<1>4. self \in Nat /\ users \in Nat
  BY <1>2, <1>3
<1>5. CASE amount > 0
  <2>1. /\ lem'.supply = issued.supply
        /\ lem'.balance["self"] = self - amount /\ lem'.balance["users"] = users + amount
    BY <1>1, <1>2, <1>3, <1>5
  <2> HIDE DEF issued, self, users
  <2>2. lem'.balance["self"] + lem'.balance["users"] = self + users
    BY <1>4, <2>1
  <2> QED BY <1>1, <2>1, <2>2 DEF LemMoves, issued, self, users
<1>6. CASE ~(amount > 0)
  BY <1>1, <1>6 DEF LemMoves
<1> QED BY <1>5, <1>6

\* Every operation but the emission's own moves LEM like that.
LEMMA OperationsMoveLem ==
  ASSUME SInv, DepositsStep
  PROVE  Emission \/ LemMoves
<1>1. ClockInv /\ now \in Nat
  BY DEF SInv, TypeOK, IssuanceTypeOK
<1>2. ASSUME UNCHANGED issuanceVars PROVE LemMoves
  BY <1>2 DEF LemMoves, issuanceVars
<1>3. ASSUME NEW u \in Users, NEW id \in ProductIds,
             NEW q \in Quantities, NEW p \in Predictions, stake(u, q, id, p)
      PROVE  LemMoves
  <2>1. LemDue(stakings[u][id], products[id].offer, now) \in Int
    BY <1>1, LemDueInt
  <2> QED BY <1>1, <1>2, <1>3, <2>1, PayingKeepsSupply DEF stake, StakeNew, StakeMore
<1>4. ASSUME NEW u \in Users, NEW id \in ProductIds, unstake(u, id)
      PROVE  LemMoves
  <2> DEFINE terms == products[id].offer
             row == stakings[u][id]
             end == UnstakeEnd(row, terms)
  <2>1. Holds(u, id) /\ IssueAndPayLem(LemDue(row, terms, end)) /\ now' = now
    BY <1>4 DEF unstake
  <2>2. row.ended_at \in Nat
    BY <2>1, HeldRow
  <2>3. end \in Nat
    BY <1>1, <2>2 DEF UnstakeEnd
  <2>4. LemDue(row, terms, end) \in Int
    BY <2>3, LemDueInt
  <2> QED BY <1>1, <2>1, <2>4, PayingKeepsSupply
<1>5. ASSUME NEW u \in Users, NEW id \in ProductIds, claimlem(u, id)
      PROVE  LemMoves
  <2> DEFINE row == stakings[u][id]
             end == RewardsEnd(now, row)
             amount == LemReward(row.balance,
                                 SignedSeconds(LemSeconds(row.last_claim_lem_reward, end)))
  <2>1. Holds(u, id) /\ IssueAndPayLem(amount) /\ now' = now
    BY <1>5 DEF claimlem
  <2>2. row.balance \in Nat /\ row.ended_at \in Nat /\ row.last_claim_lem_reward \in Nat
    BY <2>1, HeldRow
  <2>3. end \in Nat
    BY <1>1, <2>2 DEF RewardsEnd
  <2> HIDE DEF row, end
  <2>4. amount \in Int
    BY <1>1, <2>2, <2>3, LemRewardInt
  <2> QED BY <1>1, <2>1, <2>4, PayingKeepsSupply
<1>6. CASE UNCHANGED tables
  BY <1>2, <1>6 DEF tables
<1>7. CASE Next
  BY <1>2, <1>3, <1>4, <1>5, <1>7
     DEF Next, setledprice, addproduct, rmproduct, claimled, changeyield
<1> QED BY <1>6, <1>7 DEF DepositsStep

\* So what is minted stays on schedule, below the cap, and at least half of it
\* is for the stakers.
LEMMA MintStep ==
  ASSUME SInv, SInv', MintInv, HalfForStakers, DepositsStep
  PROVE  MintInv' /\ HalfForStakers'
<1>1. lem' \in [supply : Nat, balance : [LemAccounts -> Nat]] /\ ClockInv
  BY DEF SInv, TypeOK, IssuanceTypeOK
<1>2. /\ lem.supply \in Nat /\ lem.balance["self"] \in Nat /\ lem.balance["users"] \in Nat
      /\ lem'.supply \in Nat
  BY <1>1 DEF ClockInv, IssuanceTypeOK, LemAccounts
<1>3. CASE configs' = configs /\ lem' = lem /\ now' = now
  BY <1>1, <1>3, LedgerKeepsMint DEF HalfForStakers
<1>4. ASSUME configs.is_active, configs' = ConfigAfterIssue, now' = now,
             lem'.supply = LemAfterIssue.supply,
             lem'.balance["self"] + lem'.balance["users"]
               = LemAfterIssue.balance["self"] + LemAfterIssue.balance["users"]
      PROVE  MintInv' /\ HalfForStakers'
  <2>1. MintInv'
    BY <1>1, <1>4, IssueKeepsMint
  <2> DEFINE self == LemAfterIssue.balance["self"]
             supply == LemAfterIssue.supply
  <2>2. /\ self \in Nat /\ supply \in Nat
        /\ 2 * (self - lem.balance["self"]) >= supply - lem.supply
    BY <1>1, <1>4, IssuedLedger DEF LemAccounts
  <2>3. LemAfterIssue.balance["users"] = lem.balance["users"]
    BY <1>1 DEF LemAfterIssue, LemIssued, LemAccounts, Buckets, ClockInv, IssuanceTypeOK
  <2>4. lem'.balance["self"] + lem'.balance["users"] = self + lem.balance["users"]
        /\ lem'.supply = supply
    BY <1>4, <2>3
  <2> HIDE DEF self, supply
  <2>5. 2 * (self + lem.balance["users"]) >= supply
    BY <1>2, <2>2 DEF HalfForStakers
  <2> QED BY <2>1, <2>4, <2>5 DEF HalfForStakers
<1>5. CASE Emission /\ ~issuelem
  <2>1. MintInv' /\ lem' = lem
    BY <1>5, EmissionKeepsMint DEF Emission, IssuanceNext, Tick, init
  <2> QED BY <2>1 DEF HalfForStakers
<1>6. CASE issuelem
  BY <1>4, <1>6 DEF issuelem
<1> QED BY <1>3, <1>4, <1>5, <1>6, OperationsMoveLem DEF LemMoves

\* And an issue mints all that is due, whoever runs it.
LEMMA ExactStep ==
  ASSUME SInv, MintInv, NoMintWraps, DepositsStep
  PROVE  IssueIsExact
<1>1. CASE LemMoves
  BY <1>1, IssueExact DEF LemMoves, IssueIsExact
<1>2. CASE Emission
  BY <1>2, IssueExact DEF Emission, IssuanceNext, Tick, init, issuelem, IssueIsExact
<1> QED BY <1>1, <1>2, OperationsMoveLem

\* Nothing has been issued at first.
LEMMA NothingMinted == IssuanceInit => MintInv /\ HalfForStakers
<1>1. IssuanceInit => MintInv
  BY InitInvariant DEF IInv
<1>2. IssuanceInit => HalfForStakers
  BY DEF IssuanceInit, HalfForStakers, LemAccounts
<1> QED BY <1>1, <1>2

-----------------------------------------------------------------------------
\* However many stakers run issue_lem, and pay themselves from it, LEM is never
\* ahead of the halving schedule, never above its cap, and at least half of it
\* went to the contract and its stakers.
THEOREM MintedOnSchedule ==
  Spec => [](NeverAheadOfSchedule /\ SupplyCapped /\ HalfForStakers)
<1>1. Init => MintInv /\ HalfForStakers
  BY NothingMinted DEF Init
<1>2. SInv /\ SInv' /\ MintInv /\ HalfForStakers /\ [Next]_vars => MintInv' /\ HalfForStakers'
  BY MintStep DEF DepositsStep, vars, tables
<1>3. MintInv => NeverAheadOfSchedule /\ SupplyCapped
  BY DEF MintInv
<1> QED BY <1>1, <1>2, <1>3, DepositInvariance, PTL DEF Spec

\* And as long as its 32-bit product does not wrap, an issue mints all that is
\* due since the last one, whichever operation runs it.
THEOREM EveryOperationIssuesExactly == Spec /\ []NoMintWraps => [][IssueIsExact]_vars
<1>1. Init => MintInv /\ HalfForStakers
  BY NothingMinted DEF Init
<1>2. SInv /\ SInv' /\ MintInv /\ HalfForStakers /\ [Next]_vars => MintInv' /\ HalfForStakers'
  BY MintStep DEF DepositsStep, vars, tables
<1>3. SInv /\ MintInv /\ NoMintWraps /\ [Next]_vars => [IssueIsExact]_vars
  BY ExactStep DEF DepositsStep
<1> QED BY <1>1, <1>2, <1>3, DepositInvariance, PTL DEF Spec

=============================================================================
