--------------------------- MODULE StakingProofs ---------------------------
(***************************************************************************)
(* Safety of the deposits for any number of owners and products and any    *)
(* terms.  The inductive invariant SInv adds to the invariants of the runs *)
(* what a deposit's clocks satisfy, that an offer's yields are in order,   *)
(* and the emission's ClockInv, since deposits run issue_lem.              *)
(***************************************************************************)
EXTENDS Staking, IssuanceProofs, AmountTheorems

\* What the row of a deposit satisfies, given the terms of its product.
GoodRow(row, terms, time) ==
  /\ row.ended_at = IF terms.duration = 0 THEN 0 ELSE row.started_at + Day * terms.duration
  /\ terms.minimum_yield <= row.current_yield
  /\ row.current_yield <= terms.maximum_yield
  /\ row.price_prediction # "none" => terms.has_prediction
  /\ row.started_at <= row.last_claim_led_reward
  /\ row.last_claim_led_reward <= time
  /\ row.ended_at # 0 => row.last_claim_led_reward <= row.ended_at
  /\ row.led_rewards <= Interest(row.balance, terms.maximum_yield,
                                 row.last_claim_led_reward - row.started_at)

GoodDeposits ==
  \A u \in Users, id \in ProductIds :
    stakings[u][id].balance > 0 =>
      Offered(id) /\ GoodRow(stakings[u][id], products[id].offer, now)

GoodOffers ==
  \A id \in Offers : products[id].offer.minimum_yield <= products[id].offer.maximum_yield

SInv ==
  /\ ClockInv
  /\ TypeOK
  /\ ProductsMatchStakings
  /\ GoodDeposits
  /\ GoodOffers
  /\ LimitsRespected

\* What the proofs need of the numbers among the constants.
LEMMA Numbers ==
  /\ Day \in Nat \ {0} /\ YieldUnit \in Nat \ {0} /\ LemUnit \in Nat \ {0}
  /\ U32 \in Nat \ {0}
  /\ \A q \in Quantities : q \in Nat /\ q > 0
  /\ \A y \in Yields : y \in Nat
<1>1. \A q \in Quantities : q \in Nat /\ q > 0
  <2>1. Quantities \subseteq Nat \ {0}
    BY StakingAssumption
  <2> QED BY ONLY <2>1
<1>2. \A y \in Yields : y \in Nat
  BY StakingAssumption
<1>3. /\ Day \in Nat \ {0} /\ YieldUnit \in Nat \ {0} /\ LemUnit \in Nat \ {0}
      /\ U32 \in Nat \ {0}
  BY StakingAssumption, IssuanceAssumption
<1> QED BY <1>1, <1>2, <1>3

-----------------------------------------------------------------------------
(***************************************************************************)
(* Interest.                                                               *)
(***************************************************************************)
\* Interest is a number, grows with the yield, and splitting the time loses.
LEMMA InterestNat ==
  ASSUME NEW b \in Nat, NEW y \in Nat, NEW s \in Nat
  PROVE  Interest(b, y, s) \in Nat
<1>1. b * y \in Nat
  OBVIOUS
<1>2. (b * y) * s \in Nat
  BY <1>1
<1> QED BY <1>2, Numbers DEF Interest

LEMMA InterestGrows ==
  ASSUME NEW b \in Nat, NEW y \in Nat, NEW z \in Nat, NEW s \in Nat, y <= z
  PROVE  Interest(b, y, s) <= Interest(b, z, s)
<1> DEFINE k == (b * y) * s
           l == (b * z) * s
<1>1. b * y \in Nat /\ b * z \in Nat /\ b * y <= b * z
  <2>1. y * b <= z * b
    BY ProductMonotone
  <2> QED BY <2>1
<1>2. k \in Nat /\ l \in Nat /\ k <= l
  BY <1>1, ProductMonotone
<1> HIDE DEF k, l
<1>3. k \div YieldUnit <= l \div YieldUnit
  BY <1>2, QuotientGrows, Numbers
<1> QED BY <1>3 DEF Interest, k, l

LEMMA InterestAdds ==
  ASSUME NEW b \in Nat, NEW y \in Nat, NEW s \in Nat, NEW t \in Nat
  PROVE  Interest(b, y, s) + Interest(b, y, t) <= Interest(b, y, s + t)
<1> DEFINE m == b * y
           k == m * s
           l == m * t
<1>1. m \in Nat
  OBVIOUS
<1>2. /\ Interest(b, y, s) = k \div YieldUnit /\ Interest(b, y, t) = l \div YieldUnit
      /\ Interest(b, y, s + t) = (m * (s + t)) \div YieldUnit
  BY DEF Interest
<1> HIDE DEF m
<1>3. k \in Nat /\ l \in Nat /\ m * (s + t) = k + l
  BY <1>1
<1> HIDE DEF k, l
<1>4. (k \div YieldUnit) + (l \div YieldUnit) <= (k + l) \div YieldUnit
  BY <1>3, QuotientsAdd, Numbers
<1> QED BY <1>2, <1>3, <1>4

\* Interest grows with the time.
LEMMA InterestLater ==
  ASSUME NEW b \in Nat, NEW y \in Nat, NEW s \in Nat, NEW t \in Nat, s <= t
  PROVE  Interest(b, y, s) <= Interest(b, y, t)
<1> DEFINE d == t - s
<1>1. d \in Nat /\ s + d = t
  OBVIOUS
<1> HIDE DEF d
<1>2. Interest(b, y, s) + Interest(b, y, d) <= Interest(b, y, s + d)
  BY <1>1, InterestAdds
<1>3. Interest(b, y, s) \in Nat /\ Interest(b, y, d) \in Nat /\ Interest(b, y, t) \in Nat
  BY <1>1, InterestNat
<1> QED BY <1>1, <1>2, <1>3

\* A claim at the current yield keeps within the interest at the maximum.
LEMMA ClaimWithin ==
  ASSUME NEW b \in Nat, NEW y \in Nat, NEW z \in Nat, NEW s \in Nat, NEW t \in Nat,
         NEW paid \in Nat, y <= z, paid <= Interest(b, z, s)
  PROVE  paid + Interest(b, y, t) <= Interest(b, z, s + t)
<1>1. /\ Interest(b, y, t) \in Nat /\ Interest(b, z, t) \in Nat
      /\ Interest(b, z, s) \in Nat
  BY InterestNat
<1>2. s + t \in Nat
  OBVIOUS
<1>3. Interest(b, z, s + t) \in Nat
  BY <1>2, InterestNat
<1>4. Interest(b, y, t) <= Interest(b, z, t)
  BY InterestGrows
<1>5. Interest(b, z, s) + Interest(b, z, t) <= Interest(b, z, s + t)
  BY InterestAdds
<1> QED BY <1>1, <1>3, <1>4, <1>5

-----------------------------------------------------------------------------
(***************************************************************************)
(* The LEM a deposit earns is a number, and so are the ledgers.            *)
(***************************************************************************)
Acc == [last : Nat, secs : Nat]

LEMMA RewardStepType ==
  ASSUME ClockInv, NEW era \in 0 .. 2, NEW end \in Nat, NEW acc \in Acc
  PROVE  RewardStep(era, end, acc) \in Acc
<1> DEFINE h == configs.last_half_life_updated
           from == IF end > h[era + 1] THEN h[era + 1] ELSE acc.last
           secs == (acc.secs + Halved((end - from) % U32, era)) % U32
<1>1. h[era + 1] \in Nat
  BY DEF ClockInv, IssuanceTypeOK, config
<1>2. from \in Nat /\ acc.secs \in Nat
  BY <1>1 DEF Acc
<1>3. Halved((end - from) % U32, era) \in Nat
  <2> DEFINE d == (end - from) % U32
  <2>1. d \in Nat
    BY <1>2, Numbers
  <2>2. era = 0 \/ era = 1 \/ era = 2
    OBVIOUS
  <2>3. Divisor[era + 1] \in {1, 2, 4}
    BY <2>2 DEF Divisor
  <2> HIDE DEF d
  <2>4. d \div 1 \in Nat /\ d \div 2 \in Nat /\ d \div 4 \in Nat
    BY <2>1
  <2>5. d \div Divisor[era + 1] \in Nat
    BY <2>3, <2>4
  <2> QED BY <2>5 DEF Halved, d
<1> DEFINE x == Halved((end - from) % U32, era)
<1>4. secs \in Nat
  <2> HIDE DEF x, from
  <2>1. x \in Nat
    BY <1>3 DEF x
  <2>2. acc.secs + x \in Nat
    BY <1>2, <2>1
  <2>3. (acc.secs + x) % U32 \in Nat
    BY <2>2, Numbers
  <2> QED BY <2>3 DEF x
<1>5. RewardStep(era, end, acc) = acc \/ RewardStep(era, end, acc) = [last |-> from, secs |-> secs]
  BY Zenon DEF RewardStep
<1> HIDE DEF from, secs
<1> QED BY <1>2, <1>4, <1>5 DEF Acc

LEMMA LemRewardInt ==
  ASSUME ClockInv, NEW balance \in Nat, NEW start \in Nat, NEW end \in Nat
  PROVE  /\ LemSeconds(start, end) \in Nat
         /\ LemReward(balance, LemSeconds(start, end)) \in Int
         /\ LemReward(balance, SignedSeconds(LemSeconds(start, end))) \in Int
<1> DEFINE zero == [last |-> start, secs |-> 0]
           one == RewardStep(0, end, zero)
           two == RewardStep(1, end, one)
           three == RewardStep(2, end, two)
           secs == LemSeconds(start, end)
<1>1. zero \in Acc
  BY DEF Acc
<1>2. one \in Acc
  BY <1>1, RewardStepType
<1> HIDE DEF one
<1>3. two \in Acc
  BY <1>2, RewardStepType
<1> HIDE DEF two
<1>4. three \in Acc
  BY <1>3, RewardStepType
<1>5. secs = three.secs
  BY DEF LemSeconds, one, two
<1> HIDE DEF three, secs
<1>6. secs \in Nat
  BY <1>4, <1>5 DEF Acc
<1>7. \A s \in Int : LemReward(balance, s) \in Int
  <2> SUFFICES ASSUME NEW s \in Int PROVE LemReward(balance, s) \in Int
    OBVIOUS
  <2> DEFINE p == balance * s
  <2>1. p \in Int
    OBVIOUS
  <2> HIDE DEF p
  <2>2. p \div LemUnit \in Int
    BY <2>1, Numbers
  <2> QED BY <2>2 DEF LemReward, p
<1>8. SignedSeconds(secs) \in Int
  BY <1>6, Numbers DEF SignedSeconds
<1> QED BY <1>6, <1>7, <1>8 DEF secs

\* issue_lem and the payment of LEM that follows it.
LEMMA IssueAndPayKeepsClock ==
  ASSUME ClockInv, NEW amount \in Int, IssueAndPayLem(amount), now' = now
  PROVE  ClockInv'
<1> DEFINE issued == LemAfterIssue
<1>1. configs.is_active /\ configs' = ConfigAfterIssue
      /\ (amount > 0 => amount <= issued.balance["self"])
      /\ lem' = IF amount > 0
                THEN [issued EXCEPT !.balance["self"] = @ - amount,
                                    !.balance["users"] = @ + amount]
                ELSE issued
  BY DEF IssueAndPayLem
<1>2. issued \in [supply : Nat, balance : [LemAccounts -> Nat]]
  BY <1>1, IssuedLedger
<1> HIDE DEF issued
<1>3. "self" \in LemAccounts /\ "users" \in LemAccounts
  BY DEF LemAccounts
<1>4. lem' \in [supply : Nat, balance : [LemAccounts -> Nat]]
  <2>1. CASE amount > 0
    <3>1. issued.balance["self"] - amount \in Nat /\ issued.balance["users"] + amount \in Nat
      BY <1>1, <1>2, <1>3, <2>1
    <3> QED BY <1>1, <1>2, <1>3, <2>1, <3>1
  <2>2. CASE ~(amount > 0)
    BY <1>1, <1>2, <2>2
  <2> QED BY <2>1, <2>2
<1> QED BY <1>1, <1>4, IssueKeepsClock

\* LED moves between accounts that are not overdrawn.
LEMMA MoveLedType ==
  ASSUME TypeOK, NEW u \in Users, NEW in \in Nat, NEW out \in Int, MoveLed(u, in, out)
  PROVE  wallet' \in [Users -> Nat] /\ vault' \in Nat
<1> DEFINE paid == IF out > 0 THEN out ELSE 0
<1>1. /\ in <= wallet[u] /\ paid <= vault + in
      /\ wallet' = [wallet EXCEPT ![u] = @ - in + paid]
      /\ vault' = vault + in - paid
  BY DEF MoveLed
<1>2. wallet \in [Users -> Nat] /\ vault \in Nat /\ paid \in Nat
  BY DEF TypeOK
<1> HIDE DEF paid
<1>3. wallet[u] - in + paid \in Nat /\ vault + in - paid \in Nat
  BY <1>1, <1>2
<1> QED BY <1>1, <1>2, <1>3

-----------------------------------------------------------------------------
(***************************************************************************)
(* The tables.                                                             *)
(***************************************************************************)
\* The balances in a product, owner by owner.
BalancesIn(id) == [u \in Users |-> stakings[u][id].balance]

LEMMA TableTypes ==
  ASSUME TypeOK, NEW u \in Users, NEW id \in ProductIds
  PROVE  /\ products[id] \in product /\ products[id].offer \in offer
         /\ products[id].current_amount \in Nat
         /\ stakings[u][id] \in staking /\ stakings[u][id].balance \in Nat
         /\ BalancesIn(id) \in [Users -> Nat]
<1>1. products[id] \in product /\ \A v \in Users : stakings[v][id] \in staking
  BY DEF TypeOK
<1>2. \A v \in Users : stakings[v][id].balance \in Nat
  BY <1>1 DEF staking
<1> QED BY <1>1, <1>2 DEF product, BalancesIn

\* A good row stays good as time passes.
LEMMA GoodLater ==
  ASSUME NEW row \in staking, NEW terms, NEW time \in Nat, NEW later \in Nat,
         GoodRow(row, terms, time), time <= later
  PROVE  GoodRow(row, terms, later)
<1>1. row.last_claim_led_reward \in Nat /\ row.last_claim_led_reward <= later
  BY DEF staking, GoodRow
<1> QED BY <1>1 DEF GoodRow

\* Steps that leave the two tables alone.
LEMMA TablesUnchanged ==
  ASSUME SInv, UNCHANGED <<products, stakings>>, ClockInv', TypeOK', now <= now'
  PROVE  SInv'
<1>1. now \in Nat /\ now' \in Nat
  BY DEF SInv, TypeOK, IssuanceTypeOK
<1>2. ProductsMatchStakings' /\ GoodOffers' /\ LimitsRespected'
  BY DEF SInv, ProductsMatchStakings, GoodOffers, LimitsRespected, Offers, Offered
<1>3. GoodDeposits'
  <2> SUFFICES ASSUME NEW u \in Users, NEW id \in ProductIds, stakings[u][id].balance > 0
               PROVE  Offered(id) /\ GoodRow(stakings[u][id], products[id].offer, now')
    BY DEF GoodDeposits, Offered
  <2>1. Offered(id) /\ GoodRow(stakings[u][id], products[id].offer, now)
    BY DEF SInv, GoodDeposits
  <2>2. stakings[u][id] \in staking
    BY TableTypes DEF SInv
  <2> QED BY <1>1, <2>1, <2>2, GoodLater
<1> QED BY <1>2, <1>3 DEF SInv

\* A transaction replaces the row of one owner for one product, and the
\* product's total and buyers with it.
LEMMA ReplaceDeposit ==
  ASSUME SInv, NEW u \in Users, NEW id \in ProductIds, Offered(id),
         NEW row \in staking, NEW p \in product,
         stakings' = [stakings EXCEPT ![u][id] = row],
         products' = [products EXCEPT ![id] = p],
         p.offer = products[id].offer,
         p.current_amount = products[id].current_amount - stakings[u][id].balance + row.balance,
         p.buyers = IF row.balance > 0 THEN products[id].buyers \cup {u}
                    ELSE products[id].buyers \ {u},
         row.balance > 0 => GoodRow(row, p.offer, now),
         p.offer.maximum_amount_limit # 0 => p.current_amount <= p.offer.maximum_amount_limit,
         p.offer.amount_per_account # 0 => row.balance <= p.offer.amount_per_account,
         ClockInv', now' = now, led_price' \in Nat, wallet' \in [Users -> Nat], vault' \in Nat
  PROVE  SInv'
<1>1. /\ products \in [ProductIds -> product] /\ stakings \in [Users -> [ProductIds -> staking]]
      /\ row.balance \in Nat
  BY DEF SInv, TypeOK, staking
<1>2. /\ products' \in [ProductIds -> product] /\ stakings' \in [Users -> [ProductIds -> staking]]
      /\ products'[id] = p /\ stakings'[u][id] = row
      /\ \A j \in ProductIds : j # id => products'[j] = products[j]
      /\ \A v \in Users, j \in ProductIds :
           (v # u \/ j # id) => stakings'[v][j] = stakings[v][j]
  BY <1>1
<1>3. /\ \A j \in ProductIds : products'[j].offer = products[j].offer
      /\ \A j \in ProductIds : Offered(j)' <=> Offered(j)
      /\ Offers' = Offers
  <2>1. \A j \in ProductIds : products'[j].offer = products[j].offer
    BY <1>2
  <2>2. \A j \in ProductIds : Offered(j)' <=> Offered(j)
    BY <2>1 DEF Offered
  <2> QED BY <2>1, <2>2 DEF Offers
<1>4. TypeOK'
  BY <1>2 DEF TypeOK, ClockInv
<1>5. ProductsMatchStakings'
  <2> SUFFICES ASSUME NEW j \in ProductIds
               PROVE  /\ products'[j].current_amount = Total([v \in Users |-> stakings'[v][j].balance])
                      /\ products'[j].buyers = {v \in Users : stakings'[v][j].balance > 0}
    BY DEF ProductsMatchStakings
  <2>1. /\ products[j].current_amount = Total(BalancesIn(j))
        /\ products[j].buyers = {v \in Users : stakings[v][j].balance > 0}
    BY DEF SInv, ProductsMatchStakings, BalancesIn
  <2>2. CASE j # id
    <3>1. [v \in Users |-> stakings'[v][j].balance] = BalancesIn(j)
      BY <1>2, <2>2 DEF BalancesIn
    <3>2. {v \in Users : stakings'[v][j].balance > 0} = {v \in Users : stakings[v][j].balance > 0}
      BY <1>2, <2>2
    <3> QED BY <1>2, <2>1, <2>2, <3>1, <3>2
  <2>3. CASE j = id
    <3>1. [v \in Users |-> stakings'[v][id].balance] = [BalancesIn(id) EXCEPT ![u] = row.balance]
      BY <1>2 DEF BalancesIn
    <3>2. BalancesIn(id) \in [Users -> Nat] /\ BalancesIn(id)[u] = stakings[u][id].balance
          /\ IsFiniteSet(Users)
      BY TableTypes, StakingAssumption DEF SInv, BalancesIn
    <3>3. Total([BalancesIn(id) EXCEPT ![u] = row.balance])
            = Total(BalancesIn(id)) - stakings[u][id].balance + row.balance
      <4> DEFINE f == BalancesIn(id)
                 v == row.balance
      <4>1. f \in [Users -> Nat] /\ v \in Nat /\ IsFiniteSet(Users) /\ u \in Users
        BY <1>1, <3>2
      <4> HIDE DEF f, v
      <4>2. Total([f EXCEPT ![u] = v]) = Total(f) - f[u] + v
        BY ONLY <4>1, TotalUpdate
      <4> QED BY <3>2, <4>2 DEF f, v
    <3>4. p.current_amount = Total([v \in Users |-> stakings'[v][id].balance])
      BY <2>1, <2>3, <3>1, <3>3
    <3>5. p.buyers = {v \in Users : stakings'[v][id].balance > 0}
      BY <1>2, <2>1, <2>3
    <3> QED BY <1>2, <2>3, <3>4, <3>5
  <2> QED BY <2>2, <2>3
<1>6. GoodDeposits'
  <2> SUFFICES ASSUME NEW v \in Users, NEW j \in ProductIds, stakings'[v][j].balance > 0
               PROVE  Offered(j) /\ GoodRow(stakings'[v][j], products'[j].offer, now)
    BY <1>3 DEF GoodDeposits
  <2>1. CASE v = u /\ j = id
    BY <1>2, <2>1
  <2>2. CASE ~(v = u /\ j = id)
    BY <1>2, <1>3, <2>2 DEF SInv, GoodDeposits
  <2> QED BY <2>1, <2>2
<1>7. GoodOffers'
  BY <1>3 DEF SInv, GoodOffers, Offers
<1>8. LimitsRespected'
  <2> SUFFICES ASSUME NEW j \in Offers
               PROVE  LET terms == products[j].offer
                      IN  /\ terms.maximum_amount_limit # 0 =>
                               products'[j].current_amount <= terms.maximum_amount_limit
                          /\ terms.amount_per_account # 0 =>
                               \A v \in Users : stakings'[v][j].balance <= terms.amount_per_account
    BY <1>3 DEF LimitsRespected, Offers
  <2>1. j \in ProductIds
    BY DEF Offers
  <2>2. LET terms == products[j].offer
        IN  /\ terms.maximum_amount_limit # 0 =>
                 products[j].current_amount <= terms.maximum_amount_limit
            /\ terms.amount_per_account # 0 =>
                 \A v \in Users : stakings[v][j].balance <= terms.amount_per_account
    BY DEF SInv, LimitsRespected
  <2> QED BY <1>2, <2>1, <2>2
<1> QED BY <1>4, <1>5, <1>6, <1>7, <1>8 DEF SInv

\* A row that keeps its balance leaves the products table as it is.
LEMMA ReplaceTerms ==
  ASSUME SInv, NEW u \in Users, NEW id \in ProductIds, Holds(u, id),
         NEW row \in staking,
         stakings' = [stakings EXCEPT ![u][id] = row], products' = products,
         row.balance = stakings[u][id].balance,
         GoodRow(row, products[id].offer, now),
         ClockInv', now' = now, led_price' \in Nat, wallet' \in [Users -> Nat], vault' \in Nat
  PROVE  SInv'
<1> DEFINE p == products[id]
<1>1. p \in product /\ p.current_amount \in Nat /\ row.balance \in Nat /\ row.balance > 0
      /\ Offered(id) /\ products \in [ProductIds -> product]
  BY TableTypes DEF SInv, Holds, TypeOK
<1>2. products' = [products EXCEPT ![id] = p]
  BY <1>1
<1>3. p.current_amount = products[id].current_amount - stakings[u][id].balance + row.balance
  BY <1>1
<1>4. p.buyers = IF row.balance > 0 THEN products[id].buyers \cup {u}
                 ELSE products[id].buyers \ {u}
  BY <1>1 DEF SInv, ProductsMatchStakings, Holds
<1>5. /\ p.offer.maximum_amount_limit # 0 => p.current_amount <= p.offer.maximum_amount_limit
      /\ p.offer.amount_per_account # 0 => row.balance <= p.offer.amount_per_account
  BY <1>1 DEF SInv, LimitsRespected, Offers
<1> HIDE DEF p
<1>6. p.offer = products[id].offer
  BY DEF p
<1> QED BY <1>1, <1>2, <1>3, <1>4, <1>5, <1>6, ReplaceDeposit

-----------------------------------------------------------------------------
(***************************************************************************)
(* Each operation preserves SInv.                                          *)
(***************************************************************************)
\* The fields of an offer, and the end of a term that starts now.
LEMMA TermTypes ==
  ASSUME SInv, NEW id \in ProductIds, NEW terms, terms = products[id].offer
  PROVE  /\ terms \in offer /\ terms.duration \in Nat /\ Day * terms.duration \in Nat
         /\ terms.minimum_yield \in Nat /\ terms.maximum_yield \in Nat
         /\ now \in Nat /\ EndOf(terms) \in Nat /\ LemClock(terms) \in Nat
         /\ EndOf(terms) = IF terms.duration = 0 THEN 0 ELSE now + Day * terms.duration
<1>1. terms \in offer
  BY DEF SInv, TypeOK, product
<1>2. terms.duration \in Nat /\ terms.minimum_yield \in Nat /\ terms.maximum_yield \in Nat
  BY <1>1 DEF offer
<1>3. Day * terms.duration \in Nat
  BY <1>2, Numbers
<1>4. now \in Nat
  BY DEF SInv, TypeOK, IssuanceTypeOK
<1>5. EndOf(terms) = IF terms.duration = 0 THEN 0 ELSE now + Day * terms.duration
  BY DEF EndOf
<1>6. EndOf(terms) \in Nat /\ LemClock(terms) \in Nat
  BY <1>2, <1>3, <1>4, <1>5 DEF LemClock
<1> QED BY <1>1, <1>2, <1>3, <1>4, <1>5, <1>6

\* A row that starts now, with no rewards yet.
LEMMA FreshRow ==
  ASSUME SInv, NEW id \in Offers, NEW row \in staking, NEW terms, terms = products[id].offer,
         row.started_at = now, row.ended_at = EndOf(terms),
         row.last_claim_led_reward = now, row.led_rewards = 0,
         terms.minimum_yield <= row.current_yield, row.current_yield <= terms.maximum_yield,
         row.price_prediction # "none" => terms.has_prediction
  PROVE  GoodRow(row, terms, now)
<1>1. /\ Day * terms.duration \in Nat /\ now \in Nat /\ terms.maximum_yield \in Nat
      /\ EndOf(terms) = IF terms.duration = 0 THEN 0 ELSE now + Day * terms.duration
  BY TermTypes DEF Offers
<1>2. row.ended_at # 0 => now <= row.ended_at
  BY <1>1
<1>3. row.balance \in Nat /\ now - now \in Nat
  BY <1>1 DEF staking
<1>4. Interest(row.balance, terms.maximum_yield, now - now) \in Nat
  BY <1>1, <1>3, InterestNat
<1>5. 0 <= Interest(row.balance, terms.maximum_yield, now - now)
  BY <1>4
<1> QED BY <1>1, <1>2, <1>5 DEF GoodRow

LEMMA StakeNewInv ==
  ASSUME SInv, NEW u \in Users, NEW id \in ProductIds, NEW q \in Quantities,
         NEW prediction \in Predictions, StakeNew(u, q, id, prediction)
  PROVE  SInv'
<1> DEFINE terms == products[id].offer
           row == NewStaking(terms, q, prediction)
           p == [products[id] EXCEPT !.current_amount = @ + q, !.buyers = @ \cup {u}]
<1>1. /\ Offered(id) /\ id \in Offers /\ ~Holds(u, id)
      /\ WithinLimits(id, 0, q)
      /\ prediction # "none" => terms.has_prediction
      /\ stakings' = [stakings EXCEPT ![u][id] = row]
      /\ products' = [products EXCEPT ![id].current_amount = @ + q, ![id].buyers = @ \cup {u}]
      /\ MoveLed(u, q, 0) /\ UNCHANGED <<issuanceVars, led_price>>
  BY DEF StakeNew, Offers
<1>2. q \in Nat /\ q > 0
  BY Numbers
<1>3. /\ products[id] \in product /\ products[id].current_amount \in Nat
      /\ stakings[u][id].balance = 0
  BY <1>1, TableTypes DEF SInv, Holds
<1>4. led_price \in Nat
  BY DEF SInv, TypeOK
<1>5. /\ terms \in offer /\ terms.minimum_yield \in Nat /\ terms.maximum_yield \in Nat
      /\ now \in Nat /\ EndOf(terms) \in Nat /\ LemClock(terms) \in Nat
  BY TermTypes
<1>6. terms.minimum_yield <= terms.maximum_yield
  BY <1>1 DEF SInv, GoodOffers
<1> HIDE DEF terms
<1>7. row \in staking
  BY <1>2, <1>4, <1>5 DEF NewStaking, staking
<1>8. /\ row.started_at = now /\ row.ended_at = EndOf(terms) /\ row.balance = q
      /\ row.last_claim_led_reward = now /\ row.led_rewards = 0
      /\ row.current_yield = terms.minimum_yield /\ row.price_prediction = prediction
  BY DEF NewStaking
<1> HIDE DEF row
<1>9. GoodRow(row, terms, now)
  BY <1>1, <1>5, <1>6, <1>7, <1>8, FreshRow DEF terms
<1>10. p \in product /\ p.offer = terms /\ p.buyers = products[id].buyers \cup {u}
       /\ p.current_amount = products[id].current_amount + q
  <2> DEFINE old == products[id]
             n == old.current_amount + q
             B == old.buyers \cup {u}
  <2>1. old \in product /\ n \in Nat /\ B \in SUBSET Users
    BY <1>2, <1>3 DEF product
  <2>2. p = [old EXCEPT !.current_amount = n, !.buyers = B]
    OBVIOUS
  <2> HIDE DEF p, old, n, B
  <2>3. /\ p \in product /\ p.offer = old.offer
        /\ p.current_amount = n /\ p.buyers = B
    BY ONLY <2>1, <2>2 DEF product
  <2> QED BY <2>3 DEF n, B, old, terms
<1>11. products' = [products EXCEPT ![id] = p]
  BY <1>1 DEF SInv, TypeOK
<1>12. /\ terms.maximum_amount_limit # 0 => p.current_amount <= terms.maximum_amount_limit
       /\ terms.amount_per_account # 0 => q <= terms.amount_per_account
  <2>1. terms.maximum_amount_limit \in Nat /\ terms.amount_per_account \in Nat
    BY <1>5 DEF offer
  <2>2. /\ terms.amount_per_account # 0 => terms.amount_per_account >= 0 + q
        /\ terms.maximum_amount_limit # 0 =>
             terms.maximum_amount_limit >= products[id].current_amount + q + 0
    BY <1>1 DEF WithinLimits, terms
  <2> QED BY <1>2, <1>3, <1>10, <2>1, <2>2
<1> HIDE DEF p
<1>13. wallet' \in [Users -> Nat] /\ vault' \in Nat
  BY <1>1, <1>2, MoveLedType DEF SInv
<1>14. ClockInv' /\ now' = now /\ led_price' \in Nat
  BY <1>1, <1>4, LedgerKeepsClock DEF issuanceVars, SInv, ClockInv, IssuanceTypeOK
<1>15. /\ p.current_amount = products[id].current_amount - stakings[u][id].balance + row.balance
       /\ p.buyers = IF row.balance > 0 THEN products[id].buyers \cup {u}
                     ELSE products[id].buyers \ {u}
  BY <1>2, <1>3, <1>8, <1>10
<1>16. /\ p.offer = products[id].offer
       /\ row.balance > 0 => GoodRow(row, p.offer, now)
       /\ p.offer.maximum_amount_limit # 0 => p.current_amount <= p.offer.maximum_amount_limit
       /\ p.offer.amount_per_account # 0 => row.balance <= p.offer.amount_per_account
  BY <1>8, <1>9, <1>10, <1>12 DEF terms
<1> QED BY <1>1, <1>7, <1>10, <1>11, <1>13, <1>14, <1>15, <1>16, ReplaceDeposit

\* What a top-up or an unstake pays in LEM is a number.
LEMMA LemDueInt ==
  ASSUME SInv, NEW u \in Users, NEW id \in ProductIds, NEW time \in Nat
  PROVE  LemDue(stakings[u][id], products[id].offer, time) \in Int
<1> DEFINE row == stakings[u][id]
           end == RewardsEnd(time, row)
<1>1. row \in staking
  BY TableTypes DEF SInv
<1>2. row.balance \in Nat /\ row.started_at \in Nat /\ row.lem_rewards \in Nat /\ end \in Nat
  BY <1>1 DEF staking, RewardsEnd
<1> HIDE DEF end, row
<1>3. LemReward(row.balance, LemSeconds(row.started_at, end)) \in Int
  BY <1>2, LemRewardInt DEF SInv
<1>4. LemReward(row.balance, LemSeconds(row.started_at, end)) - row.lem_rewards \in Int
  BY <1>2, <1>3
<1>5. 0 \in Int
  OBVIOUS
<1> QED BY <1>4, <1>5 DEF LemDue, end, row

\* What is known of a deposit that somebody holds.
LEMMA HeldRow ==
  ASSUME SInv, NEW u \in Users, NEW id \in ProductIds, Holds(u, id),
         NEW row, row = stakings[u][id], NEW terms, terms = products[id].offer
  PROVE  /\ row \in staking /\ row.balance \in Nat /\ row.balance > 0
         /\ row.current_yield \in Nat /\ row.led_rewards \in Nat /\ row.lem_rewards \in Nat
         /\ row.started_at \in Nat /\ row.ended_at \in Nat /\ row.last_claim_led_reward \in Nat
         /\ row.last_claim_lem_reward \in Nat /\ row.base_price \in Nat
         /\ row.price_prediction \in Predictions
         /\ now \in Nat /\ led_price \in Nat
         /\ id \in Offers /\ GoodRow(row, terms, now)
         /\ now - row.started_at \in Nat
<1>1. row \in staking /\ row.balance > 0
  BY TableTypes DEF SInv, Holds
<1>2. id \in Offers /\ GoodRow(row, terms, now)
  BY DEF SInv, GoodDeposits, Holds, Offers
<1>3. now \in Nat /\ led_price \in Nat
  BY DEF SInv, TypeOK, IssuanceTypeOK
<1>4. /\ row.balance \in Nat
      /\ row.current_yield \in Nat /\ row.led_rewards \in Nat /\ row.lem_rewards \in Nat
      /\ row.started_at \in Nat /\ row.ended_at \in Nat /\ row.last_claim_led_reward \in Nat
      /\ row.last_claim_lem_reward \in Nat /\ row.base_price \in Nat
      /\ row.price_prediction \in Predictions
  BY <1>1 DEF staking
<1>5. row.started_at <= row.last_claim_led_reward /\ row.last_claim_led_reward <= now
  BY <1>2 DEF GoodRow
<1>6. now - row.started_at \in Nat
  BY <1>3, <1>4, <1>5
<1> QED BY <1>1, <1>2, <1>3, <1>4, <1>6

LEMMA StakeMoreInv ==
  ASSUME SInv, NEW u \in Users, NEW id \in ProductIds, NEW q \in Quantities,
         StakeMore(u, q, id)
  PROVE  SInv'
<1> DEFINE terms == products[id].offer
           old == stakings[u][id]
           row == ToppedUp(old, terms, q)
           was == products[id]
           n == was.current_amount + q
           p == [was EXCEPT !.current_amount = n]
           out == Interest(old.balance, old.current_yield, now - old.started_at) - old.led_rewards
<1>1. /\ Holds(u, id) /\ WithinLimits(id, old.balance, q)
      /\ IssueAndPayLem(LemDue(old, terms, now))
      /\ MoveLed(u, q, out)
      /\ stakings' = [stakings EXCEPT ![u][id] = row]
      /\ products' = [products EXCEPT ![id].current_amount = @ + q]
      /\ now' = now /\ led_price' = led_price
  BY DEF StakeMore
<1>2. q \in Nat /\ q > 0
  BY Numbers
<1>3. /\ old \in staking /\ old.balance \in Nat /\ old.balance > 0
      /\ old.current_yield \in Nat /\ old.led_rewards \in Nat
      /\ now \in Nat /\ led_price \in Nat
      /\ id \in Offers /\ GoodRow(old, terms, now)
      /\ now - old.started_at \in Nat
  BY <1>1, HeldRow
<1>4. /\ terms \in offer /\ EndOf(terms) \in Nat /\ LemClock(terms) \in Nat
      /\ terms.has_prediction \in BOOLEAN
  <2>1. terms \in offer /\ EndOf(terms) \in Nat /\ LemClock(terms) \in Nat
    BY TermTypes
  <2> QED BY <2>1 DEF offer
<1>5. /\ was \in product /\ was.current_amount \in Nat /\ n \in Nat
      /\ was.buyers \in SUBSET Users /\ u \in was.buyers
  <2>1. was \in product /\ was.current_amount \in Nat
    BY TableTypes DEF SInv
  <2>2. u \in was.buyers
    BY <1>3 DEF SInv, ProductsMatchStakings
  <2> QED BY <1>2, <2>1, <2>2 DEF product
<1>6. products' = [products EXCEPT ![id] = p]
  BY <1>1 DEF SInv, TypeOK
<1>7. wallet' \in [Users -> Nat] /\ vault' \in Nat
  <2>1. Interest(old.balance, old.current_yield, now - old.started_at) \in Nat
    BY <1>3, InterestNat
  <2>2. out \in Int
    BY <1>3, <2>1
  <2> HIDE DEF out
  <2> QED BY <1>1, <1>2, <2>2, MoveLedType DEF SInv
<1>8. ClockInv'
  <2>1. LemDue(old, terms, now) \in Int
    BY <1>3, LemDueInt
  <2> HIDE DEF old, terms
  <2> QED BY <1>1, <2>1, IssueAndPayKeepsClock DEF SInv
<1>9. /\ terms.maximum_amount_limit # 0 => n <= terms.maximum_amount_limit
      /\ terms.amount_per_account # 0 => old.balance + q <= terms.amount_per_account
  <2>1. terms.maximum_amount_limit \in Nat /\ terms.amount_per_account \in Nat
    BY <1>4 DEF offer
  <2>2. /\ terms.amount_per_account # 0 => terms.amount_per_account >= old.balance + q
        /\ terms.maximum_amount_limit # 0 =>
             terms.maximum_amount_limit >= was.current_amount + q + old.balance
    BY <1>1 DEF WithinLimits
  <2> HIDE DEF terms, was, old
  <2> QED BY <1>2, <1>3, <1>5, <2>1, <2>2
<1> HIDE DEF terms, old, n, was, out
<1>10. p \in product /\ p.offer = was.offer /\ p.buyers = was.buyers /\ p.current_amount = n
  BY ONLY <1>5 DEF product
<1> DEFINE base == IF terms.has_prediction THEN led_price ELSE 0
           b == old.balance + q
<1>11. base \in Nat /\ b \in Nat /\ b > 0
  BY <1>2, <1>3
<1>12. row = [old EXCEPT !.balance = b, !.started_at = now, !.ended_at = EndOf(terms),
                         !.base_price = base, !.lem_rewards = 0, !.led_rewards = 0,
                         !.last_claim_led_reward = now, !.last_claim_lem_reward = LemClock(terms)]
  BY DEF ToppedUp
<1> HIDE DEF base, b, row, p
<1>13. /\ row \in staking /\ row.balance = b
       /\ row.started_at = now /\ row.ended_at = EndOf(terms)
       /\ row.last_claim_led_reward = now /\ row.led_rewards = 0
       /\ row.current_yield = old.current_yield /\ row.price_prediction = old.price_prediction
  BY <1>3, <1>4, <1>11, <1>12 DEF staking
<1>14. GoodRow(row, terms, now)
  <2>1. /\ terms.minimum_yield <= old.current_yield /\ old.current_yield <= terms.maximum_yield
        /\ old.price_prediction # "none" => terms.has_prediction
    BY <1>3 DEF GoodRow
  <2> QED BY <1>3, <1>13, <2>1, FreshRow DEF terms
<1>15. p.current_amount = products[id].current_amount - stakings[u][id].balance + row.balance
  BY <1>2, <1>3, <1>5, <1>10, <1>13 DEF n, was, old, b
<1>16. p.buyers = IF row.balance > 0 THEN products[id].buyers \cup {u}
                  ELSE products[id].buyers \ {u}
  BY <1>5, <1>10, <1>11, <1>13 DEF was
<1>17. /\ p.offer = products[id].offer
       /\ row.balance > 0 => GoodRow(row, p.offer, now)
       /\ p.offer.maximum_amount_limit # 0 => p.current_amount <= p.offer.maximum_amount_limit
       /\ p.offer.amount_per_account # 0 => row.balance <= p.offer.amount_per_account
  BY <1>9, <1>10, <1>13, <1>14 DEF was, terms, b
<1>18. Offered(id)
  BY <1>3 DEF Offers
<1>19. led_price' \in Nat
  BY <1>1, <1>3
<1>20. /\ stakings' = [stakings EXCEPT ![u][id] = row] /\ now' = now
       /\ row \in staking /\ p \in product
  BY <1>1, <1>10, <1>13
<1> QED BY <1>6, <1>7, <1>8, <1>15, <1>16, <1>17, <1>18, <1>19, <1>20, ReplaceDeposit

LEMMA UnstakeInv ==
  ASSUME SInv, NEW u \in Users, NEW id \in ProductIds, unstake(u, id)
  PROVE  SInv'
<1> DEFINE terms == products[id].offer
           old == stakings[u][id]
           was == products[id]
           n == was.current_amount - old.balance
           B == was.buyers \ {u}
           p == [was EXCEPT !.current_amount = n, !.buyers = B]
           out == UnstakeLed(old, terms)
           end == UnstakeEnd(old, terms)
<1>1. /\ Holds(u, id)
      /\ IssueAndPayLem(LemDue(old, terms, end))
      /\ MoveLed(u, 0, out)
      /\ stakings' = [stakings EXCEPT ![u][id] = NoStaking]
      /\ products' = Withdraw(u, id)
      /\ now' = now /\ led_price' = led_price
  BY DEF unstake
<1>2. /\ old \in staking /\ old.balance \in Nat /\ old.balance > 0
      /\ old.current_yield \in Nat /\ old.led_rewards \in Nat
      /\ old.started_at \in Nat /\ old.ended_at \in Nat
      /\ now \in Nat /\ led_price \in Nat
      /\ id \in Offers /\ GoodRow(old, terms, now)
      /\ now - old.started_at \in Nat
  BY <1>1, HeldRow
<1>3. /\ terms \in offer /\ terms.duration \in Nat /\ Day * terms.duration \in Nat
      /\ terms.minimum_yield \in Nat /\ terms.maximum_yield \in Nat
  BY TermTypes
<1>4. /\ was \in product /\ was.current_amount \in Nat
      /\ n \in Nat /\ B \in SUBSET Users
  <2>1. was \in product /\ was.current_amount \in Nat
        /\ BalancesIn(id) \in [Users -> Nat] /\ BalancesIn(id)[u] = old.balance
    BY TableTypes DEF SInv, BalancesIn
  <2>2. was.current_amount = Total(BalancesIn(id))
    BY DEF SInv, ProductsMatchStakings, BalancesIn
  <2>3. old.balance <= was.current_amount
    <3> DEFINE f == BalancesIn(id)
    <3>1. f \in [Users -> Nat] /\ IsFiniteSet(Users) /\ u \in Users
      BY <2>1, StakingAssumption
    <3> HIDE DEF f
    <3>2. f[u] <= Total(f)
      BY ONLY <3>1, TotalMember
    <3> QED BY <2>1, <2>2, <3>2 DEF f
  <2>4. n \in Nat
    BY <1>2, <2>1, <2>3
  <2> QED BY <2>1, <2>4 DEF product
<1>5. end \in Nat /\ end - old.started_at \in Nat
  <2>1. CASE terms.duration # 0
    <3>1. end = old.ended_at /\ old.ended_at = old.started_at + Day * terms.duration
      BY <1>2, <2>1 DEF GoodRow, UnstakeEnd
    <3> HIDE DEF end, terms
    <3> QED BY <1>2, <1>3, <3>1
  <2>2. CASE terms.duration = 0
    BY <1>2, <2>2 DEF UnstakeEnd
  <2> QED BY <2>1, <2>2
<1>6. wallet' \in [Users -> Nat] /\ vault' \in Nat
  <2> DEFINE y == FinalYield(old, terms)
             i == Interest(old.balance, y, end - old.started_at)
  <2>1. y \in Nat
    BY <1>2, <1>3 DEF FinalYield
  <2>2. out = old.balance + i - old.led_rewards
    BY DEF UnstakeLed
  <2> HIDE DEF y, end, out, old
  <2>3. i \in Nat
    BY <1>2, <1>5, <2>1, InterestNat
  <2> HIDE DEF i
  <2>4. out \in Int
    BY <1>2, <2>2, <2>3
  <2> QED BY <1>1, <2>4, MoveLedType DEF SInv
<1>7. ClockInv'
  <2> HIDE DEF end
  <2>1. LemDue(old, terms, end) \in Int
    BY <1>5, LemDueInt
  <2> HIDE DEF old, terms
  <2> QED BY <1>1, <2>1, IssueAndPayKeepsClock DEF SInv
<1>8. products' = [products EXCEPT ![id] = p]
  BY <1>1 DEF SInv, TypeOK, Withdraw
<1>9. NoStaking \in staking /\ NoStaking.balance = 0
  BY DEF NoStaking, staking, Predictions
<1> HIDE DEF n, B, was
<1>10. /\ p \in product /\ p.offer = was.offer
       /\ p.current_amount = n /\ p.buyers = B
  BY ONLY <1>4 DEF product
<1> HIDE DEF p, out, end
<1>11. p.current_amount = products[id].current_amount - stakings[u][id].balance + NoStaking.balance
  BY <1>2, <1>4, <1>9, <1>10 DEF n, was
<1>12. p.buyers = IF NoStaking.balance > 0 THEN products[id].buyers \cup {u}
                  ELSE products[id].buyers \ {u}
  BY <1>9, <1>10 DEF B, was
<1>13. /\ p.offer.maximum_amount_limit # 0 => p.current_amount <= p.offer.maximum_amount_limit
       /\ p.offer.amount_per_account # 0 => NoStaking.balance <= p.offer.amount_per_account
  <2>1. terms.maximum_amount_limit \in Nat /\ terms.amount_per_account \in Nat
    BY <1>3 DEF offer
  <2>2. terms.maximum_amount_limit # 0 => was.current_amount <= terms.maximum_amount_limit
    BY <1>2 DEF SInv, LimitsRespected, was
  <2>3. n <= was.current_amount
    BY <1>2, <1>4 DEF n
  <2>4. p.offer = terms
    BY <1>10 DEF was
  <2> HIDE DEF terms
  <2> QED BY <1>4, <1>9, <1>10, <2>1, <2>2, <2>3, <2>4
<1>14. Offered(id) /\ p.offer = products[id].offer
  BY <1>2, <1>10 DEF Offers, was
<1>15. led_price' \in Nat
  BY <1>1, <1>2
<1> DEFINE row == NoStaking
<1>16. /\ stakings' = [stakings EXCEPT ![u][id] = row] /\ now' = now
       /\ row \in staking /\ p \in product
       /\ row.balance > 0 => GoodRow(row, p.offer, now)
  BY <1>1, <1>9, <1>10
<1>17. /\ p.current_amount = products[id].current_amount - stakings[u][id].balance + row.balance
       /\ p.buyers = IF row.balance > 0 THEN products[id].buyers \cup {u}
                     ELSE products[id].buyers \ {u}
       /\ p.offer.maximum_amount_limit # 0 => p.current_amount <= p.offer.maximum_amount_limit
       /\ p.offer.amount_per_account # 0 => row.balance <= p.offer.amount_per_account
  BY <1>11, <1>12, <1>13
<1> HIDE DEF row, terms, old
<1> QED BY <1>6, <1>7, <1>8, <1>14, <1>15, <1>16, <1>17, ReplaceDeposit

\* Until when claimled and unstake pay interest, for a deposit in order: not
\* before the last claim, not beyond the term, and not beyond now.
LEMMA InterestEnds ==
  ASSUME NEW row \in staking, NEW terms \in offer, now \in Nat, GoodRow(row, terms, now)
  PROVE  /\ ClaimEnd(row, terms) \in Nat /\ ClaimEnd(row, terms) <= now
         /\ row.last_claim_led_reward <= ClaimEnd(row, terms)
         /\ row.ended_at # 0 => ClaimEnd(row, terms) <= row.ended_at
         /\ UnstakeEnd(row, terms) \in Nat
         /\ row.last_claim_led_reward <= UnstakeEnd(row, terms)
         /\ Matured(row) => UnstakeEnd(row, terms) <= now
<1>1. /\ row.ended_at \in Nat /\ row.started_at \in Nat /\ row.last_claim_led_reward \in Nat
      /\ terms.duration \in Nat
  BY DEF staking, offer
<1>2. Day * terms.duration \in Nat
  BY <1>1, Numbers
<1>3. /\ row.ended_at = IF terms.duration = 0 THEN 0 ELSE row.started_at + Day * terms.duration
      /\ row.last_claim_led_reward <= now
      /\ row.ended_at # 0 => row.last_claim_led_reward <= row.ended_at
  BY DEF GoodRow
<1>4. CASE terms.duration = 0
  BY <1>1, <1>3, <1>4 DEF ClaimEnd, UnstakeEnd, Matured
<1>5. CASE terms.duration # 0
  <2>1. Day * terms.duration > 0
    <3>1. terms.duration > 0
      BY <1>1, <1>5
    <3> QED BY <1>1, <3>1, Numbers
  <2>2. row.ended_at # 0
    BY <1>1, <1>2, <1>3, <1>5, <2>1
  <2> QED BY <1>1, <1>3, <1>5, <2>2 DEF ClaimEnd, UnstakeEnd, Matured
<1> QED BY <1>4, <1>5

LEMMA ClaimledInv ==
  ASSUME SInv, NEW u \in Users, NEW id \in ProductIds, claimled(u, id)
  PROVE  SInv'
<1> DEFINE terms == products[id].offer
           old == stakings[u][id]
           current == ClaimEnd(old, terms)
           amount == Interest(old.balance, old.current_yield, current - old.last_claim_led_reward)
           sum == old.led_rewards + amount
           row == LedClaimed(old, current, amount)
<1>1. /\ Holds(u, id) /\ amount > 0 /\ MoveLed(u, 0, amount)
      /\ stakings' = [stakings EXCEPT ![u][id] = row]
      /\ products' = products /\ led_price' = led_price /\ UNCHANGED issuanceVars
  BY DEF claimled
<1>2. /\ old \in staking /\ old.balance \in Nat /\ old.led_rewards \in Nat
      /\ old.current_yield \in Nat /\ old.started_at \in Nat /\ old.ended_at \in Nat
      /\ old.last_claim_led_reward \in Nat
      /\ now \in Nat /\ led_price \in Nat /\ GoodRow(old, terms, now)
  BY <1>1, HeldRow
<1>3. terms.duration \in Nat /\ Day * terms.duration \in Nat /\ terms.maximum_yield \in Nat
  BY TermTypes
<1>4. /\ old.ended_at = IF terms.duration = 0 THEN 0 ELSE old.started_at + Day * terms.duration
      /\ old.current_yield <= terms.maximum_yield
      /\ old.started_at <= old.last_claim_led_reward
      /\ old.last_claim_led_reward <= now
      /\ old.ended_at # 0 => old.last_claim_led_reward <= old.ended_at
      /\ old.led_rewards <= Interest(old.balance, terms.maximum_yield,
                                     old.last_claim_led_reward - old.started_at)
  BY <1>2 DEF GoodRow
<1>6. /\ current \in Nat /\ current <= now
      /\ old.last_claim_led_reward <= current
      /\ old.ended_at # 0 => current <= old.ended_at
  <2>1. terms \in offer
    BY TermTypes
  <2> HIDE DEF terms, old
  <2> QED BY <1>2, <2>1, InterestEnds
<1> HIDE DEF terms, old, current
<1> DEFINE s == old.last_claim_led_reward - old.started_at
           d == current - old.last_claim_led_reward
<1>7. s \in Nat /\ d \in Nat /\ s + d = current - old.started_at
  BY <1>2, <1>4, <1>6
<1>8. amount = Interest(old.balance, old.current_yield, d)
  OBVIOUS
<1> HIDE DEF s, d, amount
<1>9. amount \in Nat
  BY <1>2, <1>7, <1>8, InterestNat
<1>10. sum <= Interest(old.balance, terms.maximum_yield, s + d)
  <2>1. old.led_rewards <= Interest(old.balance, terms.maximum_yield, s)
    BY <1>4 DEF s
  <2>2. old.led_rewards + Interest(old.balance, old.current_yield, d)
          <= Interest(old.balance, terms.maximum_yield, s + d)
    BY <1>2, <1>3, <1>4, <1>7, <2>1, ClaimWithin
  <2> QED BY <1>8, <2>2
<1>11. sum \in Nat
  BY <1>2, <1>9
<1>12. row = [old EXCEPT !.last_claim_led_reward = current, !.led_rewards = sum]
  BY DEF LedClaimed
<1> HIDE DEF sum, row
<1>13. /\ row \in staking /\ row.balance = old.balance /\ row.current_yield = old.current_yield
       /\ row.started_at = old.started_at /\ row.ended_at = old.ended_at
       /\ row.price_prediction = old.price_prediction
       /\ row.last_claim_led_reward = current /\ row.led_rewards = sum
  BY ONLY <1>2, <1>6, <1>11, <1>12 DEF staking
<1>14. GoodRow(row, terms, now)
  <2>1. row.led_rewards <= Interest(row.balance, terms.maximum_yield,
                                    row.last_claim_led_reward - row.started_at)
    BY <1>7, <1>10, <1>13
  <2>2. row.started_at <= row.last_claim_led_reward
    BY <1>2, <1>4, <1>6, <1>13
  <2> QED BY <1>2, <1>6, <1>13, <2>1, <2>2 DEF GoodRow
<1>15. wallet' \in [Users -> Nat] /\ vault' \in Nat
  BY <1>1, <1>9, MoveLedType DEF SInv
<1>16. ClockInv' /\ now' = now /\ led_price' \in Nat
  BY <1>1, <1>2, LedgerKeepsClock DEF issuanceVars, SInv, ClockInv, IssuanceTypeOK
<1>17. row.balance = stakings[u][id].balance /\ GoodRow(row, products[id].offer, now)
  BY <1>13, <1>14 DEF old, terms
<1>18. Holds(u, id) /\ stakings' = [stakings EXCEPT ![u][id] = row] /\ products' = products
  BY <1>1
<1> QED BY <1>13, <1>15, <1>16, <1>17, <1>18, ReplaceTerms

LEMMA ClaimlemInv ==
  ASSUME SInv, NEW u \in Users, NEW id \in ProductIds, claimlem(u, id)
  PROVE  SInv'
<1> DEFINE terms == products[id].offer
           old == stakings[u][id]
           end == RewardsEnd(now, old)
           secs == SignedSeconds(LemSeconds(old.last_claim_lem_reward, end))
           amount == LemReward(old.balance, secs)
           sum == old.lem_rewards + amount
           row == IF amount > 0
                  THEN [old EXCEPT !.last_claim_lem_reward = end, !.lem_rewards = sum]
                  ELSE old
<1>1. /\ Holds(u, id) /\ IssueAndPayLem(amount)
      /\ now' = now /\ led_price' = led_price /\ products' = products
      /\ wallet' = wallet /\ vault' = vault
  BY DEF claimlem, ledVars
<1>2. stakings' = IF amount > 0
                  THEN [stakings EXCEPT ![u][id] = LemClaimed(old, end, amount)]
                  ELSE stakings
  BY DEF claimlem
<1>3. /\ old \in staking /\ old.balance \in Nat /\ old.lem_rewards \in Nat
      /\ old.ended_at \in Nat /\ old.last_claim_lem_reward \in Nat
      /\ now \in Nat /\ led_price \in Nat /\ GoodRow(old, terms, now)
  BY <1>1, HeldRow
<1>4. stakings \in [Users -> [ProductIds -> staking]]
  BY DEF SInv, TypeOK
<1>5. end \in Nat
  BY <1>3 DEF RewardsEnd
<1> HIDE DEF end
<1>6. amount \in Int
  <2> HIDE DEF old
  <2> QED BY <1>3, <1>5, LemRewardInt DEF SInv
<1> HIDE DEF amount
<1>7. stakings' = [stakings EXCEPT ![u][id] = row]
  <2>1. CASE amount > 0
    <3>1. row = LemClaimed(old, end, amount)
      BY <2>1 DEF LemClaimed
    <3> QED BY <1>2, <2>1, <3>1
  <2>2. CASE ~(amount > 0)
    <3>1. row = old /\ stakings' = stakings
      BY <1>2, <2>2
    <3> QED BY <1>4, <3>1
  <2> QED BY <2>1, <2>2
<1> HIDE DEF old, terms
<1>8. /\ row \in staking /\ row.balance = old.balance /\ row.current_yield = old.current_yield
      /\ row.started_at = old.started_at /\ row.ended_at = old.ended_at
      /\ row.price_prediction = old.price_prediction
      /\ row.last_claim_led_reward = old.last_claim_led_reward
      /\ row.led_rewards = old.led_rewards
  <2>1. CASE amount > 0
    <3>1. row = [old EXCEPT !.last_claim_lem_reward = end, !.lem_rewards = sum]
      BY <2>1
    <3>2. sum \in Nat
      BY <1>3, <1>6, <2>1
    <3> HIDE DEF row, sum
    <3> QED BY ONLY <1>3, <1>5, <3>1, <3>2 DEF staking
  <2>2. CASE ~(amount > 0)
    BY <1>3, <2>2
  <2> QED BY <2>1, <2>2
<1> HIDE DEF row
<1>9. GoodRow(row, terms, now)
  BY <1>3, <1>8 DEF GoodRow
<1>10. wallet' \in [Users -> Nat] /\ vault' \in Nat /\ led_price' \in Nat
  BY <1>1, <1>3 DEF SInv, TypeOK
<1>11. ClockInv' /\ now' = now
  BY <1>1, <1>6, IssueAndPayKeepsClock DEF SInv
<1>12. row.balance = stakings[u][id].balance /\ GoodRow(row, products[id].offer, now)
  BY <1>8, <1>9 DEF old, terms
<1>13. Holds(u, id) /\ products' = products /\ row \in staking
  BY <1>1, <1>8
<1> QED BY <1>7, <1>10, <1>11, <1>12, <1>13, ReplaceTerms

LEMMA ChangeyieldInv ==
  ASSUME SInv, NEW u \in Users, NEW id \in ProductIds, NEW y \in Yields, changeyield(u, id, y)
  PROVE  SInv'
<1> DEFINE terms == products[id].offer
           old == stakings[u][id]
           row == [old EXCEPT !.current_yield = y]
<1>1. /\ Holds(u, id) /\ terms.minimum_yield <= y /\ y <= terms.maximum_yield
      /\ stakings' = [stakings EXCEPT ![u][id].current_yield = y]
      /\ products' = products /\ led_price' = led_price
      /\ wallet' = wallet /\ vault' = vault /\ UNCHANGED issuanceVars
  BY DEF changeyield, ledVars
<1>2. old \in staking /\ led_price \in Nat /\ GoodRow(old, terms, now)
  BY <1>1, HeldRow
<1>3. stakings' = [stakings EXCEPT ![u][id] = row]
  BY <1>1 DEF SInv, TypeOK
<1>4. y \in Nat
  BY Numbers
<1> HIDE DEF old, terms
<1>5. /\ row \in staking /\ row.balance = old.balance /\ row.current_yield = y
      /\ row.started_at = old.started_at /\ row.ended_at = old.ended_at
      /\ row.price_prediction = old.price_prediction
      /\ row.last_claim_led_reward = old.last_claim_led_reward
      /\ row.led_rewards = old.led_rewards
  BY ONLY <1>2, <1>4 DEF staking
<1> HIDE DEF row
<1>6. GoodRow(row, terms, now)
  BY <1>1, <1>2, <1>5 DEF GoodRow
<1>7. wallet' \in [Users -> Nat] /\ vault' \in Nat /\ led_price' \in Nat
  BY <1>1, <1>2 DEF SInv, TypeOK
<1>8. ClockInv' /\ now' = now
  BY <1>1, LedgerKeepsClock DEF issuanceVars, SInv, ClockInv, IssuanceTypeOK
<1>9. row.balance = stakings[u][id].balance /\ GoodRow(row, products[id].offer, now)
  BY <1>5, <1>6 DEF old, terms
<1>10. Holds(u, id) /\ products' = products /\ row \in staking
  BY <1>1, <1>5
<1> QED BY <1>3, <1>7, <1>8, <1>9, <1>10, ReplaceTerms

LEMMA QuietInv ==
  ASSUME SInv, Emission \/ (\E p \in LedPrices : setledprice(p))
  PROVE  SInv'
<1>1. CASE Emission
  <2>1. IssuanceNext /\ led_price' = led_price /\ products' = products /\ stakings' = stakings
        /\ wallet' = wallet /\ vault' = vault
    BY <1>1 DEF Emission, ledVars
  <2>2. ClockInv'
    BY <2>1, EmissionKeepsClock DEF SInv
  <2>3. now <= now'
    BY <2>1 DEF SInv, TypeOK, IssuanceTypeOK, IssuanceNext, Tick, init, issuelem
  <2>4. TypeOK'
    BY <2>1, <2>2 DEF SInv, TypeOK, ClockInv
  <2> QED BY <2>1, <2>2, <2>3, <2>4, TablesUnchanged
<1>2. CASE \E p \in LedPrices : setledprice(p)
  <2>1. PICK p \in LedPrices : setledprice(p)
    BY <1>2
  <2>2. /\ led_price' = p /\ products' = products /\ stakings' = stakings
        /\ wallet' = wallet /\ vault' = vault
        /\ configs' = configs /\ now' = now /\ lem' = lem
    BY <2>1 DEF setledprice, ledVars, issuanceVars
  <2>3. ClockInv' /\ now <= now'
    BY <2>2, LedgerKeepsClock DEF SInv, ClockInv, IssuanceTypeOK
  <2>4. p \in Nat
    BY StakingAssumption
  <2>5. TypeOK'
    BY <2>2, <2>3, <2>4 DEF SInv, TypeOK, ClockInv
  <2> QED BY <2>2, <2>3, <2>5, TablesUnchanged
<1> QED BY <1>1, <1>2

\* The offer of a row that does not exist.
LEMMA EmptyOffer ==
  /\ NoOffer \in offer /\ NoOffer.name = ""
  /\ NoOffer.minimum_yield <= NoOffer.maximum_yield
<1>1. "" \in Names
  BY DEF Names
<1>2. 0 \in Nat /\ FALSE \in BOOLEAN /\ 0 <= 0
  OBVIOUS
<1>3. NoOffer \in offer
  BY ONLY <1>1, <1>2, Zenon DEF NoOffer, offer
<1>4. /\ NoOffer.name = "" /\ NoOffer.minimum_yield = 0 /\ NoOffer.maximum_yield = 0
  BY DEF NoOffer
<1> QED BY <1>2, <1>3, <1>4

\* The row of a product nobody holds is replaced by one with no deposits.
LEMMA ReplaceOffer ==
  ASSUME SInv, NEW id \in ProductIds, \A u \in Users : stakings[u][id].balance = 0,
         NEW p \in product, p.current_amount = 0, p.buyers = {},
         p.offer.minimum_yield <= p.offer.maximum_yield,
         products' = [products EXCEPT ![id] = p],
         stakings' = stakings, UNCHANGED <<issuanceVars, led_price, ledVars>>
  PROVE  SInv'
<1>1. /\ products \in [ProductIds -> product] /\ p.offer \in offer
      /\ \A u \in Users, j \in ProductIds : stakings[u][j] \in staking
  BY DEF SInv, TypeOK, product
<1>2. /\ products' \in [ProductIds -> product] /\ products'[id] = p
      /\ \A j \in ProductIds : j # id => products'[j] = products[j]
  BY <1>1
<1>3. /\ now' = now /\ configs' = configs /\ lem' = lem /\ led_price' = led_price
      /\ wallet' = wallet /\ vault' = vault
  BY DEF issuanceVars, ledVars
<1>4. ClockInv'
  BY <1>3, LedgerKeepsClock DEF SInv, ClockInv, IssuanceTypeOK
<1>5. TypeOK'
  BY <1>2, <1>3, <1>4 DEF SInv, TypeOK, ClockInv
<1>6. ProductsMatchStakings'
  <2> SUFFICES ASSUME NEW j \in ProductIds
               PROVE  /\ products'[j].current_amount = Total([u \in Users |-> stakings[u][j].balance])
                      /\ products'[j].buyers = {u \in Users : stakings[u][j].balance > 0}
    BY DEF ProductsMatchStakings
  <2>1. CASE j # id
    BY <1>2, <2>1 DEF SInv, ProductsMatchStakings
  <2>2. CASE j = id
    <3>1. [u \in Users |-> stakings[u][j].balance] = [u \in Users |-> 0]
      BY <2>2
    <3>2. Total([u \in Users |-> 0]) = 0
      BY StakingAssumption, TotalZero
    <3>3. {u \in Users : stakings[u][j].balance > 0} = {}
      BY <2>2
    <3> QED BY <1>2, <2>2, <3>1, <3>2, <3>3
  <2> QED BY <2>1, <2>2
<1>7. GoodDeposits'
  <2> SUFFICES ASSUME NEW u \in Users, NEW j \in ProductIds, stakings[u][j].balance > 0
               PROVE  Offered(j)' /\ GoodRow(stakings[u][j], products'[j].offer, now)
    BY <1>3 DEF GoodDeposits
  <2>1. j # id
    OBVIOUS
  <2>2. Offered(j) /\ GoodRow(stakings[u][j], products[j].offer, now)
    BY DEF SInv, GoodDeposits
  <2> QED BY <1>2, <2>1, <2>2 DEF Offered
<1>8. GoodOffers'
  <2> SUFFICES ASSUME NEW j \in ProductIds, Offered(j)'
               PROVE  products'[j].offer.minimum_yield <= products'[j].offer.maximum_yield
    BY DEF GoodOffers, Offers
  <2>1. CASE j # id
    BY <1>2, <2>1 DEF SInv, GoodOffers, Offers, Offered
  <2>2. CASE j = id
    BY <1>2, <2>2
  <2> QED BY <2>1, <2>2
<1>9. LimitsRespected'
  <2> SUFFICES ASSUME NEW j \in ProductIds, Offered(j)'
               PROVE  LET terms == products'[j].offer
                      IN  /\ terms.maximum_amount_limit # 0 =>
                               products'[j].current_amount <= terms.maximum_amount_limit
                          /\ terms.amount_per_account # 0 =>
                               \A u \in Users : stakings[u][j].balance <= terms.amount_per_account
    BY DEF LimitsRespected, Offers
  <2>1. CASE j # id
    BY <1>2, <2>1 DEF SInv, LimitsRespected, Offers, Offered
  <2>2. CASE j = id
    <3>1. p.offer.maximum_amount_limit \in Nat /\ p.offer.amount_per_account \in Nat
      BY <1>1 DEF offer
    <3> QED BY <1>2, <2>2, <3>1
  <2> QED BY <2>1, <2>2
<1> QED BY <1>4, <1>5, <1>6, <1>7, <1>8, <1>9 DEF SInv

\* The keys of the products table are finitely many.
LEMMA ProductIdsFinite == IsFiniteSet(ProductIds)
<1>1. MaxProductId \in Nat
  BY StakingAssumption
<1> QED BY <1>1, FS_Interval DEF ProductIds

\* addproduct never takes the key of a row that exists.
LEMMA AvailableProductIdIsFree ==
  ASSUME AvailableProductId <= MaxProductId
  PROVE  AvailableProductId \in ProductIds /\ ~Offered(AvailableProductId)
<1>1. MaxProductId \in Nat
  BY StakingAssumption
<1>2. CASE Offers = {}
  <2>1. AvailableProductId = 0 /\ 0 \in ProductIds
    BY <1>1, <1>2 DEF AvailableProductId, ProductIds
  <2> QED BY <1>2, <2>1 DEF Offers
<1>3. CASE Offers # {}
  <2>1. Offers \subseteq Nat /\ IsFiniteSet(Offers)
    <3>1. Offers \in SUBSET ProductIds
      BY DEF Offers
    <3>2. IsFiniteSet(ProductIds) /\ ProductIds \subseteq Nat
      BY <1>1, ProductIdsFinite DEF ProductIds
    <3> QED BY <3>1, <3>2, FS_Subset
  <2>2. \E i \in Offers : \A j \in Offers : j <= i
    BY <1>3, <2>1, LargestElement
  <2> DEFINE max == CHOOSE i \in Offers : \A j \in Offers : j <= i
  <2>3. max \in Offers /\ \A j \in Offers : j <= max
    BY <2>2
  <2>4. AvailableProductId = 1 + max
    BY <1>3 DEF AvailableProductId
  <2> HIDE DEF max
  <2>5. max \in Nat /\ ~(1 + max \in Offers)
    BY <2>1, <2>3
  <2>6. 1 + max \in ProductIds
    BY <1>1, <2>4, <2>5 DEF ProductIds
  <2> QED BY <2>4, <2>5, <2>6 DEF Offers
<1> QED BY <1>2, <1>3

LEMMA AddproductInv ==
  ASSUME SInv, NEW new \in Catalogue, addproduct(new)
  PROVE  SInv'
<1> DEFINE id == AvailableProductId
           p == [NoProduct EXCEPT !.offer = new]
<1>1. id \in ProductIds /\ ~Offered(id)
  BY AvailableProductIdIsFree DEF addproduct
<1> HIDE DEF id
<1>2. \A u \in Users : stakings[u][id].balance = 0
  <2> SUFFICES ASSUME NEW u \in Users PROVE stakings[u][id].balance = 0
    OBVIOUS
  <2>1. stakings[u][id].balance \in Nat
    BY <1>1, TableTypes DEF SInv
  <2>2. ~(stakings[u][id].balance > 0)
    BY <1>1 DEF SInv, GoodDeposits
  <2> QED BY <2>1, <2>2
<1>3. new \in offer
  BY StakingAssumption
<1>4. p = [offer |-> new, current_amount |-> 0, buyers |-> {}]
  BY DEF NoProduct
<1> HIDE DEF p
<1>5. /\ p \in product /\ p.current_amount = 0 /\ p.buyers = {} /\ p.offer = new
  BY <1>3, <1>4 DEF product
<1>6. /\ new.minimum_yield <= new.maximum_yield
      /\ products' = [products EXCEPT ![id] = p]
      /\ stakings' = stakings /\ UNCHANGED <<issuanceVars, led_price, ledVars>>
  BY DEF addproduct, id, p
<1> QED BY <1>1, <1>2, <1>5, <1>6, ReplaceOffer

LEMMA RmproductInv ==
  ASSUME SInv, NEW id \in ProductIds, rmproduct(id)
  PROVE  SInv'
<1> DEFINE f == BalancesIn(id)
           p == NoProduct
<1>1. products[id].current_amount = Total(f)
  BY DEF SInv, ProductsMatchStakings, BalancesIn
<1>2. f \in [Users -> Nat] /\ IsFiniteSet(Users)
      /\ \A u \in Users : f[u] = stakings[u][id].balance
  BY TableTypes, StakingAssumption DEF SInv, BalancesIn
<1>3. products[id].current_amount = 0
  BY DEF rmproduct, Unsold
<1> HIDE DEF f
<1>4. \A u \in Users : stakings[u][id].balance = 0
  <2> SUFFICES ASSUME NEW u \in Users PROVE stakings[u][id].balance = 0
    OBVIOUS
  <2>1. f[u] <= Total(f)
    BY ONLY <1>2, TotalMember
  <2> QED BY <1>1, <1>2, <1>3, <2>1
<1>5. /\ p \in product /\ p.current_amount = 0 /\ p.buyers = {}
      /\ p.offer.minimum_yield <= p.offer.maximum_yield
  <2>1. NoOffer \in offer /\ NoOffer.minimum_yield <= NoOffer.maximum_yield
    BY EmptyOffer
  <2> QED BY <2>1 DEF NoProduct, product
<1>6. /\ products' = [products EXCEPT ![id] = p]
      /\ stakings' = stakings /\ UNCHANGED <<issuanceVars, led_price, ledVars>>
  BY DEF rmproduct
<1> HIDE DEF p
<1> QED BY <1>4, <1>5, <1>6, ReplaceOffer

LEMMA NothingDeposited ==
  ASSUME Init
  PROVE  SInv
<1>1. ClockInv
  BY InitClock DEF Init
<1>2. /\ products = [id \in ProductIds |-> NoProduct]
      /\ stakings = [u \in Users |-> [id \in ProductIds |-> NoStaking]]
      /\ led_price = 0 /\ wallet = [u \in Users |-> Funds] /\ vault = Reserve
  BY DEF Init
<1>3. /\ NoProduct \in product /\ NoProduct.current_amount = 0 /\ NoProduct.buyers = {}
      /\ NoProduct.offer.name = ""
  <2>1. NoOffer \in offer /\ NoOffer.name = ""
    BY EmptyOffer
  <2> QED BY <2>1 DEF NoProduct, product
<1>4. NoStaking \in staking /\ NoStaking.balance = 0
  BY DEF NoStaking, staking, Predictions
<1>5. Funds \in Nat /\ Reserve \in Nat
  BY StakingAssumption
<1> HIDE DEF NoProduct, NoStaking
<1>6. TypeOK
  BY <1>1, <1>2, <1>3, <1>4, <1>5 DEF TypeOK, ClockInv
<1>7. ProductsMatchStakings
  <2> SUFFICES ASSUME NEW id \in ProductIds
               PROVE  /\ products[id].current_amount = Total([u \in Users |-> stakings[u][id].balance])
                      /\ products[id].buyers = {u \in Users : stakings[u][id].balance > 0}
    BY DEF ProductsMatchStakings
  <2>1. [u \in Users |-> stakings[u][id].balance] = [u \in Users |-> 0]
    BY <1>2, <1>4
  <2>2. Total([u \in Users |-> 0]) = 0
    BY StakingAssumption, TotalZero
  <2>3. {u \in Users : stakings[u][id].balance > 0} = {}
    BY <1>2, <1>4
  <2> QED BY <1>2, <1>3, <2>1, <2>2, <2>3
<1>8. GoodDeposits
  BY <1>2, <1>4 DEF GoodDeposits
<1>9. Offers = {}
  BY <1>2, <1>3 DEF Offers, Offered
<1> QED BY <1>1, <1>6, <1>7, <1>8, <1>9 DEF SInv, GoodOffers, LimitsRespected

-----------------------------------------------------------------------------
\* Every step preserves SInv.
LEMMA DepositStepInv ==
  ASSUME SInv, [Next]_vars
  PROVE  SInv'
<1>1. ASSUME Emission PROVE SInv'
  BY <1>1, QuietInv
<1>2. ASSUME NEW p \in LedPrices, setledprice(p) PROVE SInv'
  BY <1>2, QuietInv
<1>3. ASSUME NEW new \in Catalogue, addproduct(new) PROVE SInv'
  BY <1>3, AddproductInv
<1>4. ASSUME NEW id \in ProductIds, rmproduct(id) PROVE SInv'
  BY <1>4, RmproductInv
<1>5. ASSUME NEW u \in Users, NEW id \in ProductIds,
             NEW q \in Quantities, NEW p \in Predictions, stake(u, q, id, p)
      PROVE SInv'
  BY <1>5, StakeNewInv, StakeMoreInv DEF stake
<1>6. ASSUME NEW u \in Users, NEW id \in ProductIds, unstake(u, id) PROVE SInv'
  BY <1>6, UnstakeInv
<1>7. ASSUME NEW u \in Users, NEW id \in ProductIds, claimled(u, id) PROVE SInv'
  BY <1>7, ClaimledInv
<1>8. ASSUME NEW u \in Users, NEW id \in ProductIds, claimlem(u, id) PROVE SInv'
  BY <1>8, ClaimlemInv
<1>9. ASSUME NEW u \in Users, NEW id \in ProductIds, NEW y \in Yields, changeyield(u, id, y)
      PROVE SInv'
  BY <1>9, ChangeyieldInv
<1>10. ASSUME UNCHANGED vars PROVE SInv'
  <2>1. /\ now' = now /\ configs' = configs /\ lem' = lem /\ led_price' = led_price
        /\ products' = products /\ stakings' = stakings /\ wallet' = wallet /\ vault' = vault
    BY <1>10 DEF vars, issuanceVars, ledVars
  <2>2. ClockInv' /\ now <= now'
    BY <2>1, LedgerKeepsClock DEF SInv, ClockInv, IssuanceTypeOK
  <2>3. TypeOK'
    BY <2>1, <2>2 DEF SInv, TypeOK, ClockInv
  <2> QED BY <2>1, <2>2, <2>3, TablesUnchanged
<1> QED BY <1>1, <1>2, <1>3, <1>4, <1>5, <1>6, <1>7, <1>8, <1>9, <1>10 DEF Next

\* SInv is an inductive invariant of the deposits.
THEOREM DepositInvariance == Spec => []SInv
<1>1. Init => SInv
  BY NothingDeposited
<1>2. SInv /\ [Next]_vars => SInv'
  BY DepositStepInv
<1> QED BY <1>1, <1>2, PTL DEF Spec

\* The tables of the deposits keep their types, whatever is called when.
THEOREM DepositsTypeCorrect == Spec => []TypeOK
<1>1. SInv => TypeOK
  BY DEF SInv
<1> QED BY <1>1, DepositInvariance, PTL

\* What the invariant says of the tables.
LEMMA TablesAreGood ==
  ASSUME SInv
  PROVE  /\ ProductsMatchStakings /\ LimitsRespected
         /\ DepositsKeepTheirTerms /\ ClaimsWithinInterest
<1>1. DepositsKeepTheirTerms
  <2> SUFFICES ASSUME NEW u \in Users, NEW id \in ProductIds, stakings[u][id].balance > 0
               PROVE  LET row == stakings[u][id]
                          terms == products[id].offer
                      IN  /\ Offered(id)
                          /\ row.ended_at = IF terms.duration = 0 THEN 0
                                            ELSE row.started_at + Day * terms.duration
                          /\ terms.minimum_yield <= row.current_yield
                          /\ row.current_yield <= terms.maximum_yield
                          /\ row.price_prediction # "none" => terms.has_prediction
    BY DEF DepositsKeepTheirTerms
  <2>1. Offered(id) /\ GoodRow(stakings[u][id], products[id].offer, now)
    BY DEF SInv, GoodDeposits
  <2> QED BY <2>1 DEF GoodRow
<1>2. ClaimsWithinInterest
  <2> SUFFICES ASSUME NEW u \in Users, NEW id \in ProductIds, Holds(u, id)
               PROVE  LET row == stakings[u][id]
                      IN  /\ row.led_rewards <=
                               Interest(row.balance, products[id].offer.maximum_yield,
                                        row.last_claim_led_reward - row.started_at)
                          /\ row.ended_at # 0 => row.last_claim_led_reward <= row.ended_at
    BY DEF ClaimsWithinInterest
  <2>1. GoodRow(stakings[u][id], products[id].offer, now)
    BY DEF SInv, GoodDeposits, Holds
  <2> QED BY <2>1 DEF GoodRow
<1> QED BY <1>1, <1>2 DEF SInv

\* The totals and buyers that rmproduct and the limit of a product rely on
\* agree with the deposits of all owners.
THEOREM ProductsAlwaysMatch == Spec => []ProductsMatchStakings
<1>1. SInv => ProductsMatchStakings
  BY TablesAreGood
<1> QED BY <1>1, DepositInvariance, PTL

\* No deposit outlives its product, loses its yield's range or its end.
THEOREM TermsAreKept == Spec => []DepositsKeepTheirTerms
<1>1. SInv => DepositsKeepTheirTerms
  BY TablesAreGood
<1> QED BY <1>1, DepositInvariance, PTL

\* The limits that stake checks per transfer hold for all deposits together.
THEOREM LimitsAlwaysRespected == Spec => []LimitsRespected
<1>1. SInv => LimitsRespected
  BY TablesAreGood
<1> QED BY <1>1, DepositInvariance, PTL

\* However claims are split and yields changed, claimled has paid at most the
\* interest at the maximum yield, and nothing for the time after the term.
THEOREM ClaimsAlwaysWithinInterest == Spec => []ClaimsWithinInterest
<1>1. SInv => ClaimsWithinInterest
  BY TablesAreGood
<1> QED BY <1>1, DepositInvariance, PTL

=============================================================================
