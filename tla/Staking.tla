------------------------------ MODULE Staking ------------------------------
(***************************************************************************)
(* The deposit products of the lemonade contract: addproduct, rmproduct,   *)
(* stake (run by the transfer notification), unstake, claimled, claimlem,  *)
(* changeyield and setledprice.  Deposits earn LED at a yearly yield and,  *)
(* for some products, LEM at a rate that is halved with the emission; the  *)
(* LEM comes from the contract's own account, which issue_lem (module      *)
(* Issuance) fills in the same transaction.                                *)
(*                                                                         *)
(* A transaction that fails, for a check or a transfer that the balance    *)
(* does not cover, changes nothing: its guard is false.                    *)
(***************************************************************************)
EXTENDS Issuance, FiniteSets, Amounts

CONSTANTS
  Users,         \* accounts that deposit
  MaxProductId,  \* bound: primary keys of the products table
  Catalogue,     \* the offers addproduct is called with, see offer
  Quantities,    \* amounts a deposit may carry
  Yields,        \* yields changeyield is called with
  LedPrices,     \* LED prices the manager may post
  Day,           \* secondsPerDay
  YieldUnit,     \* a balance b at yield y earns b * y \div YieldUnit per second
  LemUnit,       \* and b \div LemUnit LEM per second in the first era
  Funds,         \* LED of each user at the start
  Reserve        \* LED the contract account holds at the start

\* Product names; "" is the name of no product.
Names == {new.name : new \in Catalogue} \cup {""}

\* The arguments of addproduct.  A yield is the interest over the principal,
\* 0 for the double 1.0; 0 stands for a limit or a duration that is not given.
offer == [name                 : Names,
          duration             : Nat,
          amount_per_account   : Nat,
          maximum_amount_limit : Nat,
          minimum_yield        : Nat,
          maximum_yield        : Nat,
          has_lem_rewards      : BOOLEAN,
          has_prediction       : BOOLEAN]

ASSUME StakingAssumption ==
  /\ IsFiniteSet(Users)
  /\ MaxProductId \in Nat
  /\ Catalogue \subseteq offer /\ \A new \in Catalogue : new.name # ""
  /\ Quantities \subseteq Nat \ {0}
  /\ Yields \subseteq Nat /\ LedPrices \subseteq Nat
  /\ Day \in Nat \ {0} /\ YieldUnit \in Nat \ {0} /\ LemUnit \in Nat \ {0}
  /\ Funds \in Nat /\ Reserve \in Nat

VARIABLES
  led_price,  \* configs2 row "led": price
  products,   \* the products table: an offer, what it holds and its buyers
  stakings,   \* the stakings tables: stakings[owner][product id]
  wallet,     \* led.token: LED balance of each user
  vault       \* led.token: LED balance of the contract account

ledVars == <<wallet, vault>>
vars == <<issuanceVars, led_price, products, stakings, ledVars>>

ProductIds == 0 .. MaxProductId
\* The memo may give any name; one that is neither long nor short is "other".
Predictions == {"none", "long", "short", "other"}

\* A row of the products table; the vector of buyers has no duplicates.
product == [offer          : offer,
            current_amount : Nat,
            buyers         : SUBSET Users]
NoOffer == [name |-> "", duration |-> 0, amount_per_account |-> 0,
            maximum_amount_limit |-> 0, minimum_yield |-> 0, maximum_yield |-> 0,
            has_lem_rewards |-> FALSE, has_prediction |-> FALSE]
NoProduct == [offer |-> NoOffer, current_amount |-> 0, buyers |-> {}]

\* A row of the stakings table; no row has balance 0.
staking == [balance               : Nat,
            current_yield         : Nat,
            price_prediction      : Predictions,
            base_price            : Nat,
            started_at            : Nat,
            ended_at              : Nat,
            last_claim_led_reward : Nat,
            last_claim_lem_reward : Nat,
            lem_rewards           : Nat,
            led_rewards           : Nat]
NoStaking == [balance |-> 0, current_yield |-> 0, price_prediction |-> "none",
              base_price |-> 0, started_at |-> 0, ended_at |-> 0,
              last_claim_led_reward |-> 0, last_claim_lem_reward |-> 0,
              lem_rewards |-> 0, led_rewards |-> 0]

Offered(id) == products[id].offer.name # ""
Offers == {id \in ProductIds : Offered(id)}
Holds(owner, id) == Offered(id) /\ stakings[owner][id].balance > 0

\* multi_index::available_primary_key(): one more than the last row's key.
AvailableProductId ==
  IF Offers = {} THEN 0 ELSE 1 + CHOOSE i \in Offers : \A j \in Offers : j <= i

-----------------------------------------------------------------------------
\* setledprice(price)
setledprice(price) ==
  /\ configs.is_active
  /\ led_price' = price
  /\ UNCHANGED <<issuanceVars, products, stakings, ledVars>>

\* addproduct(...): no product has the name; the limits are in order.
addproduct(new) ==
  /\ \A id \in Offers : products[id].offer.name # new.name
  /\ new.minimum_yield <= new.maximum_yield
  /\ new.maximum_amount_limit # 0 => new.amount_per_account <= new.maximum_amount_limit
  /\ AvailableProductId <= MaxProductId
  /\ products' = [products EXCEPT ![AvailableProductId] = [NoProduct EXCEPT !.offer = new]]
  /\ UNCHANGED <<issuanceVars, led_price, stakings, ledVars>>

\* Mutant of Unsold: nobody checks whether the product was sold.
UnsoldUnchecked(id) == TRUE

Unsold(id) == products[id].current_amount = 0

\* rmproduct(product_name)
rmproduct(id) ==
  /\ Offered(id)
  /\ Unsold(id)
  /\ products' = [products EXCEPT ![id] = NoProduct]
  /\ UNCHANGED <<issuanceVars, led_price, stakings, ledVars>>

-----------------------------------------------------------------------------
\* LED earned by a balance, truncated to whole units.
Interest(balance, yield, secs) == (balance * yield * secs) \div YieldUnit

\* An iteration of the loop over the eras that adds up the seconds LEM accrues
\* for, in unsigned arithmetic.  When the interval reaches beyond the era, its
\* start is moved to the end of the era before it is counted.
RewardStep(era, end, acc) ==
  LET h == configs.last_half_life_updated
      from == IF end > h[era + 1] THEN h[era + 1] ELSE acc.last
  IN  IF h[era] <= acc.last /\ acc.last < h[era + 1]
      THEN [last |-> from,
            secs |-> (acc.secs + Halved((end - from) % U32, era)) % U32]
      ELSE acc

LemSeconds(start, end) ==
  RewardStep(2, end, RewardStep(1, end, RewardStep(0, end,
    [last |-> start, secs |-> 0]))).secs

LemReward(balance, secs) == (balance * secs) \div LemUnit

\* claimlem keeps the sum in an int: from 2^31 on it is negative.
SignedSeconds(secs) == IF 2 * secs >= U32 THEN secs - U32 ELSE secs

RewardsEnd(current, row) == IF current >= row.ended_at THEN row.ended_at ELSE current

\* What stake and unstake owe in LEM, given the time the interest ends.
LemDue(row, terms, current) ==
  IF terms.has_lem_rewards
  THEN LemReward(row.balance, LemSeconds(row.started_at, RewardsEnd(current, row)))
         - row.lem_rewards
  ELSE 0

\* issue_lem, then a transfer of LEM to a staker if there is anything due.
IssueAndPayLem(amount) ==
  LET issued == LemAfterIssue
  IN  /\ configs.is_active
      /\ amount > 0 => amount <= issued.balance["self"]
      /\ configs' = ConfigAfterIssue
      /\ lem' = IF amount > 0
                THEN [issued EXCEPT !.balance["self"] = @ - amount,
                                    !.balance["users"] = @ + amount]
                ELSE issued

\* LED moves between an owner and the contract: in, then out.
MoveLed(owner, in, out) ==
  LET paid == IF out > 0 THEN out ELSE 0
  IN  /\ in <= wallet[owner]
      /\ paid <= vault + in
      /\ wallet' = [wallet EXCEPT ![owner] = @ - in + paid]
      /\ vault' = vault + in - paid

-----------------------------------------------------------------------------
\* Mutant of WithinLimits: the limit per account is compared with the new
\* deposit alone.
WithinLimitsPerDeposit(id, held, quantity) ==
  LET terms == products[id].offer
  IN  /\ terms.amount_per_account # 0 => terms.amount_per_account >= quantity
      /\ terms.maximum_amount_limit # 0 =>
           terms.maximum_amount_limit >= products[id].current_amount + quantity + held

\* The limits stake checks.  For a top-up the balance that is already part of
\* current_amount is added once more.
WithinLimits(id, held, quantity) ==
  LET terms == products[id].offer
  IN  /\ terms.amount_per_account # 0 => terms.amount_per_account >= held + quantity
      /\ terms.maximum_amount_limit # 0 =>
           terms.maximum_amount_limit >= products[id].current_amount + quantity + held

EndOf(terms) == IF terms.duration # 0 THEN now + Day * terms.duration ELSE 0

LemClock(terms) == IF terms.has_lem_rewards THEN now ELSE 0

NewStaking(terms, quantity, prediction) ==
  [balance |-> quantity, current_yield |-> terms.minimum_yield,
   price_prediction |-> prediction,
   base_price |-> IF prediction = "none" THEN 0 ELSE led_price,
   started_at |-> now, ended_at |-> EndOf(terms),
   last_claim_led_reward |-> now, last_claim_lem_reward |-> LemClock(terms),
   lem_rewards |-> 0, led_rewards |-> 0]

\* stake, when the owner does not hold the product.
StakeNew(owner, quantity, id, prediction) ==
  LET terms == products[id].offer
  IN  /\ Offered(id) /\ ~Holds(owner, id)
      /\ configs.is_active
      /\ WithinLimits(id, 0, quantity)
      /\ prediction # "none" => terms.has_prediction
      /\ stakings' = [stakings EXCEPT ![owner][id] = NewStaking(terms, quantity, prediction)]
      /\ products' = [products EXCEPT ![id].current_amount = @ + quantity,
                                      ![id].buyers = @ \cup {owner}]
      /\ MoveLed(owner, quantity, 0)
      /\ UNCHANGED <<issuanceVars, led_price>>

\* Mutant of ToppedUp: the rewards already received are not reset.
ToppedUpRewardsKept(row, terms, quantity) ==
  [row EXCEPT !.balance = @ + quantity, !.started_at = now, !.ended_at = EndOf(terms),
              !.base_price = IF terms.has_prediction THEN led_price ELSE 0,
              !.last_claim_led_reward = now, !.last_claim_lem_reward = LemClock(terms)]

\* The row after a top-up: the term starts anew.
ToppedUp(row, terms, quantity) ==
  [row EXCEPT !.balance = @ + quantity, !.started_at = now, !.ended_at = EndOf(terms),
              !.base_price = IF terms.has_prediction THEN led_price ELSE 0,
              !.lem_rewards = 0, !.led_rewards = 0,
              !.last_claim_led_reward = now, !.last_claim_lem_reward = LemClock(terms)]

\* stake, when the owner holds the product: the rewards so far are paid.  The
\* prediction of the memo is not used.
StakeMore(owner, quantity, id) ==
  LET terms == products[id].offer
      row == stakings[owner][id]
  IN  /\ Holds(owner, id)
      /\ WithinLimits(id, row.balance, quantity)
      /\ IssueAndPayLem(LemDue(row, terms, now))
      /\ MoveLed(owner, quantity,
                 Interest(row.balance, row.current_yield, now - row.started_at)
                   - row.led_rewards)
      /\ stakings' = [stakings EXCEPT ![owner][id] = ToppedUp(row, terms, quantity)]
      /\ products' = [products EXCEPT ![id].current_amount = @ + quantity]
      /\ UNCHANGED <<now, led_price>>

\* stake(owner, quantity, product_name, price_prediction)
stake(owner, quantity, id, prediction) ==
  StakeNew(owner, quantity, id, prediction) \/ StakeMore(owner, quantity, id)

-----------------------------------------------------------------------------
\* A fixed-term deposit is locked until its end, a flexible one for a day.
Matured(row) == IF row.ended_at # 0 THEN row.ended_at <= now ELSE row.started_at + Day <= now

\* The yield unstake applies: a prediction decides between the two yields.
FinalYield(row, terms) ==
  LET rose == led_price > row.base_price
  IN  CASE terms.has_prediction /\ row.price_prediction = "long" ->
             (IF rose THEN terms.maximum_yield ELSE terms.minimum_yield)
        [] terms.has_prediction /\ row.price_prediction = "short" ->
             (IF rose THEN terms.minimum_yield ELSE terms.maximum_yield)
        [] OTHER -> row.current_yield

\* When interest ends for unstake: at the end of the term, if there is one.
UnstakeEnd(row, terms) == IF terms.duration # 0 THEN row.ended_at ELSE now

\* Mutant of UnstakeLed: the claims are subtracted twice.
UnstakeLedTwice(row, terms) ==
  row.balance + Interest(row.balance, FinalYield(row, terms),
                         UnstakeEnd(row, terms) - row.started_at)
    - 2 * row.led_rewards

\* What unstake pays in LED: balance and interest, less what was claimed.
UnstakeLed(row, terms) ==
  row.balance + Interest(row.balance, FinalYield(row, terms),
                         UnstakeEnd(row, terms) - row.started_at)
    - row.led_rewards

\* Mutant of Withdraw: the product's total is not reduced.
WithdrawBuyerOnly(owner, id) ==
  [products EXCEPT ![id].buyers = @ \ {owner}]

\* Mutant of Withdraw: the total is reduced by what is paid out.
WithdrawPayment(owner, id) ==
  [products EXCEPT ![id].current_amount = @ - UnstakeLed(stakings[owner][id], products[id].offer),
                   ![id].buyers = @ \ {owner}]

\* The products table after owner's staking is erased.
Withdraw(owner, id) ==
  [products EXCEPT ![id].current_amount = @ - stakings[owner][id].balance,
                   ![id].buyers = @ \ {owner}]

\* unstake(owner, product_name)
unstake(owner, id) ==
  LET terms == products[id].offer
      row == stakings[owner][id]
  IN  /\ Holds(owner, id)
      /\ Matured(row)
      /\ UnstakeLed(row, terms) > 0
      /\ IssueAndPayLem(LemDue(row, terms, UnstakeEnd(row, terms)))
      /\ MoveLed(owner, 0, UnstakeLed(row, terms))
      /\ products' = Withdraw(owner, id)
      /\ stakings' = [stakings EXCEPT ![owner][id] = NoStaking]
      /\ UNCHANGED <<now, led_price>>

\* When interest ends for claimled.
ClaimEnd(row, terms) ==
  IF terms.duration # 0 THEN (IF now >= row.ended_at THEN row.ended_at ELSE now) ELSE now

\* Mutant of LedClaimed: the time of the claim is not recorded.
LedClaimedAgain(row, current, amount) == [row EXCEPT !.led_rewards = @ + amount]

LedClaimed(row, current, amount) ==
  [row EXCEPT !.last_claim_led_reward = current, !.led_rewards = @ + amount]

\* claimled(owner, product_name)
claimled(owner, id) ==
  LET row == stakings[owner][id]
      current == ClaimEnd(row, products[id].offer)
      amount == Interest(row.balance, row.current_yield, current - row.last_claim_led_reward)
  IN  /\ Holds(owner, id)
      /\ amount > 0
      /\ MoveLed(owner, 0, amount)
      /\ stakings' = [stakings EXCEPT ![owner][id] = LedClaimed(row, current, amount)]
      /\ UNCHANGED <<issuanceVars, led_price, products>>

LemClaimed(row, current, amount) ==
  [row EXCEPT !.last_claim_lem_reward = current, !.lem_rewards = @ + amount]

\* claimlem(owner, product_name): issue_lem runs even if nothing is due.
claimlem(owner, id) ==
  LET row == stakings[owner][id]
      end == RewardsEnd(now, row)
      amount == LemReward(row.balance, SignedSeconds(LemSeconds(row.last_claim_lem_reward, end)))
  IN  /\ Holds(owner, id)
      /\ products[id].offer.has_lem_rewards
      /\ IssueAndPayLem(amount)
      /\ stakings' = IF amount > 0
                     THEN [stakings EXCEPT ![owner][id] = LemClaimed(row, end, amount)]
                     ELSE stakings
      /\ UNCHANGED <<now, led_price, products, ledVars>>

\* changeyield(owner, product_name, yield, memo), called by the manager.
changeyield(owner, id, yield) ==
  LET terms == products[id].offer
  IN  /\ Holds(owner, id)
      /\ terms.minimum_yield <= yield /\ yield <= terms.maximum_yield
      /\ stakings' = [stakings EXCEPT ![owner][id].current_yield = yield]
      /\ UNCHANGED <<issuanceVars, led_price, products, ledVars>>

-----------------------------------------------------------------------------
Init ==
  /\ IssuanceInit
  /\ led_price = 0
  /\ products = [id \in ProductIds |-> NoProduct]
  /\ stakings = [u \in Users |-> [id \in ProductIds |-> NoStaking]]
  /\ wallet = [u \in Users |-> Funds]
  /\ vault = Reserve

\* The operations of module Issuance leave the deposits alone.
Emission == IssuanceNext /\ UNCHANGED <<led_price, products, stakings, ledVars>>

Next ==
  \/ Emission
  \/ \E p \in LedPrices : setledprice(p)
  \/ \E new \in Catalogue : addproduct(new)
  \/ \E id \in ProductIds : rmproduct(id)
  \/ \E u \in Users, id \in ProductIds :
       \/ \E q \in Quantities, p \in Predictions : stake(u, q, id, p)
       \/ unstake(u, id)
       \/ claimled(u, id)
       \/ claimlem(u, id)
       \/ \E y \in Yields : changeyield(u, id, y)

Spec == Init /\ [][Next]_vars

-----------------------------------------------------------------------------
(***************************************************************************)
(* Properties                                                              *)
(***************************************************************************)
\* The tables and balances have their types.
TypeOK ==
  /\ IssuanceTypeOK
  /\ led_price \in Nat
  /\ products \in [ProductIds -> product]
  /\ stakings \in [Users -> [ProductIds -> staking]]
  /\ wallet \in [Users -> Nat]
  /\ vault \in Nat

\* The products table agrees with the stakings tables of all owners: its
\* totals are the sums of their balances and its buyers are who holds it.
\* rmproduct and the total limit rely on it.
ProductsMatchStakings ==
  \A id \in ProductIds :
    /\ products[id].current_amount = Total([u \in Users |-> stakings[u][id].balance])
    /\ products[id].buyers = {u \in Users : stakings[u][id].balance > 0}

\* Every deposit belongs to the product it was made in, on that product's
\* terms: the product is still there, and no other has taken over its key.
DepositsKeepTheirTerms ==
  \A u \in Users, id \in ProductIds :
    LET row == stakings[u][id]
        terms == products[id].offer
    IN  row.balance > 0 =>
          /\ Offered(id)
          /\ row.ended_at = IF terms.duration = 0 THEN 0
                            ELSE row.started_at + Day * terms.duration
          /\ terms.minimum_yield <= row.current_yield
          /\ row.current_yield <= terms.maximum_yield
          /\ row.price_prediction # "none" => terms.has_prediction

\* No sequence of deposits, top-ups and withdrawals exceeds a limit.
LimitsRespected ==
  \A id \in Offers :
    LET terms == products[id].offer
    IN  /\ terms.maximum_amount_limit # 0 =>
             products[id].current_amount <= terms.maximum_amount_limit
        /\ terms.amount_per_account # 0 =>
             \A u \in Users : stakings[u][id].balance <= terms.amount_per_account

\* However a holder splits the claims, and whenever the manager changes the
\* yield in between, the LED received so far on a deposit is at most its
\* interest at the maximum yield, and not for any time after its term.
ClaimsWithinInterest ==
  \A u \in Users, id \in ProductIds :
    LET row == stakings[u][id]
    IN  Holds(u, id) =>
          /\ row.led_rewards <= Interest(row.balance, products[id].offer.maximum_yield,
                                         row.last_claim_led_reward - row.started_at)
          /\ row.ended_at # 0 => row.last_claim_led_reward <= row.ended_at

\* Who unstakes.
Unstakes(u, id) == stakings[u][id].balance > 0 /\ stakings'[u][id].balance = 0

\* README.md: unstake pays principal and interest, less the rewards that were
\* received before; so what unstake pays is at least the principal.
UnstakeReturnsPrincipal ==
  [][\A u \in Users, id \in ProductIds :
       Unstakes(u, id) => wallet'[u] - wallet[u] >= stakings[u][id].balance]_vars

\* LEM rewards are paid at the rate of the first era at most: over the life of
\* a deposit, what was claimed and what is paid now is no more than the rate
\* times the time since the deposit.
LemAtTheRate ==
  [][\A u \in Users, id \in ProductIds :
       LET row == stakings[u][id]
           paid == lem'.balance["users"] - lem.balance["users"]
       IN  (stakings'[u][id] # row /\ row.balance > 0) =>
             row.lem_rewards + paid <= LemReward(row.balance, now - row.started_at)]_vars

=============================================================================
