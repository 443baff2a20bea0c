-------------------------------- MODULE Dex --------------------------------
(***************************************************************************)
(* The exchange of the lemonade contract (dex.cpp): pools of two tokens,   *)
(* the external balances users deposit, liquidity, swaps and the pool      *)
(* rewards the manager pays out.  Pool tokens are those of module LpToken; *)
(* clmpoolreward runs the issue_lem of module Issuance first, and LEM that *)
(* moves between users and the contract moves in the ledger of Issuance.   *)
(***************************************************************************)
EXTENDS Issuance, LpToken

CONSTANTS
  IsDexOpen,       \* is_dex_open: FALSE in the build that is deployed
  Traders,         \* bound: accounts with external balances; others hold pool tokens
  Pairs,           \* <<token, token>>: the pairs a pool is made for
  MaxFee,          \* bound: magnitude of the fees that are booked
  Deposits,        \* amounts that are deposited, withdrawn or put into a new pool
  Swaps,           \* amounts that are exchanged, negative ones included
  Limits,          \* magnitudes of the limits users name for what they pay or get
  FeeNum, FeeDen,  \* swap_fee is FeeNum / FeeDen
  CreationFee,     \* create_pool_fee: LEM
  DexLemReward,    \* DEX_LEM_REWARD
  PoolShares,      \* <<pool, total>>: the manager's arguments of clmpoolreward
  RewardInterval,  \* secondsPerDay - 3600
  INIT_MAX,        \* bound of the amounts a pool starts with
  MAX,             \* asset::max_amount
  Funds            \* units of each token that the users hold at the start

ASSUME DexAssumption ==
  /\ IsDexOpen \in BOOLEAN
  /\ Traders \subseteq Users
  /\ Pairs \subseteq Tokens \X Tokens
  /\ MaxFee \in Nat
  /\ Deposits \subseteq Nat \ {0} /\ Swaps \subseteq Int \ {0} /\ Limits \subseteq Nat
  /\ FeeNum \in Nat /\ FeeDen \in Nat \ {0} /\ FeeNum <= FeeDen
  /\ CreationFee \in Nat /\ DexLemReward \in Nat
  /\ PoolShares \subseteq Nat \X (Nat \ {0}) /\ \A s \in PoolShares : s[1] <= s[2]
  /\ RewardInterval \in Nat \ {0}
  /\ INIT_MAX \in Nat /\ MAX \in Nat
  /\ Funds \in [Tokens -> Nat]

VARIABLES
  dexacnts,     \* the dexacnts tables: dexacnts[user][token]
  swap_lists,   \* the swap_lists tables, as pairs <<scope, pair_symbol>>
  pool_lists,   \* the pool_lists table: lp symbols and their pairs
  lemindexes,   \* the lemindexes table: lp symbols and their unordered pairs
  poolrewards,  \* the poolrewards table: when a pair was last rewarded
  ledger        \* led.token, all tokens but LEM: the contract's and the users' part

listVars == <<swap_lists, pool_lists, lemindexes>>
vars == <<issuanceVars, lpVars, dexacnts, listVars, poolrewards, ledger>>

pool_reward == [exists : BOOLEAN, last_reward : Nat]
NoPoolReward == [exists |-> FALSE, last_reward |-> 0]

OtherTokens == Tokens \ {"LEM"}
PairOf(symbols) == {symbols[1], symbols[2]}

-----------------------------------------------------------------------------
\* led.token: what the contract and the users hold of a token.
Held(t) == IF t = "LEM" THEN lem.balance["self"] ELSE ledger[t].self
Outside(t) == IF t = "LEM" THEN lem.balance["users"] ELSE ledger[t].users

\* Amounts of one token, and of two.
Only(t, x) == [s \in Tokens |-> IF s = t THEN x ELSE 0]
Both(t, x, s, y) == [r \in Tokens |-> IF r = t THEN x ELSE IF r = s THEN y ELSE 0]

\* led.token transfers: flow[t] units move to the contract, or back to the users.
MoveTokens(flow) ==
  /\ \A t \in Tokens : -flow[t] <= Held(t) /\ flow[t] <= Outside(t)
  /\ ledger' = [t \in OtherTokens |-> [self  |-> ledger[t].self + flow[t],
                                       users |-> ledger[t].users - flow[t]]]
  /\ lem' = [lem EXCEPT !.balance["self"] = @ + flow["LEM"],
                        !.balance["users"] = @ - flow["LEM"]]

\* add_signed_ext_balance(user, to_add), once for each token in `touched`.
add_signed_ext_balance(user, touched, to_add) ==
  /\ \A t \in touched : dexacnts[user][t].balance + to_add[t] >= 0
  /\ dexacnts' = [dexacnts EXCEPT ![user] = [t \in Tokens |->
       IF t \in touched THEN Holding(@[t].balance + to_add[t]) ELSE @[t]]]

\* openext(user, ext_symbol): nothing happens if the row is there.
openext(user, t) ==
  /\ IsDexOpen
  /\ ~dexacnts[user][t].open
  /\ dexacnts' = [dexacnts EXCEPT ![user][t] = Holding(0)]
  /\ UNCHANGED <<issuanceVars, lpVars, listVars, poolrewards, ledger>>

\* closeext(user, to, ext_symbol): what is left is sent to some account.
closeext(user, t) ==
  /\ IsDexOpen
  /\ dexacnts[user][t].open
  /\ MoveTokens(Only(t, -dexacnts[user][t].balance))
  /\ dexacnts' = [dexacnts EXCEPT ![user][t] = NoHolding]
  /\ UNCHANGED <<now, configs, lpVars, listVars, poolrewards>>

\* A transfer to the contract with the memo "deposit".
deposit(user, t, amount) ==
  /\ IsDexOpen
  /\ MoveTokens(Only(t, amount))
  /\ add_signed_ext_balance(user, {t}, Only(t, amount))
  /\ UNCHANGED <<now, configs, lpVars, listVars, poolrewards>>

\* withdraw(user, to, to_withdraw)
withdraw(user, t, amount) ==
  /\ IsDexOpen
  /\ MoveTokens(Only(t, -amount))
  /\ add_signed_ext_balance(user, {t}, Only(t, -amount))
  /\ UNCHANGED <<now, configs, lpVars, listVars, poolrewards>>

-----------------------------------------------------------------------------
\* Mutant of Quotient: what is to be paid is rounded down as well.
QuotientDown(x, y, z) == IF x > 0 THEN (x * y) \div z ELSE -((-(x * y)) \div z)

\* x * y / z: rounded up for what is to be paid (x > 0), to 0 for what is
\* received.
Quotient(x, y, z) ==
  IF x > 0 THEN 1 + (x * y - 1) \div z ELSE -((-(x * y)) \div z)

\* The checks of compute(x, y, z).
Computable(x, y, z) ==
  /\ x # 0 /\ y > 0 /\ z > 0
  /\ -MAX <= Quotient(x, y, z) /\ Quotient(x, y, z) <= MAX

\* The largest integer whose square is at most n.
FloorSqrt(n) == CHOOSE r \in 0 .. n : r * r <= n /\ n < (r + 1) * (r + 1)

NewStats(t, x, s, y) ==
  [exists |-> TRUE, supply |-> FloorSqrt(x * y), symbols |-> <<t, s>>,
   pool |-> Both(t, x, s, y), fee |-> NoAmounts]

PoolList(lp, symbols) == [lp_symbol |-> lp, symbols |-> symbols]
Index(lp, symbols) == [lp_symbol |-> lp, pair |-> PairOf(symbols)]
Swappable(symbols) == {<<symbols[1], symbols[2]>>, <<symbols[2], symbols[1]>>}

\* The check of placeindex.
Indexed(symbols) == \E i \in lemindexes : i.pair = PairOf(symbols)

\* inittoken(user, new_symbol, initial_pool1, initial_pool2): the pools and the
\* creation fee come out of the user's external balances.
inittoken(user, lp, t, x, s, y) ==
  /\ IsDexOpen
  /\ x < INIT_MAX /\ y < INIT_MAX
  /\ t # s
  /\ ~stats[lp].exists
  /\ swap_lists \cap Swappable(<<t, s>>) = {}
  /\ ~ \E p \in pool_lists : p.lp_symbol = lp
  /\ ~Indexed(<<t, s>>)
  /\ add_signed_ext_balance(user, {t, s, "LEM"},
       [r \in Tokens |-> -Both(t, x, s, y)[r] - Only("LEM", CreationFee)[r]])
  /\ stats' = [stats EXCEPT ![lp] = NewStats(t, x, s, y)]
  /\ swap_lists' = swap_lists \cup Swappable(<<t, s>>)
  /\ pool_lists' = pool_lists \cup {PoolList(lp, <<t, s>>)}
  /\ lemindexes' = lemindexes \cup {Index(lp, <<t, s>>)}
  /\ add_balance(lp, user, FloorSqrt(x * y))
  /\ UNCHANGED <<issuanceVars, frozens, poolrewards, ledger>>

\* indexpair(user, lp_symbol)
indexpair(lp) ==
  /\ IsDexOpen
  /\ stats[lp].exists
  /\ ~Indexed(stats[lp].symbols)
  /\ lemindexes' = lemindexes \cup {Index(lp, stats[lp].symbols)}
  /\ UNCHANGED <<issuanceVars, lpVars, dexacnts, swap_lists, pool_lists, poolrewards, ledger>>

\* The accounts rows of everyone in user_infos are erased, then user_infos.
WithoutListed(lp) ==
  /\ user_infos' = [user_infos EXCEPT ![lp] = [u \in Users |-> NoHolding]]
  /\ accounts' = [accounts EXCEPT ![lp] = [u \in Users |->
                    IF user_infos[lp][u].open THEN NoHolding ELSE @[u]]]

\* Mutant of WithoutPair: one of the two swap_lists keeps its row.
WithoutFirstOfPair(symbols) == swap_lists \ {<<symbols[1], symbols[2]>>}

\* Both swap_lists without the pair.
WithoutPair(symbols) == swap_lists \ Swappable(symbols)

\* rmpool(user, lp_symbol), which any account may call.  It is refused while
\* somebody in user_infos has closed the accounts row.
rmpool(lp) ==
  LET symbols == stats[lp].symbols
  IN  /\ IsDexOpen
      /\ stats[lp].exists
      /\ \E p \in pool_lists : p.lp_symbol = lp
      /\ \E i \in lemindexes : i.lp_symbol = lp
      /\ Swappable(symbols) \subseteq swap_lists
      /\ \A u \in Users : user_infos[lp][u].open => accounts[lp][u].open
      /\ stats' = [stats EXCEPT ![lp] = NoStats]
      /\ pool_lists' = {p \in pool_lists : p.lp_symbol # lp}
      /\ lemindexes' = {i \in lemindexes : i.lp_symbol # lp}
      /\ swap_lists' = WithoutPair(symbols)
      /\ WithoutListed(lp)
      /\ UNCHANGED <<issuanceVars, frozens, dexacnts, poolrewards, ledger>>

-----------------------------------------------------------------------------
\* What each token of the pair costs for to_add pool tokens.
ToPay(row, to_add) ==
  [t \in Tokens |-> IF t \in PairOf(row.symbols)
                    THEN Quotient(to_add, row.pool[t], row.supply) ELSE 0]

\* The row after to_add pool tokens were bought, or sold if it is negative.
LiquidityAdded(row, to_add) ==
  [row EXCEPT !.supply = @ + to_add,
              !.pool = [t \in Tokens |-> row.pool[t] + ToPay(row, to_add)[t]]]

\* Mutant of KeepsSupply: the last check of add_signed_liq is missing.
KeepsAnySupply(row, to_add) == row.supply + to_add <= MAX

\* The supply neither overflows nor becomes 0.
KeepsSupply(row, to_add) == row.supply + to_add <= MAX /\ row.supply + to_add # 0

\* add_signed_liq but for add_balance or sub_balance; limit1 and limit2 are
\* the limits for the two tokens, in the order of the pair.
AddSignedLiq(user, lp, to_add, limit1, limit2) ==
  LET row == stats[lp]
      pay == ToPay(row, to_add)
  IN  /\ row.exists
      /\ \A t \in PairOf(row.symbols) : Computable(to_add, row.pool[t], row.supply)
      /\ pay[row.symbols[1]] <= limit1 /\ pay[row.symbols[2]] <= limit2
      /\ add_signed_ext_balance(user, PairOf(row.symbols), [t \in Tokens |-> -pay[t]])
      /\ stats' = [stats EXCEPT ![lp] = LiquidityAdded(row, to_add)]
      /\ KeepsSupply(row, to_add)
      /\ UNCHANGED <<issuanceVars, frozens, listVars, poolrewards, ledger>>

\* addliquidity(user, to_buy, max_asset1, max_asset2)
addliquidity(user, lp, to_buy, max1, max2) ==
  /\ IsDexOpen
  /\ AddSignedLiq(user, lp, to_buy, max1, max2)
  /\ add_balance(lp, user, to_buy)

\* rmliquidity(user, to_sell, min_asset1, min_asset2)
rmliquidity(user, lp, to_sell, min1, min2) ==
  /\ IsDexOpen
  /\ AddSignedLiq(user, lp, -to_sell, -min1, -min2)
  /\ sub_balance(lp, user, to_sell)

-----------------------------------------------------------------------------
\* A double that is stored into an int64_t: truncated towards 0.
Trunc(n, d) == IF n >= 0 THEN n \div d ELSE -((-n) \div d)

\* amount -= fee, and fee1 or fee2 += fee / 2, where fee is amount * swap_fee.
LessFee(amount) == Trunc(amount * (FeeDen - FeeNum), FeeDen)
FeePlusHalf(fee, amount) == Trunc(2 * FeeDen * fee + FeeNum * amount, 2 * FeeDen)

\* Mutant of AmountOut: the pool is not first increased by what comes in.
AmountOutOfOldPool(row, in, amount_in, out) ==
  -Quotient(-amount_in, row.pool[out], row.pool[in])

\* process_exch: what leaves the pool for amount_in; both are negative when an
\* exchange is made backwards.
AmountOut(row, in, amount_in, out) ==
  -Quotient(-amount_in, row.pool[out], row.pool[in] + amount_in)

\* process_exch: its checks.
Exchangeable(row, in, amount_in, out, min_expected) ==
  /\ row.exists
  /\ row.symbols \in {<<in, out>>, <<out, in>>}
  /\ Computable(-amount_in, row.pool[out], row.pool[in] + amount_in)
  /\ min_expected <= AmountOut(row, in, amount_in, out)

\* Bound on the fees; the code adds without a check.
FeeWithinBound(row, in, amount) == FeePlusHalf(row.fee[in], amount) \in -MaxFee .. MaxFee

\* Mutant of Exchanged: the pool is credited with the fee as well.
ExchangedFeeInPool(row, in, amount, out) ==
  [row EXCEPT !.fee[in] = FeePlusHalf(@, amount),
              !.pool[in] = @ + amount,
              !.pool[out] = @ - AmountOut(row, in, LessFee(amount), out)]

\* The row after an exchange of `amount`, the fee included.
Exchanged(row, in, amount, out) ==
  LET amount_in == LessFee(amount)
  IN  [row EXCEPT !.fee[in] = FeePlusHalf(@, amount),
                  !.pool[in] = @ + amount_in,
                  !.pool[out] = @ - AmountOut(row, in, amount_in, out)]

\* exchange(user, pair_token, ext_asset_in, min_expected): the user's external
\* balance is debited by the amount less the fee.
exchange(user, lp, in, amount, out, min_expected) ==
  LET row == stats[lp]
      amount_in == LessFee(amount)
  IN  /\ IsDexOpen
      /\ \/ amount > 0 /\ min_expected >= 0
         \/ amount < 0 /\ min_expected <= 0
      /\ Exchangeable(row, in, amount_in, out, min_expected)
      /\ FeeWithinBound(row, in, amount)
      /\ add_signed_ext_balance(user, {in, out},
           Both(in, -amount_in, out, AmountOut(row, in, amount_in, out)))
      /\ stats' = [stats EXCEPT ![lp] = Exchanged(row, in, amount, out)]
      /\ UNCHANGED <<issuanceVars, accounts, user_infos, frozens, listVars, poolrewards, ledger>>

\* exchangeall(user, pair_token, asset_in): whichever token comes in, pool2 is
\* what is expected at least.
exchangeall(user, lp, in) ==
  LET row == stats[lp]
  IN  /\ IsDexOpen
      /\ row.exists
      /\ in \in PairOf(row.symbols)
      /\ dexacnts[user][in].open
      /\ exchange(user, lp, in, dexacnts[user][in].balance,
                  row.symbols[2], row.pool[row.symbols[2]])

\* A transfer with the memo "exchange/<pair>/<min_expected>": memoexchange pays
\* from the pool to the sender; led.token refuses to transfer 0.
memoexchange(lp, in, amount, out, min_expected) ==
  LET row == stats[lp]
      amount_in == LessFee(amount)
      amount_out == AmountOut(row, in, amount_in, out)
  IN  /\ IsDexOpen
      /\ amount > 0 /\ min_expected >= 0
      /\ Exchangeable(row, in, amount_in, out, min_expected)
      /\ FeeWithinBound(row, in, amount)
      /\ amount_out > 0
      /\ MoveTokens(Both(in, amount, out, -amount_out))
      /\ stats' = [stats EXCEPT ![lp] = Exchanged(row, in, amount, out)]
      /\ UNCHANGED <<now, configs, accounts, user_infos, frozens, dexacnts, listVars, poolrewards>>

-----------------------------------------------------------------------------
\* Mutant of UserRatio: the share is rounded up.
UserRatioUp(lp, u) ==
  (user_infos[lp][u].balance + stats[lp].supply - 1) \div stats[lp].supply

\* user_ratio: a quotient of two integers.
UserRatio(lp, u) == user_infos[lp][u].balance \div stats[lp].supply

\* fee1_reward or fee2_reward, sent only if it is positive.
FeeReward(lp, t, u) ==
  IF stats[lp].fee[t] > 0 THEN stats[lp].fee[t] * UserRatio(lp, u) ELSE 0

\* fee3_reward: the pair's share of the LEM reward in the era of the config.
LemPoolReward(lp, share, u) ==
  (Halved(DexLemReward, ConfigAfterIssue.half_life_count) * share[1] * UserRatio(lp, u))
    \div share[2]

\* What clmpoolreward pays of each token, over the rows of user_infos.
PoolPayment(lp, share) ==
  [t \in Tokens |->
     Total([u \in Users |-> FeeReward(lp, t, u)])
       + IF t = "LEM" THEN Total([u \in Users |-> LemPoolReward(lp, share, u)]) ELSE 0]

\* The LEM ledger after issue_lem and the payment, and the other tokens.
PayPoolReward(pay) ==
  LET issued == LemAfterIssue
  IN  /\ configs' = ConfigAfterIssue
      /\ pay["LEM"] <= issued.balance["self"]
      /\ lem' = [issued EXCEPT !.balance["self"] = @ - pay["LEM"],
                               !.balance["users"] = @ + pay["LEM"]]
      /\ \A t \in OtherTokens : pay[t] <= ledger[t].self
      /\ ledger' = [t \in OtherTokens |-> [self  |-> ledger[t].self - pay[t],
                                           users |-> ledger[t].users + pay[t]]]

RewardDue(lp) ==
  poolrewards[lp].exists => now - poolrewards[lp].last_reward >= RewardInterval

\* clmpoolreward(pair_token_symbol, total, pool), called by the manager: the
\* fees are reset whether or not they were paid.
clmpoolreward(lp, share) ==
  /\ configs.is_active
  /\ stats[lp].exists
  /\ RewardDue(lp)
  /\ PayPoolReward(PoolPayment(lp, share))
  /\ stats' = [stats EXCEPT ![lp].fee = NoAmounts]
  /\ poolrewards' = [poolrewards EXCEPT ![lp] = [exists |-> TRUE, last_reward |-> now]]
  /\ UNCHANGED <<now, accounts, user_infos, frozens, dexacnts, listVars>>

-----------------------------------------------------------------------------
\* After init(), with tokens in the hands of the users.
Init ==
  /\ now = 0
  /\ configs = NewConfig(0)
  /\ lem = [supply |-> Funds["LEM"],
            balance |-> [a \in LemAccounts |-> IF a = "users" THEN Funds["LEM"] ELSE 0]]
  /\ LpTokenInit
  /\ dexacnts = [u \in Users |-> [t \in Tokens |-> NoHolding]]
  /\ swap_lists = {} /\ pool_lists = {} /\ lemindexes = {}
  /\ poolrewards = [lp \in LpSymbols |-> NoPoolReward]
  /\ ledger = [t \in OtherTokens |-> [self |-> 0, users |-> Funds[t]]]

\* The operations of the other two modules leave the exchange alone.
Emission == IssuanceNext /\ UNCHANGED <<lpVars, dexacnts, listVars, poolrewards, ledger>>
PoolTokens == LpTokenNext /\ UNCHANGED <<issuanceVars, dexacnts, listVars, poolrewards, ledger>>

ExternalBalances ==
  \E u \in Traders, t \in Tokens :
    \/ openext(u, t) \/ closeext(u, t)
    \/ \E q \in Deposits : deposit(u, t, q) \/ withdraw(u, t, q)

Pools ==
  \E lp \in LpSymbols :
    \/ rmpool(lp)
    \/ \E u \in Traders, p \in Pairs, x, y \in Deposits :
         inittoken(u, lp, p[1], x, p[2], y)
    \/ \E u \in Traders, q \in LpAmounts, l1, l2 \in Limits :
         addliquidity(u, lp, q, l1, l2) \/ rmliquidity(u, lp, q, l1, l2)

Exchanges ==
  \E lp \in LpSymbols, in, out \in Tokens, q \in Swaps, l \in Limits :
    \/ \E u \in Traders : exchange(u, lp, in, q, out, l) \/ exchange(u, lp, in, q, out, -l)
    \/ memoexchange(lp, in, q, out, l)

\* indexpair and exchangeall are never accepted (module DexProofs).
Next ==
  \/ Emission \/ PoolTokens \/ ExternalBalances \/ Pools \/ Exchanges
  \/ \E lp \in LpSymbols, share \in PoolShares : clmpoolreward(lp, share)

Spec == Init /\ [][Next]_vars

-----------------------------------------------------------------------------
(***************************************************************************)
(* Properties                                                              *)
(***************************************************************************)
\* The tables and balances have their types: no external balance, pool or
\* ledger account is ever overdrawn; a fee balance may be negative.
DexTypeOK ==
  /\ IssuanceTypeOK
  /\ LpTokenTypeOK
  /\ dexacnts \in [Users -> [Tokens -> holding]]
  /\ swap_lists \subseteq Tokens \X Tokens
  /\ \A p \in pool_lists : p.lp_symbol \in LpSymbols
  /\ \A i \in lemindexes : i.lp_symbol \in LpSymbols
  /\ poolrewards \in [LpSymbols -> pool_reward]
  /\ ledger \in [OtherTokens -> [self : Nat, users : Nat]]

LpRows == {lp \in LpSymbols : stats[lp].exists}

\* The four tables that are written by hand when a pool is made or removed say
\* the same as stats, and no two pools trade the same pair: rmpool and
\* inittoken under an old symbol or with the tokens swapped find what they
\* check for, and no pair is left that can be neither traded nor created.
RegistryConsistent ==
  /\ pool_lists = {PoolList(lp, stats[lp].symbols) : lp \in LpRows}
  /\ lemindexes = {Index(lp, stats[lp].symbols) : lp \in LpRows}
  /\ swap_lists = UNION {Swappable(stats[lp].symbols) : lp \in LpRows}
  /\ \A lp, other \in LpRows :
       PairOf(stats[lp].symbols) = PairOf(stats[other].symbols) => lp = other

\* No sequence of swaps in both directions, of liquidity bought and sold and of
\* pool tokens moved empties a pool or one side of it, which compute would
\* refuse to divide by from then on: what is left can always be traded.
PoolsNeverEmpty ==
  \A lp \in LpRows :
    /\ stats[lp].supply > 0
    /\ \A t \in Tokens : stats[lp].pool[t] > 0 <=> t \in PairOf(stats[lp].symbols)

\* The rounding of compute never favours the trader over the pool: a swap, in
\* whichever direction and with whatever remainder, does not lower the product
\* of the pools, and liquidity that is bought or sold leaves at least as much
\* of each token behind every remaining pool token.
ShareKeepsItsValue(lp) ==
  LET old == stats[lp]
      new == stats'[lp]
  IN  (old.exists /\ new.exists) =>
        IF new.supply = old.supply
        THEN \A t, s \in PairOf(old.symbols) :
               t # s => new.pool[t] * new.pool[s] >= old.pool[t] * old.pool[s]
        ELSE \A t \in PairOf(old.symbols) :
               new.pool[t] * old.supply >= old.pool[t] * new.supply
SharesNeverDiluted == [][\A lp \in LpSymbols : ShareKeepsItsValue(lp)]_vars

\* What the contract holds of a token over what it owes to external balances
\* and has in its pools.
External(t) == [u \in Users |-> dexacnts[u][t].balance]
Pooled(t) == [lp \in LpSymbols |-> stats[lp].pool[t]]
Surplus(t) == Held(t) - Total(External(t)) - Total(Pooled(t))

\* What a step may pay as pool rewards: the positive fees of the pairs that are
\* rewarded, and for LEM the reward of the pair.
Rewarded == {lp \in LpSymbols : poolrewards'[lp] # poolrewards[lp]}
RewardFees(t) ==
  [lp \in LpSymbols |-> IF lp \in Rewarded /\ stats[lp].fee[t] > 0
                        THEN stats[lp].fee[t] ELSE 0]
RewardBound(t) ==
  Total(RewardFees(t)) + IF t = "LEM" THEN Cardinality(Rewarded) * DexLemReward ELSE 0

\* Deposits, withdrawals, swaps of both kinds and changes of liquidity never
\* take more out of the contract than they take off an external balance or a
\* pool: the funds that back deposits, and the games and products that share
\* the account, pay for nothing but pool rewards, and for these no more than
\* the fees that were booked and the LEM reward of the pair.
SurplusPaysRewardsOnly ==
  [][\A t \in Tokens : Surplus(t)' >= Surplus(t) - RewardBound(t)]_vars

=============================================================================
