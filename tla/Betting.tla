------------------------------ MODULE Betting ------------------------------
(***************************************************************************)
(* The parimutuel betting games of the lemonade contract: createbet,       *)
(* setbet, bet (run by the transfer notification), claimbet and rmbet,     *)
(* with the BTC price they read and the LED they move.                     *)
(*                                                                         *)
(* Every contract action runs in one transaction with the led.token        *)
(* transfers it sends: if a check or an inline transfer fails, all of it   *)
(* is rolled back.  One TLA+ action is therefore one whole transaction.    *)
(* Users act in any order; createbet, setbet, claimbet and rmbet need the  *)
(* authority of the contract account (the manager).                        *)
(***************************************************************************)
EXTENDS Integers, FiniteSets, Amounts

CONSTANTS
  Users,       \* accounts that bet; the contract account is not one of them
  MaxBetId,    \* bound: primary keys of the bettings table are 0..MaxBetId
  Quantities,  \* amounts a bet may carry
  Schedules,   \* bound: <<started_at, betting_ended_at, ended_at>> of createbet
  MaxTime,     \* bound: the clock stops at MaxTime
  Prices,      \* BTC prices the manager may post
  Funds,       \* LED of each user at the start
  Reserve,     \* LED the contract account holds for other purposes
  U64          \* 2^64: products of two amounts are computed modulo this

ASSUME BettingAssumption ==
  /\ IsFiniteSet(Users)
  /\ MaxBetId \in Nat
  /\ Quantities \subseteq Nat \ {0}
  /\ Schedules \subseteq Nat \X Nat \X Nat
  /\ MaxTime \in Nat
  /\ Prices \subseteq Nat
  /\ Funds \in Nat
  /\ Reserve \in Nat
  /\ U64 \in Nat \ {0}

VARIABLES
  now,        \* head block time in seconds
  btc_price,  \* configs row: btc_price
  bettings,   \* the bettings table
  wallet,     \* led.token: LED balance of each user
  vault       \* led.token: LED balance of the contract account

vars == <<now, btc_price, bettings, wallet, vault>>

BetIds == 0 .. MaxBetId
Sides == {"long", "short"}
Other(side) == IF side = "long" THEN "short" ELSE "long"

-----------------------------------------------------------------------------
(***************************************************************************)
(* A row of the bettings table.  The vectors long_betters/short_betters    *)
(* are betters[side], a function that is 0 for an account not in the       *)
(* vector: bet() refuses an account that is already in one of the vectors. *)
(* A dividend (total / side * 0.95, a double) is kept as the pair          *)
(* <<total, side>>.  Status "ABSENT" marks an id without a row.            *)
(***************************************************************************)
Statuses == {"NOT_STARTED", "IS_LIVE", "BETTING_FINISH", "NOT_CLAIMED",
             "FINISHED", "NO_GAME"}

betting == [status           : Statuses \cup {"ABSENT"},
            base_price       : Nat,
            final_price      : Nat,
            betters          : [Sides -> [Users -> Nat]],
            amount           : [Sides -> Nat],
            dividend         : [Sides -> Nat \X (Nat \ {0})],
            started_at       : Nat,
            betting_ended_at : Nat,
            ended_at         : Nat]

NoBets == [s \in Sides |-> [u \in Users |-> 0]]

NewBet(started, betting_ended, ended) ==
  [status |-> "NOT_STARTED", base_price |-> 0, final_price |-> 0,
   betters |-> NoBets, amount |-> [s \in Sides |-> 0],
   dividend |-> [s \in Sides |-> <<0, 1>>], started_at |-> started,
   betting_ended_at |-> betting_ended, ended_at |-> ended]

NoRow == [NewBet(0, 0, 0) EXCEPT !.status = "ABSENT"]

Rows == {i \in BetIds : bettings[i].status # "ABSENT"}

\* Mutant of AvailableKey: the number of rows is taken for the next key.
AvailableKeyByCount == Cardinality(Rows)

\* multi_index::available_primary_key(): one more than the last row's key.
AvailableKey == IF Rows = {} THEN 0
                ELSE 1 + CHOOSE i \in Rows : \A j \in Rows : j <= i

\* Whoever the betting row lists on a side.
Betters(game, side) == {u \in Users : game.betters[side][u] > 0}

(***************************************************************************)
(* led.token transfers from the contract account.  Several inline          *)
(* transfers of one action are one payment: pays[u] is what u receives.    *)
(* led.token refuses to overdraw, and the whole transaction fails with it. *)
(***************************************************************************)
Pay(pays) ==
  /\ Total(pays) <= vault
  /\ vault' = vault - Total(pays)
  /\ wallet' = [u \in Users |-> wallet[u] + pays[u]]

-----------------------------------------------------------------------------
\* setbtcprice(price): the price the next setbet reads.
setbtcprice(price) ==
  /\ btc_price' = price
  /\ UNCHANGED <<now, bettings, wallet, vault>>

\* createbet(started_at, betting_ended_at, ended_at)
createbet(started, betting_ended, ended) ==
  /\ started <= betting_ended /\ betting_ended <= ended
  /\ now <= started
  /\ AvailableKey <= MaxBetId
  /\ bettings' = [bettings EXCEPT
                    ![AvailableKey] = NewBet(started, betting_ended, ended)]
  /\ UNCHANGED <<now, btc_price, wallet, vault>>

\* setbet(id, IS_LIVE): the price at the start becomes the base price.
SetLive(id) ==
  /\ bettings[id].status = "NOT_STARTED"
  /\ bettings[id].started_at <= now
  /\ bettings' = [bettings EXCEPT ![id].status = "IS_LIVE",
                                  ![id].base_price = btc_price]
  /\ UNCHANGED <<now, btc_price, wallet, vault>>

MayFinishBetting(id) ==
  /\ bettings[id].status = "IS_LIVE"
  /\ bettings[id].betting_ended_at <= now

\* Mutant of TwoSided: a game with betters on one side only is played.
AnySided(game) == Betters(game, "long") # {} \/ Betters(game, "short") # {}

TwoSided(game) == Betters(game, "long") # {} /\ Betters(game, "short") # {}

\* setbet(id, BETTING_FINISH) when both sides have betters.
SetBettingFinish(id) ==
  /\ MayFinishBetting(id)
  /\ TwoSided(bettings[id])
  /\ bettings' = [bettings EXCEPT ![id].status = "BETTING_FINISH"]
  /\ UNCHANGED <<now, btc_price, wallet, vault>>

\* Mutant of Refund: only the short side gets its bets back.
RefundShortOnly(game) == [u \in Users |-> game.betters["short"][u]]

\* What the two refund loops send: everything the side that has betters put in.
Refund(game) == [u \in Users |-> game.betters["short"][u] + game.betters["long"][u]]

\* setbet(id, BETTING_FINISH) when a side is empty: refund, no game.
SetNoGame(id) ==
  /\ MayFinishBetting(id)
  /\ ~TwoSided(bettings[id])
  /\ Pay(Refund(bettings[id]))
  /\ bettings' = [bettings EXCEPT ![id].status = "NO_GAME",
                                  ![id].final_price = btc_price]
  /\ UNCHANGED <<now, btc_price>>

\* setbet(id, NOT_CLAIMED): the price after the end becomes the final price.
SetNotClaimed(id) ==
  /\ bettings[id].status = "BETTING_FINISH"
  /\ bettings[id].ended_at <= now
  /\ bettings' = [bettings EXCEPT ![id].status = "NOT_CLAIMED",
                                  ![id].final_price = btc_price]
  /\ UNCHANGED <<now, btc_price, wallet, vault>>

\* setbet with any other accepted status (NO_GAME, 6..255) changes nothing.

-----------------------------------------------------------------------------
\* Mutant of AlreadyBet: only the side of the new bet is searched.
AlreadyBetSameSide(game, owner, position) == owner \in Betters(game, position)

\* long_better_exists(owner) || short_better_exists(owner)
AlreadyBet(game, owner, position) == \E s \in Sides : owner \in Betters(game, s)

\* Mutant of Dividend: a side without bets is divided by.
DividendUnguarded(total, side_amount) == <<total, side_amount>>

Dividend(total, side_amount) ==
  IF side_amount = 0 THEN <<0, 1>> ELSE <<total, side_amount>>

\* Mutant of AddBetter: the bet is listed, the side's amount forgotten.
AddBetterOnly(game, owner, quantity, position) ==
  [game EXCEPT !.betters[position][owner] = quantity]

\* The row bet() writes: one more better, new totals, new dividends.
AddBetter(game, owner, quantity, position) ==
  LET amount == [game.amount EXCEPT ![position] = @ + quantity]
      total == amount["long"] + amount["short"]
  IN  [game EXCEPT !.betters[position][owner] = quantity,
                   !.amount = amount,
                   !.dividend = [s \in Sides |-> Dividend(total, amount[s])]]

\* bet(owner, quantity, id, position): a led.token transfer with the memo
\* "bet/<id>/<position>" moves the LED and notifies the contract.
bet(owner, quantity, id, position) ==
  /\ wallet[owner] >= quantity
  /\ ~AlreadyBet(bettings[id], owner, position)
  /\ bettings[id].status = "IS_LIVE"
  /\ now <= bettings[id].betting_ended_at
  /\ bettings' = [bettings EXCEPT ![id] = AddBetter(@, owner, quantity, position)]
  /\ wallet' = [wallet EXCEPT ![owner] = @ - quantity]
  /\ vault' = vault + quantity
  /\ UNCHANGED <<now, btc_price>>

\* Ties go to the short side.
WinSide(game) == IF game.base_price >= game.final_price THEN "short" ELSE "long"

\* x * betting_ratio (0.95), as the double is truncated to whole units.
BettingRatio(x) == (x * 19) \div 20

\* Mutant of Share: the division is done before the multiplication.
ShareDividedFirst(quantity, losers_total, winners_total) ==
  BettingRatio(((quantity \div winners_total) * losers_total) % U64)

\* Mutant of Share: the pot is shared instead of what the losers put in.
ShareOfPot(quantity, losers_total, winners_total) ==
  BettingRatio(((quantity * (losers_total + winners_total)) % U64) \div winners_total)

\* The winner's share of the losers' total: the product wraps at U64.
Share(quantity, losers_total, winners_total) ==
  BettingRatio(((quantity * losers_total) % U64) \div winners_total)

Payout(game) ==
  LET win == WinSide(game)
  IN  [u \in Users |->
         IF u \in Betters(game, win)
         THEN game.betters[win][u] + Share(game.betters[win][u],
                                           game.amount[Other(win)],
                                           game.amount[win])
         ELSE 0]

\* Mutant of claimbet: the game is not marked FINISHED.
claimbet_repeatable(id) ==
  /\ bettings[id].status = "NOT_CLAIMED"
  /\ bettings[id].ended_at <= now
  /\ TwoSided(bettings[id])
  /\ Pay(Payout(bettings[id]))
  /\ UNCHANGED <<now, btc_price, bettings>>

\* claimbet(id)
claimbet(id) ==
  /\ bettings[id].status = "NOT_CLAIMED"
  /\ bettings[id].ended_at <= now
  /\ TwoSided(bettings[id])
  /\ Pay(Payout(bettings[id]))
  /\ bettings' = [bettings EXCEPT ![id].status = "FINISHED"]
  /\ UNCHANGED <<now, btc_price>>

\* rmbet(id)
rmbet(id) ==
  /\ bettings[id].status = "FINISHED"
  /\ bettings' = [bettings EXCEPT ![id] = NoRow]
  /\ UNCHANGED <<now, btc_price, wallet, vault>>

\* Blocks are produced: head block time only grows.
Tick ==
  /\ now < MaxTime
  /\ now' = now + 1
  /\ UNCHANGED <<btc_price, bettings, wallet, vault>>

-----------------------------------------------------------------------------
\* After init(): a configs row with btc_price 0, and no games.
Init ==
  /\ now = 0
  /\ btc_price = 0
  /\ bettings = [i \in BetIds |-> NoRow]
  /\ wallet = [u \in Users |-> Funds]
  /\ vault = Reserve

setbet(id) ==
  SetLive(id) \/ SetBettingFinish(id) \/ SetNoGame(id) \/ SetNotClaimed(id)

Next ==
  \/ Tick
  \/ \E p \in Prices : setbtcprice(p)
  \/ \E t \in Schedules : createbet(t[1], t[2], t[3])
  \/ \E id \in BetIds : setbet(id) \/ claimbet(id) \/ rmbet(id)
  \/ \E u \in Users, q \in Quantities, id \in BetIds, s \in Sides : bet(u, q, id, s)

Spec == Init /\ [][Next]_vars

\* The manager's service advances every game as soon as its times allow.
FairSpec ==
  /\ Spec
  /\ WF_vars(Tick)
  /\ \A id \in BetIds : WF_vars(setbet(id)) /\ WF_vars(claimbet(id))

-----------------------------------------------------------------------------
(***************************************************************************)
(* Properties                                                              *)
(***************************************************************************)
\* Every variable has its type; no dividend was computed by dividing by 0.
TypeOK ==
  /\ now \in Nat
  /\ btc_price \in Nat
  /\ bettings \in [BetIds -> betting]
  /\ wallet \in [Users -> Nat]
  /\ vault \in Nat

\* The totals long_betting_amount and short_betting_amount, which the payouts
\* divide by, are the sums of the bets the two vectors list.
AmountsMatchBetters ==
  \A id \in BetIds, s \in Sides :
    bettings[id].amount[s] = Total(bettings[id].betters[s])

\* No account has bet on both outcomes of a game.
OnePosition ==
  \A id \in BetIds :
    Betters(bettings[id], "long") \cap Betters(bettings[id], "short") = {}

\* The stakes a game still holds: it is neither settled nor refunded.
Unsettled == {"IS_LIVE", "BETTING_FINISH", "NOT_CLAIMED"}
Pot(game) == IF game.status \in Unsettled
             THEN game.amount["long"] + game.amount["short"]
             ELSE 0

\* The contract account always holds, on top of its other funds, the stakes
\* of every game that is still to be settled: paying or refunding one game
\* never spends what the betters of another are owed.
Solvency == vault >= Reserve + Total([id \in BetIds |-> Pot(bettings[id])])

\* A game that waits for claimbet can be claimed: it has betters on both
\* sides, and what its winners are due is within the game's own pot (and so,
\* by Solvency, within the contract's balance, whatever else is going on).
ClaimNeverBlocked ==
  \A id \in BetIds :
    bettings[id].status = "NOT_CLAIMED" =>
      /\ \A s \in Sides : Betters(bettings[id], s) # {}
      /\ Total(Payout(bettings[id])) <= Pot(bettings[id])

\* A settled game pays each winner the dividend the row advertised when the
\* last bet came in, up to the rounding of two units, and never more than the
\* side's share of the pot; whoever bet on the other side gets nothing.
WinnersGetDividend ==
  \A id \in BetIds :
    (bettings[id].status = "NOT_CLAIMED" /\ bettings'[id].status = "FINISHED") =>
      LET game == bettings[id]
          win == WinSide(game)
          total == game.dividend[win][1]
          side_amount == game.dividend[win][2]
      IN  \A u \in Users :
            LET paid == wallet'[u] - wallet[u]
                stake == game.betters[win][u]
            IN  /\ 20 * side_amount * (paid + 2) > 19 * stake * total
                /\ side_amount * paid <= stake * total
WinnersGetAdvertisedDividend == [][WinnersGetDividend]_vars

\* Every account gets its bet back when its game finds no counterparty, and a
\* game is only ever removed after a payout or a refund: the betting games
\* implement an escrow (module BettingEscrow).
EscrowPhase(game) ==
  CASE game.status \in {"ABSENT", "NOT_STARTED"} -> "idle"
    [] game.status = "IS_LIVE" -> "open"
    [] game.status \in {"BETTING_FINISH", "NOT_CLAIMED"} -> "locked"
    [] game.status \in {"FINISHED", "NO_GAME"} -> "settled"

EscrowPhases == [id \in BetIds |-> EscrowPhase(bettings[id])]

Staked(game) == [u \in Users |-> game.betters["long"][u] + game.betters["short"][u]]
EscrowStakes == [id \in BetIds |-> Staked(bettings[id])]

Escrow == INSTANCE BettingEscrow WITH
  Ids <- BetIds, phase <- EscrowPhases, stake <- EscrowStakes

EscrowSpec == Escrow!Spec

\* Every game that took a bet is settled or refunded in the end.
EveryBetSettled ==
  \A id \in BetIds :
    (Pot(bettings[id]) > 0) ~> (bettings[id].status \in {"FINISHED", "NO_GAME"})

\* README.md: a game cannot be deleted if even one account has bet on it.
RemovedGamesHaveNoBettors ==
  [][\A id \in BetIds :
       (bettings[id].status # "ABSENT" /\ bettings'[id].status = "ABSENT") =>
         \A s \in Sides : Betters(bettings[id], s) = {}]_vars

=============================================================================
