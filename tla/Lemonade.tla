----------------------------- MODULE Lemonade -----------------------------
(***************************************************************************)
(* The deployed contract: games (module Betting) and deposits (module      *)
(* Staking, with the emission) on one clock, one configs row and one LED   *)
(* balance, and transfer_event, which a led.token transfer to the contract *)
(* runs and which finds out from the memo what the transfer is for.        *)
(*                                                                         *)
(* A memo is the sequence of its fields, the texts between its slashes.    *)
(* is_dex_open is FALSE in this build: transfers to the DEX fail.          *)
(***************************************************************************)
EXTENDS Staking, Sequences, TLC

CONSTANTS
  MaxBetId,   \* bound: primary keys of the bettings table are 0..MaxBetId
  Schedules,  \* bound: <<started_at, betting_ended_at, ended_at>> of createbet
  Prices,     \* BTC prices the manager may post
  U64,        \* 2^64
  Memos       \* memos of the transfers to the contract

ASSUME LemonadeAssumption ==
  /\ MaxBetId \in Nat
  /\ Schedules \subseteq Nat \X Nat \X Nat
  /\ Prices \subseteq Nat
  /\ U64 \in Nat \ {0}
  /\ Memos \subseteq Seq(STRING) \ {<<>>}

VARIABLES
  btc_price,  \* configs row: btc_price
  bettings    \* the bettings table

Games == INSTANCE Betting

gameVars == <<btc_price, bettings>>
depositVars == <<issuanceVars, led_price, products, stakings>>
allVars == <<vars, gameVars>>

-----------------------------------------------------------------------------
\* memoParser(memo): without a slash the whole memo is both fields.
memoParser(memo) == IF Len(memo) = 1 THEN <<memo[1], memo[1]>> ELSE memo

\* The third field of a stake memo, if there is one, as a name.
PredictionOf(event) ==
  IF Len(event) < 3 THEN "none"
  ELSE IF event[3] \in Predictions THEN event[3] ELSE "other"

\* The position of a bet.  event[2] is read past the end of a vector of two
\* fields: whatever string is found there, or none, and the transfer fails.
PositionsOf(event) == IF Len(event) < 3 THEN Games!Sides ELSE Games!Sides \cap {event[3]}

\* transfer_event: "stake/<product>" or "stake/<product>/<prediction>".
StakeTransfer(from, quantity, event) ==
  /\ event[1] = "stake"
  /\ \E id \in Offers :
       /\ products[id].offer.name = event[2]
       /\ stake(from, quantity, id, PredictionOf(event))
  /\ UNCHANGED gameVars

\* transfer_event: "bet/<id>/<position>"; stoull throws if there is no number.
BetTransfer(from, quantity, event) ==
  /\ event[1] = "bet"
  /\ \E id \in Games!BetIds, position \in PositionsOf(event) :
       /\ ToString(id) = event[2]
       /\ Games!bet(from, quantity, id, position)
  /\ UNCHANGED depositVars

Verbs == {"stake", "bet", "deposit", "exchange"}

\* transfer_event: with any other memo the contract just keeps the LED.
PlainTransfer(from, quantity, event) ==
  /\ event[1] \notin Verbs
  /\ MoveLed(from, quantity, 0)
  /\ UNCHANGED <<depositVars, gameVars>>

\* A led.token transfer to the contract and transfer_event(from, to, quantity, memo).
transfer_event(from, quantity, memo) ==
  LET event == memoParser(memo)
  IN  \/ StakeTransfer(from, quantity, event)
      \/ BetTransfer(from, quantity, event)
      \/ PlainTransfer(from, quantity, event)

-----------------------------------------------------------------------------
LemonadeInit == Init /\ btc_price = 0 /\ bettings = [i \in Games!BetIds |-> Games!NoRow]

\* setbtcprice and setbet need the configs row.
GameOperations ==
  /\ UNCHANGED depositVars
  /\ \/ configs.is_active /\ \E p \in Prices : Games!setbtcprice(p)
     \/ \E t \in Schedules : Games!createbet(t[1], t[2], t[3])
     \/ \E id \in Games!BetIds :
          \/ configs.is_active /\ Games!setbet(id)
          \/ Games!claimbet(id)
          \/ Games!rmbet(id)

DepositOperations ==
  /\ UNCHANGED gameVars
  /\ \/ Emission
     \/ \E p \in LedPrices : setledprice(p)
     \/ \E new \in Catalogue : addproduct(new)
     \/ \E id \in ProductIds : rmproduct(id)
     \/ \E u \in Users, id \in ProductIds :
          \/ unstake(u, id) \/ claimled(u, id) \/ claimlem(u, id)
          \/ \E y \in Yields : changeyield(u, id, y)

LemonadeNext ==
  \/ GameOperations
  \/ DepositOperations
  \/ \E u \in Users, q \in Quantities, memo \in Memos : transfer_event(u, q, memo)

LemonadeSpec == LemonadeInit /\ [][LemonadeNext]_allVars

-----------------------------------------------------------------------------
(***************************************************************************)
(* Properties                                                              *)
(***************************************************************************)
\* The LED the contract account owes: stakes of unsettled games, and principal.
Pots == Total([id \in Games!BetIds |-> Games!Pot(bettings[id])])
Principals == Total([id \in ProductIds |-> products[id].current_amount])
Uncommitted == vault - Pots - Principals

\* The most interest a deposit may still bring: at the maximum yield until now,
\* less what was paid of it.
InterestLeft(u, id) ==
  Interest(stakings[u][id].balance, products[id].offer.maximum_yield,
           now - stakings[u][id].started_at) - stakings[u][id].led_rewards

PaidInterest(u) ==
  [id \in ProductIds |-> IF stakings'[u][id] # stakings[u][id] THEN InterestLeft(u, id) ELSE 0]

\* The one LED balance holds the pots of all games and the principals of all
\* owners.  Whatever the order of transfers, settlements, refunds, claims,
\* top-ups and withdrawals, a step takes no more out of it than it takes off a
\* pot or a principal, but for interest on a deposit it touches: games pay for
\* nothing else, and interest never exceeds that of the time that has passed,
\* claims made before included.
UncommittedPaysInterestOnly ==
  [][Uncommitted' >= Uncommitted - Total([u \in Users |-> Total(PaidInterest(u))])]_allVars

\* What the tables say an account has in games and deposits.
Owed(u) ==
  Total([id \in Games!BetIds |-> IF bettings[id].status \in Games!Unsettled
                                 THEN Games!Staked(bettings[id])[u] ELSE 0])
  + Total([id \in ProductIds |-> stakings[u][id].balance])

LosesBet(u) ==
  \E id \in Games!BetIds :
    /\ bettings[id].status = "NOT_CLAIMED" /\ bettings'[id].status = "FINISHED"
    /\ u \in Games!Betters(bettings[id], Games!Other(Games!WinSide(bettings[id])))

SendsPlainLed(u) ==
  \E q \in Quantities, memo \in Memos : PlainTransfer(u, q, memoParser(memo))

\* With yields that do not change, an account's LED, what it has in games and
\* deposits included, becomes less only when it loses a bet or when it sends LED
\* with a memo that has no verb.  So every transfer that is accepted for a game
\* or a deposit is recorded in full in its sender's name, nobody's row is
\* overwritten or dropped, and a refund or a withdrawal brings all of it back.
LedLostOnlyInBets ==
  [][\A u \in Users :
       wallet'[u] + Owed(u)' < wallet[u] + Owed(u) => LosesBet(u) \/ SendsPlainLed(u)]_allVars

=============================================================================
