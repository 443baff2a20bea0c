--------------------------- MODULE BettingEscrow ---------------------------
(***************************************************************************)
(* What a betting game promises to the accounts that bet: an escrow.       *)
(* While a game is open it takes one stake per account; once it is locked  *)
(* it takes no more; it is settled once, out of its own pot, and can be    *)
(* removed only after that.  A game that was never locked gives every      *)
(* stake back.  A locked game pays some of its stakers, none of them less  *)
(* than the own stake.  Prices, sides, dividends and times do not appear.  *)
(***************************************************************************)
EXTENDS Integers, FiniteSets, Amounts

CONSTANTS
  Ids,      \* games
  Users,    \* accounts
  Funds,    \* units of each account at the start
  Reserve   \* units in the vault at the start

VARIABLES
  phase,    \* "idle", "open", "locked" or "settled" for each game
  stake,    \* what each account has staked on each game
  wallet,   \* units of each account
  vault     \* units the escrow holds

vars == <<phase, stake, wallet, vault>>

NoStakes == [u \in Users |-> 0]

Init ==
  /\ phase = [i \in Ids |-> "idle"]
  /\ stake = [i \in Ids |-> NoStakes]
  /\ wallet = [u \in Users |-> Funds]
  /\ vault = Reserve

Move(i, from, to) == phase[i] = from /\ phase' = [phase EXCEPT ![i] = to]

Open(i) ==
  /\ Move(i, "idle", "open")
  /\ stake[i] = NoStakes
  /\ UNCHANGED <<stake, wallet, vault>>

Deposit(i) ==
  /\ phase[i] = "open"
  /\ \E u \in Users :
       LET amount == wallet[u] - wallet'[u]
       IN  /\ stake[i][u] = 0
           /\ amount > 0
           /\ stake' = [stake EXCEPT ![i][u] = amount]
           /\ wallet' = [wallet EXCEPT ![u] = @ - amount]
           /\ vault' = vault + amount
  /\ UNCHANGED phase

Lock(i) ==
  /\ Move(i, "open", "locked")
  /\ UNCHANGED <<stake, wallet, vault>>

\* What a step pays to each account.
Paid == [u \in Users |-> wallet'[u] - wallet[u]]

Refund(i) ==
  /\ Move(i, "open", "settled")
  /\ Paid = stake[i]
  /\ vault' = vault - Total(stake[i])
  /\ UNCHANGED stake

Settle(i) ==
  /\ Move(i, "locked", "settled")
  /\ \A u \in Users : Paid[u] = 0 \/ (stake[i][u] > 0 /\ Paid[u] >= stake[i][u])
  /\ \E u \in Users : Paid[u] > 0
  /\ Total(Paid) <= Total(stake[i])
  /\ vault' = vault - Total(Paid)
  /\ UNCHANGED stake

Remove(i) ==
  /\ Move(i, "settled", "idle")
  /\ stake' = [stake EXCEPT ![i] = NoStakes]
  /\ UNCHANGED <<wallet, vault>>

Next == \E i \in Ids : Open(i) \/ Deposit(i) \/ Lock(i) \/ Refund(i) \/ Settle(i) \/ Remove(i)

Spec == Init /\ [][Next]_vars

=============================================================================
