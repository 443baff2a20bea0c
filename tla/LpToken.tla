------------------------------ MODULE LpToken ------------------------------
(***************************************************************************)
(* The pool tokens of the DEX (token.cpp): transfer, open, close, freeze   *)
(* and unfreeze.  A balance is kept twice, in the accounts table of its    *)
(* owner and in the user_infos table of the token, which rmpool and        *)
(* clmpoolreward run over.  add_balance and sub_balance keep the two in    *)
(* step; open and close touch the accounts row alone.                      *)
(***************************************************************************)
EXTENDS Integers, FiniteSets, Amounts

CONSTANTS
  Users,      \* accounts that trade; the contract account is not one of them
  Tokens,     \* tokens of led.token that can be traded
  LpSymbols,  \* symbols a pool token may be given
  Freezable,  \* bound: accounts the manager may freeze
  LpAmounts   \* amounts of pool tokens an action may carry

ASSUME LpTokenAssumption ==
  /\ IsFiniteSet(Users)
  /\ IsFiniteSet(Tokens) /\ {"LED", "LEM"} \subseteq Tokens
  /\ IsFiniteSet(LpSymbols)
  /\ Freezable \subseteq Users
  /\ LpAmounts \subseteq Nat \ {0}

VARIABLES
  stats,       \* the stats tables: one currency_stats row for each pool token
  accounts,    \* the accounts tables: accounts[lp][owner]
  user_infos,  \* the user_infos tables: user_infos[lp][account]
  frozens      \* the frozens table

lpVars == <<stats, accounts, user_infos, frozens>>

\* A row of a table of balances, and the absence of one.
Holding(balance) == [open |-> TRUE, balance |-> balance]
NoHolding == [open |-> FALSE, balance |-> 0]
holding == [open : BOOLEAN, balance : Nat]

\* The symbols are those of pool1 and pool2; pool and fee give the amount of
\* each token, 0 for a token that is not in the pair.
currency_stats == [exists  : BOOLEAN,
                   supply  : Nat,
                   symbols : (Tokens \X Tokens) \cup {<<>>},
                   pool    : [Tokens -> Nat],
                   fee     : [Tokens -> Int]]
NoAmounts == [t \in Tokens |-> 0]
NoStats == [exists |-> FALSE, supply |-> 0, symbols |-> <<>>,
            pool |-> NoAmounts, fee |-> NoAmounts]

-----------------------------------------------------------------------------
\* A table of balances with `value` more for the owner, whose row may be new.
Added(table, lp, owner, value) ==
  [table EXCEPT ![lp][owner] = Holding(@.balance + value)]

Subtracted(table, lp, owner, value) == [table EXCEPT ![lp][owner].balance = @ - value]

\* The checks of sub_balance: a row in both tables, neither overdrawn.
Covers(lp, owner, value) ==
  \A table \in {accounts, user_infos} :
    table[lp][owner].open /\ table[lp][owner].balance >= value

\* add_balance(owner, value)
add_balance(lp, owner, value) ==
  /\ accounts' = Added(accounts, lp, owner, value)
  /\ user_infos' = Added(user_infos, lp, owner, value)

\* sub_balance(owner, value)
sub_balance(lp, owner, value) ==
  /\ Covers(lp, owner, value)
  /\ accounts' = Subtracted(accounts, lp, owner, value)
  /\ user_infos' = Subtracted(user_infos, lp, owner, value)

\* transfer(from, to, quantity)
transfer(from, to, lp, quantity) ==
  /\ from # to
  /\ from \notin frozens
  /\ stats[lp].exists
  /\ Covers(lp, from, quantity)
  /\ accounts' = Added(Subtracted(accounts, lp, from, quantity), lp, to, quantity)
  /\ user_infos' = Added(Subtracted(user_infos, lp, from, quantity), lp, to, quantity)
  /\ UNCHANGED <<stats, frozens>>

\* open(owner, symbol): nothing happens if the row is there.
open(owner, lp) ==
  /\ stats[lp].exists
  /\ ~accounts[lp][owner].open
  /\ accounts' = [accounts EXCEPT ![lp][owner] = Holding(0)]
  /\ UNCHANGED <<stats, user_infos, frozens>>

\* Mutant of close: the balance is not looked at.
close_unchecked(owner, lp) ==
  /\ accounts[lp][owner].open
  /\ accounts' = [accounts EXCEPT ![lp][owner] = NoHolding]
  /\ UNCHANGED <<stats, user_infos, frozens>>

\* close(owner, symbol): also after the pool was removed.
close(owner, lp) ==
  /\ accounts[lp][owner].open
  /\ accounts[lp][owner].balance = 0
  /\ accounts' = [accounts EXCEPT ![lp][owner] = NoHolding]
  /\ UNCHANGED <<stats, user_infos, frozens>>

\* freeze(account) and unfreeze(account), called by the manager.
freeze(account) ==
  /\ account \notin frozens
  /\ frozens' = frozens \cup {account}
  /\ UNCHANGED <<stats, accounts, user_infos>>

unfreeze(account) ==
  /\ account \in frozens
  /\ frozens' = frozens \ {account}
  /\ UNCHANGED <<stats, accounts, user_infos>>

LpTokenInit ==
  /\ stats = [lp \in LpSymbols |-> NoStats]
  /\ accounts = [lp \in LpSymbols |-> [u \in Users |-> NoHolding]]
  /\ user_infos = [lp \in LpSymbols |-> [u \in Users |-> NoHolding]]
  /\ frozens = {}

LpTokenNext ==
  \/ \E u, v \in Users, lp \in LpSymbols, q \in LpAmounts : transfer(u, v, lp, q)
  \/ \E u \in Users, lp \in LpSymbols : open(u, lp) \/ close(u, lp)
  \/ \E u \in Freezable : freeze(u) \/ unfreeze(u)

-----------------------------------------------------------------------------
(***************************************************************************)
(* Properties                                                              *)
(***************************************************************************)
LpTokenTypeOK ==
  /\ stats \in [LpSymbols -> currency_stats]
  /\ accounts \in [LpSymbols -> [Users -> holding]]
  /\ user_infos \in [LpSymbols -> [Users -> holding]]
  /\ frozens \subseteq Users

Balances(table, lp) == [u \in Users |-> table[lp][u].balance]

\* The supply of every pool token is exactly what its owners hold, and the two
\* tables that keep a balance agree, whatever owners open and close, pools are
\* removed and created anew under the same symbol.  clmpoolreward's shares and
\* rmliquidity's proportions rely on it.
SupplyIsHeld ==
  \A lp \in LpSymbols :
    /\ Balances(accounts, lp) = Balances(user_infos, lp)
    /\ stats[lp].supply = Total(Balances(accounts, lp))
    /\ \A u \in Users : ~accounts[lp][u].open => accounts[lp][u].balance = 0
    /\ \A u \in Users : ~user_infos[lp][u].open => user_infos[lp][u].balance = 0

=============================================================================
