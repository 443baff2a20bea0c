----------------------------- MODULE DexProofs -----------------------------
(***************************************************************************)
(* Safety of the exchange for any users, tokens, pairs, fees and amounts.  *)
(* The inductive invariant DInv adds to the invariants of the runs that a  *)
(* pool has two different tokens, that a row that is gone left nothing,    *)
(* and the emission's ClockInv, since clmpoolreward runs issue_lem.        *)
(***************************************************************************)
EXTENDS Dex, IssuanceProofs, AmountTheorems

\* What a pool's row satisfies as long as it exists.
GoodPool(row) ==
  /\ row.symbols \in Tokens \X Tokens /\ row.symbols[1] # row.symbols[2]
  /\ row.supply > 0
  /\ \A t \in Tokens : row.pool[t] > 0 <=> t \in PairOf(row.symbols)

GoodPools ==
  \A lp \in LpSymbols :
    IF stats[lp].exists THEN GoodPool(stats[lp]) ELSE stats[lp] = NoStats

\* The clock, the ledgers, the external balances and the reward times.
BooksInv ==
  /\ ClockInv /\ configs.is_active
  /\ dexacnts \in [Users -> [Tokens -> holding]]
  /\ \A u \in Users, t \in Tokens : ~dexacnts[u][t].open => dexacnts[u][t].balance = 0
  /\ poolrewards \in [LpSymbols -> pool_reward]
  /\ ledger \in [OtherTokens -> [self : Nat, users : Nat]]

\* The pool tokens.
SharesInv == LpTokenTypeOK /\ SupplyIsHeld

DInv == BooksInv /\ SharesInv /\ RegistryConsistent /\ GoodPools

-----------------------------------------------------------------------------
(***************************************************************************)
(* compute.                                                                *)
(***************************************************************************)
\* What is paid is rounded up and what is received is rounded down.
LEMMA QuotientRounds ==
  ASSUME NEW x \in Int, x # 0, NEW y \in Nat \ {0}, NEW z \in Nat \ {0}
  PROVE  /\ Quotient(x, y, z) \in Int
         /\ z * Quotient(x, y, z) >= x * y
         /\ x > 0 => Quotient(x, y, z) > 0
         /\ x < 0 => Quotient(x, y, z) <= 0
<1>1. CASE x > 0
  <2> DEFINE k == x * y
             m == k - 1
             d == m \div z
  <2>1. k \in Nat /\ k > 0
    BY <1>1
  <2>2. Quotient(x, y, z) = 1 + d
    BY <1>1 DEF Quotient
  <2> HIDE DEF k
  <2>3. m \in Nat
    BY <2>1
  <2> HIDE DEF m
  <2>4. d \in Nat /\ m % z \in 0 .. (z - 1) /\ m = z * d + (m % z)
    BY <2>3, DivMod
  <2> HIDE DEF d
  <2>5. z * (1 + d) = z + z * d /\ z * d \in Nat
    BY <2>4
  <2>6. z * (1 + d) >= k
    BY <2>1, <2>4, <2>5 DEF m
  <2> QED BY <1>1, <2>2, <2>4, <2>6 DEF k
<1>2. CASE x < 0
  <2> DEFINE k == -(x * y)
             d == k \div z
  <2>1. k \in Nat
    <3>1. (-x) * y \in Nat /\ (-x) * y = -(x * y)
      BY <1>2
    <3> QED BY <3>1
  <2>2. Quotient(x, y, z) = -d
    BY <1>2 DEF Quotient
  <2> HIDE DEF k
  <2>3. d \in Nat /\ z * d <= k
    <3>1. d \in Nat /\ k % z \in 0 .. (z - 1) /\ k = z * d + (k % z)
      BY <2>1, DivMod
    <3> HIDE DEF d
    <3>2. z * d \in Nat
      BY <3>1
    <3> QED BY <3>1, <3>2
  <2> HIDE DEF d
  <2>4. z * (-d) = -(z * d) /\ z * d \in Nat
    BY <2>3
  <2>5. x * y = -k
    <3>1. x * y \in Int
      OBVIOUS
    <3> QED BY <3>1 DEF k
  <2>6. z * (-d) >= x * y
    BY <2>1, <2>3, <2>4, <2>5
  <2> QED BY <1>2, <2>2, <2>3, <2>6
<1> QED BY <1>1, <1>2

\* A part of the whole receives less than the pool.
LEMMA QuotientBelow ==
  ASSUME NEW x \in Int, x < 0, NEW y \in Nat \ {0}, NEW z \in Nat \ {0}, -x < z
  PROVE  y + Quotient(x, y, z) > 0
<1> DEFINE k == -(x * y)
           d == k \div z
<1>1. k \in Nat /\ k < z * y
  <2>1. (-x) * y \in Nat /\ (-x) * y = -(x * y)
    OBVIOUS
  <2>2. (-x + 1) * y <= z * y
    BY ProductMonotone
  <2>3. (-x + 1) * y = (-x) * y + y
    OBVIOUS
  <2> QED BY <2>1, <2>2, <2>3
<1>2. Quotient(x, y, z) = -d
  BY DEF Quotient
<1> HIDE DEF k
<1>3. d < y
  BY <1>1, DivBelow
<1>4. d \in Nat
  BY <1>1, DivMod
<1> QED BY <1>2, <1>3, <1>4

\* The square root of a positive product is positive.
LEMMA FloorSqrtPositive ==
  ASSUME NEW n \in Nat \ {0}
  PROVE  FloorSqrt(n) \in Nat /\ FloorSqrt(n) > 0
<1> DEFINE R == {r \in 0 .. n : r * r <= n}
           good(r) == r * r <= n /\ n < (r + 1) * (r + 1)
<1>1. R \subseteq Nat /\ IsFiniteSet(R)
  <2>1. R \in SUBSET (0 .. n)
    OBVIOUS
  <2>2. IsFiniteSet(0 .. n)
    BY FS_Interval
  <2>3. IsFiniteSet(R)
    BY <2>1, <2>2, FS_Subset
  <2> QED BY <2>3
<1>2. 0 \in R
  OBVIOUS
<1>3. PICK m \in R : \A j \in R : j <= m
  <2> HIDE DEF R
  <2> QED BY <1>1, <1>2, LargestElement
<1>4. n < (m + 1) * (m + 1)
  <2> SUFFICES ASSUME (m + 1) * (m + 1) <= n PROVE FALSE
    <3>1. m \in Nat
      OBVIOUS
    <3>2. (m + 1) * (m + 1) \in Nat
      BY <3>1
    <3> QED BY <3>2
  <2>1. m \in Nat /\ m + 1 \in Nat /\ ~(m + 1 \in R)
    BY <1>3
  <2>2. 1 * (m + 1) <= (m + 1) * (m + 1)
    BY <2>1, ProductMonotone
  <2>3. m + 1 <= n
    BY <2>1, <2>2
  <2> QED BY <2>1, <2>3
<1>5. \E r \in 0 .. n : good(r)
  BY <1>3, <1>4
<1>6. FloorSqrt(n) \in 0 .. n /\ good(FloorSqrt(n))
  BY <1>5 DEF FloorSqrt
<1>7. FloorSqrt(n) # 0
  BY <1>6
<1> QED BY <1>6, <1>7

-----------------------------------------------------------------------------
(***************************************************************************)
(* The two tables of balances.                                             *)
(***************************************************************************)
LEMMA RowTypes ==
  ASSUME SharesInv, NEW lp \in LpSymbols, NEW u \in Users
  PROVE  /\ accounts[lp][u] \in holding /\ user_infos[lp][u] \in holding
         /\ accounts[lp][u].balance \in Nat
         /\ user_infos[lp][u].balance = accounts[lp][u].balance
         /\ stats[lp] \in currency_stats /\ stats[lp].supply \in Nat
         /\ Balances(accounts, lp) \in [Users -> Nat]
         /\ accounts[lp][u].balance <= stats[lp].supply
<1>1. /\ \A v \in Users : accounts[lp][v] \in holding /\ user_infos[lp][v] \in holding
      /\ stats[lp] \in currency_stats
  BY DEF SharesInv, LpTokenTypeOK
<1>2. \A v \in Users : accounts[lp][v].balance \in Nat
  BY <1>1 DEF holding
<1>3. stats[lp].supply \in Nat
  BY <1>1 DEF currency_stats
<1> DEFINE f == Balances(accounts, lp)
<1>4. f \in [Users -> Nat] /\ f[u] = accounts[lp][u].balance /\ IsFiniteSet(Users)
  BY <1>2, LpTokenAssumption DEF Balances
<1>5. f = Balances(user_infos, lp) /\ stats[lp].supply = Total(f)
  BY DEF SharesInv, SupplyIsHeld
<1>6. user_infos[lp][u].balance = accounts[lp][u].balance
  BY <1>4, <1>5 DEF Balances
<1> HIDE DEF f
<1>7. f[u] <= Total(f)
  BY ONLY <1>4, TotalMember
<1> QED BY <1>1, <1>2, <1>3, <1>4, <1>5, <1>6, <1>7 DEF f

\* One owner's rows for one pool token are replaced, the supply with them.
LEMMA ReplaceHolding ==
  ASSUME SharesInv, NEW lp \in LpSymbols, NEW u \in Users,
         NEW a \in holding, NEW b \in holding, a.balance = b.balance,
         ~a.open => a.balance = 0, ~b.open => b.balance = 0,
         accounts' = [accounts EXCEPT ![lp][u] = a],
         user_infos' = [user_infos EXCEPT ![lp][u] = b],
         NEW row \in currency_stats, stats' = [stats EXCEPT ![lp] = row],
         row.supply = stats[lp].supply - accounts[lp][u].balance + a.balance,
         frozens' \subseteq Users
  PROVE  SharesInv'
<1>1. /\ accounts \in [LpSymbols -> [Users -> holding]]
      /\ user_infos \in [LpSymbols -> [Users -> holding]]
      /\ stats \in [LpSymbols -> currency_stats]
  BY DEF SharesInv, LpTokenTypeOK
<1>2. /\ accounts' \in [LpSymbols -> [Users -> holding]]
      /\ user_infos' \in [LpSymbols -> [Users -> holding]]
      /\ stats' \in [LpSymbols -> currency_stats]
      /\ accounts'[lp][u] = a /\ user_infos'[lp][u] = b /\ stats'[lp] = row
      /\ \A l \in LpSymbols, v \in Users : (l # lp \/ v # u) =>
           accounts'[l][v] = accounts[l][v] /\ user_infos'[l][v] = user_infos[l][v]
      /\ \A l \in LpSymbols : l # lp => stats'[l] = stats[l]
  BY <1>1
<1>3. ASSUME NEW l \in LpSymbols
      PROVE  Balances(accounts', l) = Balances(user_infos', l)
  <2>1. \A v \in Users : accounts'[l][v].balance = user_infos'[l][v].balance
    <3> SUFFICES ASSUME NEW v \in Users
                 PROVE accounts'[l][v].balance = user_infos'[l][v].balance
      OBVIOUS
    <3>1. user_infos[l][v].balance = accounts[l][v].balance
      BY RowTypes
    <3> QED BY <1>2, <3>1
  <2> QED BY <2>1 DEF Balances
<1>4. ASSUME NEW l \in LpSymbols
      PROVE  stats'[l].supply = Total(Balances(accounts', l))
  <2>1. stats[l].supply = Total(Balances(accounts, l))
    BY DEF SharesInv, SupplyIsHeld
  <2>2. CASE l # lp
    <3>1. Balances(accounts', l) = Balances(accounts, l)
      BY <1>2, <2>2 DEF Balances
    <3> QED BY <1>2, <2>1, <2>2, <3>1
  <2>3. CASE l = lp
    <3> DEFINE f == Balances(accounts, lp)
               v == a.balance
    <3>1. f \in [Users -> Nat] /\ f[u] = accounts[lp][u].balance
      BY RowTypes DEF Balances
    <3>2. IsFiniteSet(Users) /\ v \in Nat /\ u \in Users
      BY LpTokenAssumption DEF holding
    <3>3. Balances(accounts', lp) = [f EXCEPT ![u] = v]
      BY <1>2 DEF Balances
    <3> HIDE DEF f, v
    <3>4. Total([f EXCEPT ![u] = v]) = Total(f) - f[u] + v
      BY ONLY <3>1, <3>2, TotalUpdate
    <3> QED BY <1>2, <2>1, <2>3, <3>1, <3>3, <3>4 DEF f, v
  <2> QED BY <2>2, <2>3
<1>5. \A l \in LpSymbols, v \in Users :
        /\ ~accounts'[l][v].open => accounts'[l][v].balance = 0
        /\ ~user_infos'[l][v].open => user_infos'[l][v].balance = 0
  BY <1>2 DEF SharesInv, SupplyIsHeld
<1>6. SupplyIsHeld'
  BY <1>3, <1>4, <1>5 DEF SupplyIsHeld, Balances
<1> QED BY <1>2, <1>6 DEF SharesInv, LpTokenTypeOK

LEMMA AddBalanceKeeps ==
  ASSUME SharesInv, NEW lp \in LpSymbols, NEW u \in Users, NEW v \in Nat,
         add_balance(lp, u, v),
         NEW row \in currency_stats, stats' = [stats EXCEPT ![lp] = row],
         row.supply = stats[lp].supply + v, frozens' = frozens
  PROVE  SharesInv'
<1> DEFINE a == Holding(accounts[lp][u].balance + v)
           b == Holding(user_infos[lp][u].balance + v)
<1>1. /\ accounts[lp][u].balance \in Nat /\ stats[lp].supply \in Nat
      /\ user_infos[lp][u].balance = accounts[lp][u].balance
  BY RowTypes
<1>2. /\ a \in holding /\ a.balance = accounts[lp][u].balance + v /\ a.open
      /\ b \in holding /\ b.balance = a.balance /\ b.open
  BY <1>1 DEF Holding, holding
<1>3. /\ accounts' = [accounts EXCEPT ![lp][u] = a]
      /\ user_infos' = [user_infos EXCEPT ![lp][u] = b]
  BY DEF add_balance, Added
<1> HIDE DEF a, b
<1>4. row.supply = stats[lp].supply - accounts[lp][u].balance + a.balance
  BY <1>1, <1>2
<1>5. frozens' \subseteq Users
  BY DEF SharesInv, LpTokenTypeOK
<1> QED BY <1>2, <1>3, <1>4, <1>5, ReplaceHolding

LEMMA SubBalanceKeeps ==
  ASSUME SharesInv, NEW lp \in LpSymbols, NEW u \in Users, NEW v \in Nat,
         sub_balance(lp, u, v),
         NEW row \in currency_stats, stats' = [stats EXCEPT ![lp] = row],
         row.supply = stats[lp].supply - v, frozens' = frozens
  PROVE  SharesInv'
<1> DEFINE was == accounts[lp][u]
           had == user_infos[lp][u]
           left == was.balance - v
           a == [was EXCEPT !.balance = left]
           b == [had EXCEPT !.balance = left]
<1>1. /\ was \in holding /\ had \in holding /\ was.balance \in Nat
      /\ had.balance = was.balance /\ stats[lp].supply \in Nat
  BY RowTypes
<1>2. was.open /\ had.open /\ was.balance >= v
  BY DEF sub_balance, Covers
<1>3. /\ accounts' = [accounts EXCEPT ![lp][u] = a]
      /\ user_infos' = [user_infos EXCEPT ![lp][u] = b]
  BY <1>1 DEF sub_balance, Subtracted
<1> HIDE DEF left, was, had
<1>4. left \in Nat
  BY <1>1, <1>2 DEF left
<1>5. /\ a \in holding /\ a.balance = left /\ a.open
      /\ b \in holding /\ b.balance = left /\ b.open
  BY ONLY <1>1, <1>2, <1>4 DEF holding
<1> HIDE DEF a, b
<1>6. row.supply = stats[lp].supply - accounts[lp][u].balance + a.balance
  BY <1>1, <1>5 DEF left, was
<1>7. frozens' \subseteq Users
  BY DEF SharesInv, LpTokenTypeOK
<1> QED BY <1>3, <1>5, <1>6, <1>7, ReplaceHolding


\* Steps that change nothing in a pool's row but its pools and fees.
LEMMA SameSharesKeep ==
  ASSUME SharesInv, UNCHANGED <<accounts, user_infos, frozens>>,
         stats' \in [LpSymbols -> currency_stats],
         \A lp \in LpSymbols : stats'[lp].supply = stats[lp].supply
  PROVE  SharesInv'
BY DEF SharesInv, LpTokenTypeOK, SupplyIsHeld, Balances

LEMMA TransferKeeps ==
  ASSUME SharesInv, NEW lp \in LpSymbols, NEW u \in Users, NEW w \in Users,
         NEW v \in LpAmounts, transfer(u, w, lp, v)
  PROVE  SharesInv'
<1> DEFINE left == [accounts[lp][u] EXCEPT !.balance = accounts[lp][u].balance - v]
           less == [user_infos[lp][u] EXCEPT !.balance = user_infos[lp][u].balance - v]
           more == Holding(accounts[lp][w].balance + v)
<1>1. /\ u # w /\ stats' = stats /\ frozens' = frozens
      /\ Covers(lp, u, v)
      /\ accounts' = Added(Subtracted(accounts, lp, u, v), lp, w, v)
      /\ user_infos' = Added(Subtracted(user_infos, lp, u, v), lp, w, v)
  BY DEF transfer
<1>2. v \in Nat
  <2>1. LpAmounts \subseteq Nat
    BY LpTokenAssumption
  <2> QED BY <2>1
<1>3. /\ accounts \in [LpSymbols -> [Users -> holding]]
      /\ user_infos \in [LpSymbols -> [Users -> holding]]
      /\ stats \in [LpSymbols -> currency_stats] /\ frozens \subseteq Users
  BY DEF SharesInv, LpTokenTypeOK
<1>4. /\ accounts[lp][u] \in holding /\ user_infos[lp][u] \in holding
      /\ accounts[lp][u].balance \in Nat /\ accounts[lp][w].balance \in Nat
      /\ user_infos[lp][u].balance = accounts[lp][u].balance
      /\ user_infos[lp][w].balance = accounts[lp][w].balance
  BY RowTypes
<1>5. accounts[lp][u].balance >= v /\ accounts[lp][u].open /\ user_infos[lp][u].open
  BY DEF Covers, transfer
<1>6. accounts[lp][u].balance - v \in Nat
  BY <1>2, <1>4, <1>5
<1>7. /\ left \in holding /\ left.open /\ left.balance = accounts[lp][u].balance - v
      /\ less \in holding /\ less.open /\ less.balance = left.balance
  BY <1>4, <1>5, <1>6 DEF holding
<1>8. /\ more \in holding /\ more.open /\ more.balance = accounts[lp][w].balance + v
  BY <1>2, <1>4 DEF holding, Holding
<1>9. /\ \A l \in LpSymbols, x \in Users :
           accounts'[l][x] = IF l = lp /\ x = u THEN left
                             ELSE IF l = lp /\ x = w THEN more ELSE accounts[l][x]
      /\ \A l \in LpSymbols, x \in Users :
           user_infos'[l][x] = IF l = lp /\ x = u THEN less
                               ELSE IF l = lp /\ x = w THEN more ELSE user_infos[l][x]
      /\ accounts' \in [LpSymbols -> [Users -> holding]]
      /\ user_infos' \in [LpSymbols -> [Users -> holding]]
  <2> DEFINE A == [accounts EXCEPT ![lp][u] = left]
             U == [user_infos EXCEPT ![lp][u] = less]
  <2>1. Subtracted(accounts, lp, u, v) = A /\ Subtracted(user_infos, lp, u, v) = U
    BY <1>3 DEF Subtracted
  <2>2. A \in [LpSymbols -> [Users -> holding]] /\ U \in [LpSymbols -> [Users -> holding]]
        /\ \A l \in LpSymbols, x \in Users :
             /\ A[l][x] = IF l = lp /\ x = u THEN left ELSE accounts[l][x]
             /\ U[l][x] = IF l = lp /\ x = u THEN less ELSE user_infos[l][x]
    BY <1>3, <1>7
  <2> HIDE DEF A, U, left, less
  <2>3. /\ accounts' = [A EXCEPT ![lp][w] = Holding(A[lp][w].balance + v)]
        /\ user_infos' = [U EXCEPT ![lp][w] = Holding(U[lp][w].balance + v)]
    BY <1>1, <2>1, <2>2 DEF Added
  <2>4. A[lp][w] = accounts[lp][w] /\ U[lp][w] = user_infos[lp][w]
    BY <1>1, <2>2
  <2>5. /\ accounts' = [A EXCEPT ![lp][w] = more]
        /\ user_infos' = [U EXCEPT ![lp][w] = more]
    BY <1>4, <2>3, <2>4
  <2> HIDE DEF more
  <2> QED BY <1>1, <1>8, <2>2, <2>5
<1> HIDE DEF left, less, more
<1>10. ASSUME NEW l \in LpSymbols
       PROVE  stats[l].supply = Total(Balances(accounts', l))
  <2>1. stats[l].supply = Total(Balances(accounts, l))
    BY DEF SharesInv, SupplyIsHeld
  <2>2. CASE l # lp
    <3>1. Balances(accounts', l) = Balances(accounts, l)
      BY <1>9, <2>2 DEF Balances
    <3> QED BY <2>1, <3>1
  <2>3. CASE l = lp
    <3> DEFINE f == Balances(accounts, lp)
               m == left.balance
               n == more.balance
               g == [f EXCEPT ![u] = m]
    <3>1. f \in [Users -> Nat] /\ f[u] = accounts[lp][u].balance
          /\ f[w] = accounts[lp][w].balance /\ IsFiniteSet(Users)
      BY RowTypes, LpTokenAssumption DEF Balances
    <3>2. m \in Nat /\ n \in Nat
      BY <1>2, <1>4, <1>6, <1>7, <1>8
    <3>3. Balances(accounts', lp) = [g EXCEPT ![w] = n]
      BY <1>1, <1>9 DEF Balances
    <3> HIDE DEF f, m, n
    <3>4. u \in Users /\ w \in Users
      OBVIOUS
    <3>5. Total(g) = Total(f) - f[u] + m
      BY ONLY <3>1, <3>2, <3>4, TotalUpdate
    <3>10. g \in [Users -> Nat] /\ g[w] = f[w]
      BY <1>1, <3>1, <3>2
    <3> HIDE DEF g
    <3>6. Total([g EXCEPT ![w] = n]) = Total(g) - g[w] + n
      BY ONLY <3>1, <3>2, <3>4, <3>10, TotalUpdate
    <3>7. Total(f) \in Nat
      BY ONLY <3>1, TotalNat
    <3>8. m = f[u] - v /\ n = f[w] + v /\ f[u] \in Nat /\ f[w] \in Nat
      BY <1>7, <1>8, <3>1 DEF m, n
    <3>9. Total([g EXCEPT ![w] = n]) = Total(f)
      BY <1>2, <3>5, <3>6, <3>7, <3>8, <3>10
    <3> QED BY <2>1, <2>3, <3>3, <3>9 DEF f
  <2> QED BY <2>2, <2>3
<1>11. ASSUME NEW l \in LpSymbols
       PROVE  Balances(accounts', l) = Balances(user_infos', l)
  <2>1. \A x \in Users : accounts'[l][x].balance = user_infos'[l][x].balance
    <3> SUFFICES ASSUME NEW x \in Users
                 PROVE accounts'[l][x].balance = user_infos'[l][x].balance
      OBVIOUS
    <3>1. user_infos[l][x].balance = accounts[l][x].balance
      BY RowTypes
    <3> QED BY <1>7, <1>9, <3>1
  <2> QED BY <2>1 DEF Balances
<1>12. \A l \in LpSymbols, x \in Users :
         /\ ~accounts'[l][x].open => accounts'[l][x].balance = 0
         /\ ~user_infos'[l][x].open => user_infos'[l][x].balance = 0
  BY <1>7, <1>8, <1>9 DEF SharesInv, SupplyIsHeld
<1>13. SupplyIsHeld'
  BY <1>1, <1>10, <1>11, <1>12 DEF SupplyIsHeld, Balances
<1> QED BY <1>1, <1>3, <1>9, <1>13 DEF SharesInv, LpTokenTypeOK

LEMMA PoolTokensKeep ==
  ASSUME SharesInv, LpTokenNext
  PROVE  SharesInv' /\ stats' = stats
<1>1. ASSUME NEW u \in Users, NEW w \in Users, NEW lp \in LpSymbols, NEW v \in LpAmounts,
             transfer(u, w, lp, v)
      PROVE  SharesInv' /\ stats' = stats
  BY <1>1, TransferKeeps DEF transfer
<1>2. ASSUME NEW u \in Users, NEW lp \in LpSymbols,
             NEW a \in holding, a.balance = accounts[lp][u].balance,
             ~a.open => a.balance = 0,
             accounts' = [accounts EXCEPT ![lp][u] = a],
             UNCHANGED <<stats, user_infos, frozens>>
      PROVE  SharesInv' /\ stats' = stats
  <2> DEFINE b == user_infos[lp][u]
             row == stats[lp]
  <2>1. /\ a \in holding /\ b \in holding /\ a.balance = b.balance
        /\ row \in currency_stats /\ accounts[lp][u].balance \in Nat /\ row.supply \in Nat
    BY <1>2, RowTypes
  <2>2. /\ accounts' = [accounts EXCEPT ![lp][u] = a]
        /\ user_infos' = [user_infos EXCEPT ![lp][u] = b]
        /\ ~a.open => a.balance = 0
        /\ stats' = [stats EXCEPT ![lp] = row] /\ frozens' \subseteq Users
        /\ ~b.open => b.balance = 0
    BY <1>2 DEF SharesInv, LpTokenTypeOK, SupplyIsHeld
  <2>3. row.supply = stats[lp].supply - accounts[lp][u].balance + a.balance
    BY <1>2, <2>1
  <2> HIDE DEF b, row
  <2>4. SharesInv'
    BY <2>1, <2>2, <2>3, ReplaceHolding
  <2> QED BY <1>2, <2>4
<1>3. ASSUME NEW u \in Users, NEW lp \in LpSymbols, open(u, lp)
      PROVE  SharesInv' /\ stats' = stats
  <2> DEFINE a == Holding(0)
  <2>1. a \in holding /\ a.balance = 0 /\ a.open
    BY DEF Holding, holding
  <2>2. /\ accounts' = [accounts EXCEPT ![lp][u] = a] /\ ~accounts[lp][u].open
        /\ UNCHANGED <<stats, user_infos, frozens>>
    BY <1>3 DEF open
  <2>3. accounts[lp][u].balance = 0
    BY <2>2 DEF SharesInv, SupplyIsHeld
  <2> HIDE DEF a
  <2> QED BY <1>2, <2>1, <2>2, <2>3
<1>4. ASSUME NEW u \in Users, NEW lp \in LpSymbols, close(u, lp)
      PROVE  SharesInv' /\ stats' = stats
  <2> DEFINE a == NoHolding
  <2>1. a \in holding /\ a.balance = 0
    BY DEF NoHolding, holding
  <2>2. /\ accounts' = [accounts EXCEPT ![lp][u] = a] /\ accounts[lp][u].balance = 0
        /\ UNCHANGED <<stats, user_infos, frozens>>
    BY <1>4 DEF close
  <2> HIDE DEF a
  <2> QED BY <1>2, <2>1, <2>2
<1>5. ASSUME NEW u \in Freezable, freeze(u) \/ unfreeze(u)
      PROVE  SharesInv' /\ stats' = stats
  <2>1. u \in Users
    BY LpTokenAssumption
  <2>2. UNCHANGED <<stats, accounts, user_infos>> /\ frozens' \subseteq Users
    BY <1>5, <2>1 DEF freeze, unfreeze, SharesInv, LpTokenTypeOK
  <2> QED BY <2>2 DEF SharesInv, LpTokenTypeOK, SupplyIsHeld, Balances
<1> QED BY <1>1, <1>3, <1>4, <1>5 DEF LpTokenNext


\* rmpool erases the rows of all who hold the pool token.
LEMMA RmpoolShares ==
  ASSUME SharesInv, NEW lp \in LpSymbols, rmpool(lp)
  PROVE  SharesInv'
<1>1. /\ stats' = [stats EXCEPT ![lp] = NoStats] /\ frozens' = frozens
      /\ user_infos' = [user_infos EXCEPT ![lp] = [u \in Users |-> NoHolding]]
      /\ accounts' = [accounts EXCEPT ![lp] = [u \in Users |->
                        IF user_infos[lp][u].open THEN NoHolding ELSE accounts[lp][u]]]
  BY DEF rmpool, WithoutListed, SharesInv, LpTokenTypeOK
<1>2. /\ accounts \in [LpSymbols -> [Users -> holding]]
      /\ user_infos \in [LpSymbols -> [Users -> holding]]
      /\ stats \in [LpSymbols -> currency_stats] /\ frozens \subseteq Users
  BY DEF SharesInv, LpTokenTypeOK
<1>3. NoHolding \in holding /\ NoHolding.balance = 0
  BY DEF NoHolding, holding
<1>4. NoStats \in currency_stats /\ NoStats.supply = 0
  BY DEF NoStats, currency_stats, NoAmounts
<1> HIDE DEF NoHolding, NoStats
<1>5. /\ accounts' \in [LpSymbols -> [Users -> holding]]
      /\ user_infos' \in [LpSymbols -> [Users -> holding]]
      /\ stats' \in [LpSymbols -> currency_stats] /\ stats'[lp] = NoStats
      /\ \A l \in LpSymbols : l # lp =>
           /\ accounts'[l] = accounts[l] /\ user_infos'[l] = user_infos[l]
           /\ stats'[l] = stats[l]
  BY <1>1, <1>2, <1>3, <1>4
<1>6. \A u \in Users : /\ user_infos'[lp][u] = NoHolding
                       /\ accounts'[lp][u].balance = 0
  <2> SUFFICES ASSUME NEW u \in Users
               PROVE user_infos'[lp][u] = NoHolding /\ accounts'[lp][u].balance = 0
    OBVIOUS
  <2>1. user_infos'[lp][u] = NoHolding
    BY <1>1, <1>2
  <2>2. accounts'[lp][u] = IF user_infos[lp][u].open THEN NoHolding ELSE accounts[lp][u]
    BY <1>1, <1>2
  <2>3. ~user_infos[lp][u].open => accounts[lp][u].balance = 0
    <3>1. user_infos[lp][u].balance = accounts[lp][u].balance
      BY RowTypes
    <3> QED BY <3>1 DEF SharesInv, SupplyIsHeld
  <2> QED BY <1>3, <2>1, <2>2, <2>3
<1>7. Balances(accounts', lp) = [u \in Users |-> 0] /\ Balances(user_infos', lp) = [u \in Users |-> 0]
  BY <1>3, <1>6 DEF Balances
<1>8. Total([u \in Users |-> 0]) = 0
  BY TotalZero, LpTokenAssumption
<1>9. ASSUME NEW l \in LpSymbols
      PROVE  /\ Balances(accounts', l) = Balances(user_infos', l)
             /\ stats'[l].supply = Total(Balances(accounts', l))
             /\ \A u \in Users : ~accounts'[l][u].open => accounts'[l][u].balance = 0
             /\ \A u \in Users : ~user_infos'[l][u].open => user_infos'[l][u].balance = 0
  <2>1. CASE l = lp
    BY <1>3, <1>4, <1>5, <1>6, <1>7, <1>8, <2>1
  <2>2. CASE l # lp
    <3>1. Balances(accounts', l) = Balances(accounts, l)
          /\ Balances(user_infos', l) = Balances(user_infos, l)
      BY <1>5, <2>2 DEF Balances
    <3> QED BY <1>5, <2>2, <3>1 DEF SharesInv, SupplyIsHeld
  <2> QED BY <2>1, <2>2
<1>10. SupplyIsHeld'
  BY <1>9 DEF SupplyIsHeld, Balances
<1> QED BY <1>1, <1>2, <1>5, <1>10 DEF SharesInv, LpTokenTypeOK

-----------------------------------------------------------------------------
(***************************************************************************)
(* The ledger of led.token and the external balances.                      *)
(***************************************************************************)
LEMMA Flows ==
  /\ "LEM" \in Tokens /\ IsFiniteSet(Tokens) /\ IsFiniteSet(LpSymbols) /\ IsFiniteSet(Users)
  /\ \A t \in Tokens, x \in Int : Only(t, x) \in [Tokens -> Int]
  /\ \A t, s \in Tokens, x, y \in Int : Both(t, x, s, y) \in [Tokens -> Int]
BY LpTokenAssumption DEF Only, Both

LEMMA MoveTokensKeeps ==
  ASSUME BooksInv, NEW flow \in [Tokens -> Int], MoveTokens(flow),
         now' = now, configs' = configs
  PROVE  /\ ClockInv' /\ configs'.is_active
         /\ ledger' \in [OtherTokens -> [self : Nat, users : Nat]]
<1>1. /\ lem \in [supply : Nat, balance : [LemAccounts -> Nat]]
      /\ ledger \in [OtherTokens -> [self : Nat, users : Nat]]
  BY DEF BooksInv, ClockInv, IssuanceTypeOK
<1>2. \A t \in Tokens : -flow[t] <= Held(t) /\ flow[t] <= Outside(t)
  BY DEF MoveTokens
<1>3. lem' \in [supply : Nat, balance : [LemAccounts -> Nat]]
  <2> DEFINE x == flow["LEM"]
             a == lem.balance["self"] + x
             b == lem.balance["users"] - x
  <2>1. "self" \in LemAccounts /\ "users" \in LemAccounts /\ x \in Int
    BY Flows DEF LemAccounts
  <2>2. -x <= lem.balance["self"] /\ x <= lem.balance["users"]
    BY <1>2, Flows DEF Held, Outside
  <2>3. lem.balance["self"] \in Nat /\ lem.balance["users"] \in Nat
    BY <1>1, <2>1
  <2>4. lem' = [lem EXCEPT !.balance["self"] = @ + x, !.balance["users"] = @ - x]
    BY DEF MoveTokens
  <2> HIDE DEF x
  <2>5. a \in Nat /\ b \in Nat
    BY <2>1, <2>2, <2>3
  <2>6. lem' = [lem EXCEPT !.balance["self"] = a, !.balance["users"] = b]
    BY <1>1, <2>1, <2>4
  <2> HIDE DEF a, b
  <2> QED BY <1>1, <2>1, <2>5, <2>6
<1>4. ledger' \in [OtherTokens -> [self : Nat, users : Nat]]
  <2>1. \A t \in OtherTokens : /\ ledger[t].self + flow[t] \in Nat
                               /\ ledger[t].users - flow[t] \in Nat
    <3> SUFFICES ASSUME NEW t \in OtherTokens
                 PROVE ledger[t].self + flow[t] \in Nat /\ ledger[t].users - flow[t] \in Nat
      OBVIOUS
    <3>1. t \in Tokens /\ t # "LEM" /\ flow[t] \in Int
      BY DEF OtherTokens
    <3>2. -flow[t] <= ledger[t].self /\ flow[t] <= ledger[t].users
      BY <1>2, <3>1 DEF Held, Outside
    <3>3. ledger[t].self \in Nat /\ ledger[t].users \in Nat
      BY <1>1
    <3> QED BY <3>1, <3>2, <3>3
  <2> QED BY <2>1 DEF MoveTokens
<1>5. ClockInv'
  BY <1>3, LedgerKeepsClock DEF BooksInv
<1> QED BY <1>4, <1>5 DEF BooksInv

\* The balances after a call of add_signed_ext_balance.
BalancesChange(u, touched, to_add) ==
  \A v \in Users, t \in Tokens :
    dexacnts'[v][t].balance = IF v = u /\ t \in touched
                              THEN dexacnts[v][t].balance + to_add[t]
                              ELSE dexacnts[v][t].balance

LEMMA ExternalKeeps ==
  ASSUME BooksInv, NEW u \in Users, NEW touched \in SUBSET Tokens,
         NEW to_add \in [Tokens -> Int], add_signed_ext_balance(u, touched, to_add)
  PROVE  /\ dexacnts' \in [Users -> [Tokens -> holding]]
         /\ \A v \in Users, t \in Tokens : ~dexacnts'[v][t].open => dexacnts'[v][t].balance = 0
         /\ BalancesChange(u, touched, to_add)
<1> DEFINE rows == [t \in Tokens |-> IF t \in touched
                                     THEN Holding(dexacnts[u][t].balance + to_add[t])
                                     ELSE dexacnts[u][t]]
<1>1. /\ dexacnts \in [Users -> [Tokens -> holding]]
      /\ \A v \in Users, t \in Tokens : ~dexacnts[v][t].open => dexacnts[v][t].balance = 0
  BY DEF BooksInv
<1>2. dexacnts' = [dexacnts EXCEPT ![u] = rows]
  BY <1>1 DEF add_signed_ext_balance
<1>3. \A t \in touched : Holding(dexacnts[u][t].balance + to_add[t]) \in holding
  <2> SUFFICES ASSUME NEW t \in touched
               PROVE Holding(dexacnts[u][t].balance + to_add[t]) \in holding
    OBVIOUS
  <2>1. dexacnts[u][t].balance \in Nat /\ to_add[t] \in Int
    BY <1>1 DEF holding
  <2>2. dexacnts[u][t].balance + to_add[t] >= 0
    BY DEF add_signed_ext_balance
  <2>3. dexacnts[u][t].balance + to_add[t] \in Nat
    BY <2>1, <2>2
  <2> QED BY <2>3 DEF Holding, holding
<1>4. /\ rows \in [Tokens -> holding]
      /\ \A t \in Tokens : rows[t] = IF t \in touched
                                     THEN Holding(dexacnts[u][t].balance + to_add[t])
                                     ELSE dexacnts[u][t]
  BY <1>1, <1>3
<1> HIDE DEF rows
<1>5. dexacnts' \in [Users -> [Tokens -> holding]]
      /\ dexacnts'[u] = rows /\ \A v \in Users : v # u => dexacnts'[v] = dexacnts[v]
  BY <1>1, <1>2, <1>4
<1>6. \A v \in Users, t \in Tokens :
        /\ ~dexacnts'[v][t].open => dexacnts'[v][t].balance = 0
        /\ dexacnts'[v][t].balance = IF v = u /\ t \in touched
                                     THEN dexacnts[v][t].balance + to_add[t]
                                     ELSE dexacnts[v][t].balance
  BY <1>1, <1>4, <1>5 DEF Holding
<1> QED BY <1>5, <1>6 DEF BalancesChange

\* One external balance is replaced.
LEMMA OneExternalKeeps ==
  ASSUME BooksInv, NEW u \in Users, NEW t \in Tokens, NEW row \in holding,
         ~row.open => row.balance = 0, dexacnts' = [dexacnts EXCEPT ![u][t] = row]
  PROVE  /\ dexacnts' \in [Users -> [Tokens -> holding]]
         /\ \A v \in Users, s \in Tokens : ~dexacnts'[v][s].open => dexacnts'[v][s].balance = 0
         /\ \A v \in Users, s \in Tokens :
              dexacnts'[v][s] = IF v = u /\ s = t THEN row ELSE dexacnts[v][s]
BY DEF BooksInv


-----------------------------------------------------------------------------
(***************************************************************************)
(* The row of a pool.                                                      *)
(***************************************************************************)
LEMMA TruncInt ==
  ASSUME NEW n \in Int, NEW d \in Nat \ {0}
  PROVE  Trunc(n, d) \in Int
BY DEF Trunc

\* The fee is between nothing and the whole amount.
LEMMA LessFeeBounds ==
  ASSUME NEW amount \in Int
  PROVE  /\ LessFee(amount) \in Int
         /\ amount >= 0 => 0 <= LessFee(amount) /\ LessFee(amount) <= amount
         /\ \A fee \in Int : FeePlusHalf(fee, amount) \in Int
<1>1. FeeNum \in Nat /\ FeeDen \in Nat \ {0} /\ FeeNum <= FeeDen
  BY DexAssumption
<1> DEFINE rest == FeeDen - FeeNum
           k == amount * rest
<1>2. rest \in Nat /\ rest <= FeeDen
  BY <1>1
<1> HIDE DEF rest
<1>3. k \in Int
  BY <1>2
<1>4. LessFee(amount) = Trunc(k, FeeDen)
  BY DEF LessFee, rest
<1>5. ASSUME amount >= 0
      PROVE  0 <= LessFee(amount) /\ LessFee(amount) <= amount
  <2>1. amount \in Nat /\ k \in Nat
    BY <1>2, <1>5
  <2>2. rest * amount <= FeeDen * amount
    BY <1>1, <1>2, <2>1, ProductMonotone
  <2>3. FeeDen * (amount + 1) = FeeDen * amount + FeeDen /\ FeeDen * amount \in Nat
        /\ rest * amount = k
    BY <1>1, <1>2, <2>1
  <2> HIDE DEF k
  <2>4. k < FeeDen * (amount + 1)
    BY <1>1, <2>1, <2>2, <2>3
  <2>7. amount + 1 \in Nat
    BY <2>1
  <2>5. k \div FeeDen < amount + 1 /\ k \div FeeDen \in Nat
    BY <1>1, <2>1, <2>4, <2>7, DivBelow, DivMod
  <2>6. LessFee(amount) = k \div FeeDen
    BY <1>4, <2>1 DEF Trunc
  <2> QED BY <2>1, <2>5, <2>6
<1>6. ASSUME NEW fee \in Int PROVE FeePlusHalf(fee, amount) \in Int
  <2> DEFINE n == 2 * FeeDen * fee + FeeNum * amount
             d == 2 * FeeDen
  <2>1. d \in Nat \ {0}
    BY <1>1
  <2>2. n \in Int
    BY <1>1
  <2>3. FeePlusHalf(fee, amount) = Trunc(n, d)
    BY DEF FeePlusHalf
  <2> HIDE DEF n, d
  <2> QED BY <2>1, <2>2, <2>3, TruncInt
<1> HIDE DEF k
<1> QED BY <1>1, <1>3, <1>4, <1>5, <1>6, TruncInt

LEMMA RowOfPool ==
  ASSUME NEW row \in currency_stats, GoodPool(row)
  PROVE  /\ row.supply \in Nat /\ row.supply > 0
         /\ row.pool \in [Tokens -> Nat] /\ row.fee \in [Tokens -> Int]
         /\ row.symbols[1] \in Tokens /\ row.symbols[2] \in Tokens
         /\ row.symbols = <<row.symbols[1], row.symbols[2]>>
         /\ PairOf(row.symbols) \subseteq Tokens
         /\ \A t \in PairOf(row.symbols) : row.pool[t] \in Nat /\ row.pool[t] > 0
         /\ \A t \in Tokens \ PairOf(row.symbols) : row.pool[t] = 0
<1>1. /\ row.supply \in Nat /\ row.supply > 0
      /\ row.pool \in [Tokens -> Nat] /\ row.fee \in [Tokens -> Int]
      /\ row.symbols \in Tokens \X Tokens
      /\ \A t \in Tokens : row.pool[t] > 0 <=> t \in PairOf(row.symbols)
  BY DEF currency_stats, GoodPool
<1>2. /\ row.symbols[1] \in Tokens /\ row.symbols[2] \in Tokens
      /\ row.symbols = <<row.symbols[1], row.symbols[2]>>
  BY <1>1
<1>3. PairOf(row.symbols) \subseteq Tokens
  BY <1>2 DEF PairOf
<1> QED BY <1>1, <1>2, <1>3

\* Liquidity that is bought or sold, but for all of it, leaves a pool.
LEMMA LiquidityKeepsPool ==
  ASSUME NEW row \in currency_stats, row.exists, GoodPool(row),
         NEW n \in Int, n # 0, row.supply + n > 0,
         NEW new, new = LiquidityAdded(row, n)
  PROVE  /\ new \in currency_stats /\ new.exists /\ GoodPool(new)
         /\ new.symbols = row.symbols /\ new.supply = row.supply + n
         /\ ToPay(row, n) \in [Tokens -> Int]
         /\ \A t \in Tokens : new.pool[t] = row.pool[t] + ToPay(row, n)[t]
         /\ \A t \in PairOf(row.symbols) :
              new.pool[t] * row.supply >= row.pool[t] * new.supply
<1> DEFINE pay == ToPay(row, n)
           s == row.supply
           m == s + n
           P == PairOf(row.symbols)
           pool == [t \in Tokens |-> row.pool[t] + pay[t]]
<1>1. /\ s \in Nat /\ s > 0 /\ m \in Nat /\ row.pool \in [Tokens -> Nat]
      /\ P \subseteq Tokens
      /\ \A t \in P : row.pool[t] \in Nat /\ row.pool[t] > 0
      /\ \A t \in Tokens \ P : row.pool[t] = 0
  BY RowOfPool
<1>2. /\ \A t \in P : pay[t] = Quotient(n, row.pool[t], s)
      /\ \A t \in Tokens \ P : pay[t] = 0
      /\ pay = [t \in Tokens |-> IF t \in P THEN Quotient(n, row.pool[t], s) ELSE 0]
  BY <1>1 DEF ToPay
<1>3. new = [row EXCEPT !.supply = m, !.pool = pool]
  BY DEF LiquidityAdded
<1> HIDE DEF pay, P, s, m
<1>4. ASSUME NEW t \in P
      PROVE  /\ pay[t] \in Int /\ row.pool[t] + pay[t] \in Nat /\ row.pool[t] + pay[t] > 0
             /\ (row.pool[t] + pay[t]) * s >= row.pool[t] * m
  <2> DEFINE y == row.pool[t]
             q == Quotient(n, y, s)
  <2>1. y \in Nat \ {0} /\ s \in Nat \ {0}
    BY <1>1
  <2>2. pay[t] = q
    BY <1>2
  <2> HIDE DEF y
  <2>3. q \in Int /\ s * q >= n * y /\ (n > 0 => q > 0)
    BY <2>1, QuotientRounds
  <2>4. y + q > 0
    <3>1. CASE n > 0
      BY <2>1, <2>3, <3>1
    <3>2. CASE n < 0
      <4>1. -n < s
        BY <1>1, <3>2 DEF s
      <4> QED BY <2>1, <3>2, <4>1, QuotientBelow
    <3> QED BY <3>1, <3>2
  <2> HIDE DEF q
  <2>5. (y + q) * s = y * s + s * q /\ y * m = y * s + n * y
        /\ y * s \in Int /\ s * q \in Int /\ n * y \in Int
    BY <2>1, <2>3 DEF m
  <2>6. (y + q) * s >= y * m
    BY <2>3, <2>5
  <2> QED BY <2>1, <2>2, <2>3, <2>4, <2>6 DEF y
<1>5. pay \in [Tokens -> Int]
  <2>1. \A t \in Tokens : pay[t] \in Int
    BY <1>2, <1>4
  <2> QED BY <1>2, <2>1
<1>6. /\ pool \in [Tokens -> Nat]
      /\ \A t \in Tokens : pool[t] = row.pool[t] + pay[t]
      /\ \A t \in Tokens : pool[t] > 0 <=> t \in P
  <2>1. \A t \in Tokens : row.pool[t] + pay[t] \in Nat /\ (row.pool[t] + pay[t] > 0 <=> t \in P)
    BY <1>1, <1>2, <1>4
  <2> QED BY <2>1
<1> HIDE DEF pool
<1>7. /\ new \in currency_stats /\ new.exists /\ new.symbols = row.symbols
      /\ new.supply = m /\ new.pool = pool
  BY <1>1, <1>3, <1>6 DEF currency_stats
<1>8. m > 0
  BY DEF m, s
<1>9. GoodPool(new)
  BY <1>6, <1>7, <1>8 DEF GoodPool, P
<1> QED BY <1>1, <1>4, <1>5, <1>6, <1>7, <1>9 DEF m, s, pay, P

\* The product of the two sides of a pool is not lowered.
KeepsProduct(row, new, in, out) ==
  new.pool[in] * new.pool[out] >= row.pool[in] * row.pool[out]

\* An exchange, forwards or backwards, leaves a pool of at least the product.
LEMMA ExchangeKeepsPool ==
  ASSUME NEW row \in currency_stats, row.exists, GoodPool(row),
         NEW amount \in Int, NEW in \in Tokens, NEW out \in Tokens, NEW min,
         NEW a, a = LessFee(amount), NEW b, b = AmountOut(row, in, a, out),
         Exchangeable(row, in, a, out, min),
         NEW new, new = Exchanged(row, in, amount, out)
  PROVE  /\ a \in Int /\ b \in Int /\ in # out /\ PairOf(row.symbols) = {in, out}
         /\ new \in currency_stats /\ new.exists /\ GoodPool(new)
         /\ new.symbols = row.symbols /\ new.supply = row.supply
         /\ \A t \in Tokens : new.pool[t] = IF t = in THEN row.pool[t] + a
                                            ELSE IF t = out THEN row.pool[t] - b
                                            ELSE row.pool[t]
         /\ KeepsProduct(row, new, in, out)
         /\ a > 0 => b < row.pool[out]
<1> DEFINE x == row.pool[in]
           y == row.pool[out]
           z == x + a
           q == Quotient(-a, y, z)
           f == FeePlusHalf(row.fee[in], amount)
<1>1. /\ row.pool \in [Tokens -> Nat] /\ row.fee \in [Tokens -> Int]
      /\ \A t \in PairOf(row.symbols) : row.pool[t] \in Nat /\ row.pool[t] > 0
  BY RowOfPool
<1>2. in # out /\ PairOf(row.symbols) = {in, out}
  <2>1. row.symbols = <<in, out>> \/ row.symbols = <<out, in>>
    BY DEF Exchangeable
  <2> QED BY <2>1 DEF GoodPool, PairOf
<1>3. a \in Int /\ f \in Int
  <2>1. row.fee[in] \in Int
    BY <1>1
  <2> QED BY <2>1, LessFeeBounds
<1>4. x \in Nat \ {0} /\ y \in Nat \ {0}
  BY <1>1, <1>2
<1>5. a # 0 /\ z > 0 /\ z \in Nat
  <2>1. -a # 0 /\ z > 0
    BY DEF Exchangeable, Computable
  <2> HIDE DEF x
  <2> QED BY <1>3, <1>4, <2>1
<1>6. b = -q
  BY DEF AmountOut
<1>7. new = [row EXCEPT !.fee = [row.fee EXCEPT ![in] = f],
                        !.pool = [row.pool EXCEPT ![in] = z, ![out] = y + q]]
  <2>1. new = [row EXCEPT !.fee[in] = f, !.pool[in] = x + a, !.pool[out] = @ - b]
    BY DEF Exchanged
  <2>2. [row.pool EXCEPT ![in] = x + a][out] - b = y + q
    <3>1. [row.pool EXCEPT ![in] = x + a][out] = y
      BY <1>1, <1>2
    <3> HIDE DEF x, z, y
    <3>2. -a \in Int /\ -a # 0 /\ y \in Nat \ {0} /\ z \in Nat \ {0}
      BY <1>3, <1>4, <1>5
    <3>3. q \in Int
      BY <3>2, QuotientRounds
    <3> HIDE DEF q
    <3> QED BY <1>4, <1>6, <3>1, <3>3
  <2>3. row \in [exists : BOOLEAN, supply : Nat,
                 symbols : (Tokens \X Tokens) \cup {<<>>},
                 pool : [Tokens -> Nat], fee : [Tokens -> Int]]
    BY DEF currency_stats
  <2> HIDE DEF f, x, y, z, q
  <2> QED BY <1>1, <1>2, <2>1, <2>2, <2>3 DEF z, x, y
<1> HIDE DEF x, y, f
<1>8. /\ q \in Int /\ z * q >= (-a) * y
      /\ -a > 0 => q > 0
  <2>1. -a \in Int /\ -a # 0 /\ y \in Nat \ {0} /\ z \in Nat \ {0}
    BY <1>3, <1>4, <1>5
  <2> HIDE DEF z
  <2> QED BY <2>1, QuotientRounds
<1>9. y + q > 0
  <2>1. CASE a > 0
    <3>1. -a < 0 /\ -(-a) < z /\ -a \in Int /\ z \in Nat \ {0}
      BY <1>3, <1>4, <1>5, <2>1
    <3> HIDE DEF z
    <3> QED BY <1>4, <3>1, QuotientBelow
  <2>2. CASE a < 0
    <3>1. -a > 0
      BY <1>3, <2>2
    <3> HIDE DEF q, z
    <3> QED BY <1>4, <1>8, <3>1
  <2> QED BY <1>3, <1>5, <2>1, <2>2
<1> HIDE DEF q
<1>10. z * (y + q) >= x * y
  <2>1. z * (y + q) = x * y + a * y + z * q
    <3>1. z * (y + q) = z * y + z * q
      BY <1>4, <1>5, <1>8
    <3>2. z * y = x * y + a * y
      BY <1>3, <1>4
    <3> QED BY <3>1, <3>2
  <2>2. (-a) * y = -(a * y) /\ a * y \in Int /\ x * y \in Int
    BY <1>3, <1>4
  <2>3. z * q \in Int
    BY <1>5, <1>8
  <2> HIDE DEF z
  <2> QED BY <1>8, <2>1, <2>2, <2>3
<1> HIDE DEF z
<1> DEFINE pool == [row.pool EXCEPT ![in] = z, ![out] = y + q]
           fee == [row.fee EXCEPT ![in] = f]
<1>11. /\ pool \in [Tokens -> Nat] /\ pool[in] = z /\ pool[out] = y + q
       /\ \A t \in Tokens : t # in /\ t # out => pool[t] = row.pool[t]
       /\ fee \in [Tokens -> Int]
  <2>1. y + q \in Nat
    BY <1>4, <1>8, <1>9
  <2> QED BY <1>1, <1>2, <1>3, <1>5, <2>1
<1>12. new = [row EXCEPT !.fee = fee, !.pool = pool]
  BY <1>7
<1> HIDE DEF pool, fee
<1>13. /\ new \in currency_stats /\ new.exists
       /\ new.symbols = row.symbols /\ new.supply = row.supply /\ new.pool = pool
  BY <1>11, <1>12 DEF currency_stats
<1>14. GoodPool(new)
  <2>1. \A t \in Tokens : new.pool[t] > 0 <=> t \in PairOf(row.symbols)
    <3> SUFFICES ASSUME NEW t \in Tokens PROVE pool[t] > 0 <=> t \in PairOf(row.symbols)
      BY <1>13
    <3>1. CASE t = in
      BY <1>2, <1>5, <1>11, <3>1
    <3>2. CASE t = out
      BY <1>2, <1>9, <1>11, <3>2
    <3>3. CASE t # in /\ t # out
      BY <1>11, <3>3 DEF GoodPool
    <3> QED BY <3>1, <3>2, <3>3
  <2> QED BY <1>13, <2>1 DEF GoodPool
<1>15. a > 0 => b < y
  BY <1>4, <1>6, <1>8, <1>9
<1>16. \A t \in Tokens : new.pool[t] = IF t = in THEN row.pool[t] + a
                                       ELSE IF t = out THEN row.pool[t] - b
                                       ELSE row.pool[t]
  <2>1. y + q = y - b
    BY <1>4, <1>6, <1>8
  <2> QED BY <1>11, <1>13, <2>1 DEF x, y, z
<1> QED BY <1>2, <1>3, <1>6, <1>8, <1>10, <1>11, <1>13, <1>14, <1>15, <1>16 DEF x, y, KeepsProduct


-----------------------------------------------------------------------------
(***************************************************************************)
(* The tables that list the pools.                                         *)
(***************************************************************************)
\* Steps that leave the lists, and every pool's existence and pair, alone.
LEMMA SameLists ==
  ASSUME RegistryConsistent, UNCHANGED listVars,
         \A lp \in LpSymbols : /\ stats'[lp].exists <=> stats[lp].exists
                               /\ stats'[lp].symbols = stats[lp].symbols
  PROVE  RegistryConsistent'
<1>1. LpRows' = LpRows /\ LpRows \subseteq LpSymbols
  BY DEF LpRows
<1>2. swap_lists' = swap_lists /\ pool_lists' = pool_lists /\ lemindexes' = lemindexes
  BY DEF listVars
<1>3. \A lp \in LpRows : stats'[lp].symbols = stats[lp].symbols
  BY <1>1
<1>4. /\ {PoolList(lp, stats'[lp].symbols) : lp \in LpRows}
           = {PoolList(lp, stats[lp].symbols) : lp \in LpRows}
      /\ {Index(lp, stats'[lp].symbols) : lp \in LpRows}
           = {Index(lp, stats[lp].symbols) : lp \in LpRows}
      /\ {Swappable(stats'[lp].symbols) : lp \in LpRows}
           = {Swappable(stats[lp].symbols) : lp \in LpRows}
  BY <1>3
<1> QED BY <1>1, <1>2, <1>3, <1>4 DEF RegistryConsistent

\* A pool's row is replaced by another for the same pair.
LEMMA ReplacePool ==
  ASSUME DInv, NEW lp \in LpSymbols, stats[lp].exists,
         NEW row \in currency_stats, row.exists, GoodPool(row),
         row.symbols = stats[lp].symbols, stats' = [stats EXCEPT ![lp] = row],
         UNCHANGED listVars
  PROVE  RegistryConsistent' /\ GoodPools' /\ stats' \in [LpSymbols -> currency_stats]
<1>1. stats \in [LpSymbols -> currency_stats]
  BY DEF DInv, SharesInv, LpTokenTypeOK
<1>2. /\ stats' \in [LpSymbols -> currency_stats] /\ stats'[lp] = row
      /\ \A l \in LpSymbols : l # lp => stats'[l] = stats[l]
  BY <1>1
<1>3. \A l \in LpSymbols : /\ stats'[l].exists <=> stats[l].exists
                           /\ stats'[l].symbols = stats[l].symbols
  BY <1>2
<1>4. RegistryConsistent'
  BY <1>3, SameLists DEF DInv
<1>5. GoodPools'
  <2> SUFFICES ASSUME NEW l \in LpSymbols
               PROVE IF stats'[l].exists THEN GoodPool(stats'[l]) ELSE stats'[l] = NoStats
    BY DEF GoodPools
  <2>1. CASE l = lp
    BY <1>2, <2>1
  <2>2. CASE l # lp
    BY <1>2, <2>2 DEF DInv, GoodPools
  <2> QED BY <2>1, <2>2
<1> QED BY <1>2, <1>4, <1>5

\* Steps that leave the pools alone.
LEMMA SamePools ==
  ASSUME DInv, BooksInv', SharesInv', stats' = stats, UNCHANGED listVars
  PROVE  DInv'
<1>1. RegistryConsistent'
  BY SameLists DEF DInv
<1>2. GoodPools'
  BY DEF DInv, GoodPools
<1> QED BY <1>1, <1>2 DEF DInv

\* A new pool is entered in all lists.
LEMMA ListNewPool ==
  ASSUME DInv, NEW lp \in LpSymbols, ~stats[lp].exists,
         NEW t \in Tokens, NEW s \in Tokens, ~Indexed(<<t, s>>),
         NEW row \in currency_stats, row.exists, GoodPool(row), row.symbols = <<t, s>>,
         stats' = [stats EXCEPT ![lp] = row],
         swap_lists' = swap_lists \cup Swappable(<<t, s>>),
         pool_lists' = pool_lists \cup {PoolList(lp, <<t, s>>)},
         lemindexes' = lemindexes \cup {Index(lp, <<t, s>>)}
  PROVE  RegistryConsistent' /\ GoodPools' /\ stats' \in [LpSymbols -> currency_stats]
<1>1. stats \in [LpSymbols -> currency_stats]
  BY DEF DInv, SharesInv, LpTokenTypeOK
<1>2. /\ stats' \in [LpSymbols -> currency_stats] /\ stats'[lp] = row
      /\ \A l \in LpSymbols : l # lp => stats'[l] = stats[l]
  BY <1>1
<1>3. LpRows' = LpRows \cup {lp} /\ lp \notin LpRows /\ LpRows \subseteq LpSymbols
  BY <1>2 DEF LpRows
<1>4. /\ \A l \in LpRows : stats'[l].symbols = stats[l].symbols
      /\ stats'[lp].symbols = <<t, s>>
  BY <1>2, <1>3
<1>5. /\ pool_lists = {PoolList(l, stats[l].symbols) : l \in LpRows}
      /\ lemindexes = {Index(l, stats[l].symbols) : l \in LpRows}
      /\ swap_lists = UNION {Swappable(stats[l].symbols) : l \in LpRows}
      /\ \A l, m \in LpRows :
           PairOf(stats[l].symbols) = PairOf(stats[m].symbols) => l = m
  BY DEF DInv, RegistryConsistent
<1>6. pool_lists' = {PoolList(l, stats'[l].symbols) : l \in LpRows'}
  BY <1>3, <1>4, <1>5
<1>7. lemindexes' = {Index(l, stats'[l].symbols) : l \in LpRows'}
  BY <1>3, <1>4, <1>5
<1>8. swap_lists' = UNION {Swappable(stats'[l].symbols) : l \in LpRows'}
  <2>1. {Swappable(stats'[l].symbols) : l \in LpRows'}
          = {Swappable(stats[l].symbols) : l \in LpRows} \cup {Swappable(<<t, s>>)}
    BY <1>3, <1>4
  <2> QED BY <1>5, <2>1
<1>9. \A l \in LpRows : PairOf(stats[l].symbols) # PairOf(<<t, s>>)
  <2> SUFFICES ASSUME NEW l \in LpRows, PairOf(stats[l].symbols) = PairOf(<<t, s>>)
               PROVE FALSE
    OBVIOUS
  <2>1. Index(l, stats[l].symbols) \in lemindexes
    BY <1>5
  <2>2. Index(l, stats[l].symbols).pair = PairOf(<<t, s>>)
    BY DEF Index
  <2> QED BY <2>1, <2>2 DEF Indexed
<1>10. \A l, m \in LpRows' :
         PairOf(stats'[l].symbols) = PairOf(stats'[m].symbols) => l = m
  BY <1>3, <1>4, <1>5, <1>9
<1>11. RegistryConsistent'
  BY <1>6, <1>7, <1>8, <1>10 DEF RegistryConsistent
<1>12. GoodPools'
  <2> SUFFICES ASSUME NEW l \in LpSymbols
               PROVE IF stats'[l].exists THEN GoodPool(stats'[l]) ELSE stats'[l] = NoStats
    BY DEF GoodPools
  <2>1. CASE l = lp
    BY <1>2, <2>1
  <2>2. CASE l # lp
    BY <1>2, <2>2 DEF DInv, GoodPools
  <2> QED BY <2>1, <2>2
<1> QED BY <1>2, <1>11, <1>12

LEMMA RmpoolLists ==
  ASSUME DInv, NEW lp \in LpSymbols, rmpool(lp)
  PROVE  RegistryConsistent' /\ GoodPools'
<1>1. /\ stats[lp].exists /\ stats' = [stats EXCEPT ![lp] = NoStats]
      /\ pool_lists' = {p \in pool_lists : p.lp_symbol # lp}
      /\ lemindexes' = {i \in lemindexes : i.lp_symbol # lp}
      /\ swap_lists' = swap_lists \ Swappable(stats[lp].symbols)
      /\ stats \in [LpSymbols -> currency_stats]
  BY DEF rmpool, WithoutPair, DInv, SharesInv, LpTokenTypeOK
<1>2. /\ stats'[lp] = NoStats /\ \A l \in LpSymbols : l # lp => stats'[l] = stats[l]
  BY <1>1
<1>3. ~NoStats.exists
  BY DEF NoStats
<1> HIDE DEF NoStats
<1>4. LpRows' = LpRows \ {lp} /\ lp \in LpRows /\ LpRows \subseteq LpSymbols
  BY <1>1, <1>2, <1>3 DEF LpRows
<1>5. \A l \in LpRows' : stats'[l].symbols = stats[l].symbols
  BY <1>2, <1>4
<1>6. /\ pool_lists = {PoolList(l, stats[l].symbols) : l \in LpRows}
      /\ lemindexes = {Index(l, stats[l].symbols) : l \in LpRows}
      /\ swap_lists = UNION {Swappable(stats[l].symbols) : l \in LpRows}
      /\ \A l, m \in LpRows :
           PairOf(stats[l].symbols) = PairOf(stats[m].symbols) => l = m
  BY DEF DInv, RegistryConsistent
<1>7. pool_lists' = {PoolList(l, stats'[l].symbols) : l \in LpRows'}
  <2>1. \A l \in LpRows : PoolList(l, stats[l].symbols).lp_symbol = l
    BY DEF PoolList
  <2> QED BY <1>1, <1>4, <1>5, <1>6, <2>1
<1>8. lemindexes' = {Index(l, stats'[l].symbols) : l \in LpRows'}
  <2>1. \A l \in LpRows : Index(l, stats[l].symbols).lp_symbol = l
    BY DEF Index
  <2> QED BY <1>1, <1>4, <1>5, <1>6, <2>1
<1>9. \A l \in LpRows' : Swappable(stats[l].symbols) \cap Swappable(stats[lp].symbols) = {}
  <2> SUFFICES ASSUME NEW l \in LpRows', NEW x \in Swappable(stats[l].symbols),
                      x \in Swappable(stats[lp].symbols)
               PROVE  FALSE
    OBVIOUS
  <2>1. /\ stats[l].symbols = <<stats[l].symbols[1], stats[l].symbols[2]>>
        /\ stats[lp].symbols = <<stats[lp].symbols[1], stats[lp].symbols[2]>>
    <3>1. GoodPool(stats[l]) /\ GoodPool(stats[lp])
      BY <1>4 DEF DInv, GoodPools, LpRows
    <3>2. stats[l] \in currency_stats /\ stats[lp] \in currency_stats
      BY <1>1, <1>4
    <3> QED BY <3>1, <3>2, RowOfPool
  <2>2. {x[1], x[2]} = PairOf(stats[l].symbols) /\ {x[1], x[2]} = PairOf(stats[lp].symbols)
    BY <2>1 DEF Swappable, PairOf
  <2> QED BY <1>4, <1>6, <2>2
<1>10. swap_lists' = UNION {Swappable(stats'[l].symbols) : l \in LpRows'}
  <2>1. {Swappable(stats'[l].symbols) : l \in LpRows'}
          = {Swappable(stats[l].symbols) : l \in LpRows'}
    BY <1>5
  <2> DEFINE gone == Swappable(stats[lp].symbols)
             left == UNION {Swappable(stats[l].symbols) : l \in LpRows'}
  <2>2. swap_lists = left \cup gone
    BY <1>4, <1>6
  <2>3. left \cap gone = {}
    BY <1>9
  <2>4. swap_lists' = left
    BY <1>1, <2>2, <2>3
  <2> QED BY <2>1, <2>4
<1>11. RegistryConsistent'
  BY <1>4, <1>5, <1>6, <1>7, <1>8, <1>10 DEF RegistryConsistent
<1>12. GoodPools'
  <2> SUFFICES ASSUME NEW l \in LpSymbols
               PROVE IF stats'[l].exists THEN GoodPool(stats'[l]) ELSE stats'[l] = NoStats
    BY DEF GoodPools
  <2>1. CASE l = lp
    BY <1>2, <1>3, <2>1
  <2>2. CASE l # lp
    BY <1>2, <2>2 DEF DInv, GoodPools
  <2> QED BY <2>1, <2>2
<1> QED BY <1>11, <1>12


-----------------------------------------------------------------------------
(***************************************************************************)
(* Each operation preserves DInv.                                          *)
(***************************************************************************)
\* issue_lem keeps the config active and its era an era.
LEMMA IssuedConfig ==
  ASSUME ClockInv, configs.is_active
  PROVE  ConfigAfterIssue.is_active /\ ConfigAfterIssue.half_life_count \in 0 .. 3
<1>1. configs \in config
  BY DEF ClockInv, IssuanceTypeOK
<1>2. CASE ~IssuesLem
  BY <1>1, <1>2 DEF ConfigAfterIssue, config
<1>3. CASE IssuesLem
  <2>1. SinceLastFill.half_life \in 0 .. 3
    BY <1>3, LoopResult DEF Ready, ClockInv, IssuesLem
  <2> DEFINE era == SinceLastFill.half_life
  <2>2. ConfigAfterIssue = [configs EXCEPT !.half_life_count = era, !.last_lem_bucket_fill = now]
    BY <1>3 DEF ConfigAfterIssue, ConfigFilled
  <2> HIDE DEF era
  <2> QED BY <1>1, <2>1, <2>2 DEF config, era
<1> QED BY <1>2, <1>3

LEMMA DexEmissionInv ==
  ASSUME DInv, Emission
  PROVE  DInv'
<1>1. /\ IssuanceNext /\ dexacnts' = dexacnts /\ poolrewards' = poolrewards /\ ledger' = ledger
      /\ stats' = stats /\ accounts' = accounts /\ user_infos' = user_infos
      /\ frozens' = frozens /\ UNCHANGED listVars
  BY DEF Emission, lpVars
<1>2. ClockInv /\ configs.is_active
  BY DEF DInv, BooksInv
<1>3. ClockInv'
  BY <1>1, <1>2, EmissionKeepsClock
<1>4. configs'.is_active
  <2>1. CASE Tick
    BY <1>2, <2>1 DEF Tick
  <2>2. CASE init
    BY <1>2, <2>2 DEF init
  <2>3. CASE issuelem
    BY <1>2, <2>3, IssuedConfig DEF issuelem
  <2> QED BY <1>1, <2>1, <2>2, <2>3 DEF IssuanceNext
<1>5. BooksInv'
  BY <1>1, <1>3, <1>4 DEF DInv, BooksInv
<1>6. SharesInv'
  BY <1>1 DEF DInv, SharesInv, LpTokenTypeOK, SupplyIsHeld, Balances
<1> QED BY <1>1, <1>5, <1>6, SamePools

LEMMA PoolTokensInv ==
  ASSUME DInv, PoolTokens
  PROVE  DInv'
<1>1. /\ LpTokenNext /\ dexacnts' = dexacnts /\ poolrewards' = poolrewards /\ ledger' = ledger
      /\ now' = now /\ configs' = configs /\ lem' = lem /\ UNCHANGED listVars
  BY DEF PoolTokens, issuanceVars
<1>2. SharesInv' /\ stats' = stats
  BY <1>1, PoolTokensKeep DEF DInv
<1>3. ClockInv'
  BY <1>1, LedgerKeepsClock DEF DInv, BooksInv, ClockInv, IssuanceTypeOK
<1>4. BooksInv'
  BY <1>1, <1>3 DEF DInv, BooksInv
<1> QED BY <1>1, <1>2, <1>4, SamePools

\* What a step on external balances has to show.
LEMMA ExternalInv ==
  ASSUME DInv, ClockInv', configs'.is_active,
         ledger' \in [OtherTokens -> [self : Nat, users : Nat]],
         dexacnts' \in [Users -> [Tokens -> holding]],
         \A v \in Users, t \in Tokens : ~dexacnts'[v][t].open => dexacnts'[v][t].balance = 0,
         UNCHANGED <<lpVars, listVars, poolrewards>>
  PROVE  DInv'
<1>1. /\ stats' = stats /\ accounts' = accounts /\ user_infos' = user_infos
      /\ frozens' = frozens /\ UNCHANGED listVars /\ poolrewards' = poolrewards
  BY DEF lpVars
<1>2. BooksInv'
  BY <1>1 DEF DInv, BooksInv
<1>3. SharesInv'
  BY <1>1 DEF DInv, SharesInv, LpTokenTypeOK, SupplyIsHeld, Balances
<1> QED BY <1>1, <1>2, <1>3, SamePools

LEMMA OpenextInv ==
  ASSUME DInv, NEW u \in Users, NEW t \in Tokens, openext(u, t)
  PROVE  DInv'
<1> DEFINE row == Holding(0)
<1>1. row \in holding /\ row.open
  BY DEF Holding, holding
<1>2. /\ dexacnts' = [dexacnts EXCEPT ![u][t] = row] /\ ledger' = ledger
      /\ now' = now /\ configs' = configs /\ lem' = lem
      /\ UNCHANGED <<lpVars, listVars, poolrewards>>
  BY DEF openext, issuanceVars
<1> HIDE DEF row
<1>3. /\ dexacnts' \in [Users -> [Tokens -> holding]]
      /\ \A v \in Users, s \in Tokens : ~dexacnts'[v][s].open => dexacnts'[v][s].balance = 0
  BY <1>1, <1>2, OneExternalKeeps DEF DInv
<1>4. ClockInv' /\ configs'.is_active
  BY <1>2, LedgerKeepsClock DEF DInv, BooksInv, ClockInv, IssuanceTypeOK
<1>5. ledger' \in [OtherTokens -> [self : Nat, users : Nat]]
  BY <1>2 DEF DInv, BooksInv
<1> QED BY <1>2, <1>3, <1>4, <1>5, ExternalInv

LEMMA CloseextInv ==
  ASSUME DInv, NEW u \in Users, NEW t \in Tokens, closeext(u, t)
  PROVE  DInv'
<1> DEFINE row == NoHolding
           flow == Only(t, -dexacnts[u][t].balance)
<1>1. row \in holding /\ row.balance = 0
  BY DEF NoHolding, holding
<1>2. /\ dexacnts' = [dexacnts EXCEPT ![u][t] = row] /\ MoveTokens(flow)
      /\ now' = now /\ configs' = configs
      /\ UNCHANGED <<lpVars, listVars, poolrewards>>
  BY DEF closeext
<1>3. flow \in [Tokens -> Int]
  <2>1. -dexacnts[u][t].balance \in Int
    BY DEF DInv, BooksInv, holding
  <2> QED BY <2>1, Flows
<1> HIDE DEF row, flow
<1>4. /\ dexacnts' \in [Users -> [Tokens -> holding]]
      /\ \A v \in Users, s \in Tokens : ~dexacnts'[v][s].open => dexacnts'[v][s].balance = 0
  BY <1>1, <1>2, OneExternalKeeps DEF DInv
<1>5. /\ ClockInv' /\ configs'.is_active
      /\ ledger' \in [OtherTokens -> [self : Nat, users : Nat]]
  BY <1>2, <1>3, MoveTokensKeeps DEF DInv
<1> QED BY <1>2, <1>4, <1>5, ExternalInv

LEMMA DepositInv ==
  ASSUME DInv, NEW u \in Users, NEW t \in Tokens, NEW x \in Int,
         MoveTokens(Only(t, x)), add_signed_ext_balance(u, {t}, Only(t, x)),
         UNCHANGED <<now, configs, lpVars, listVars, poolrewards>>
  PROVE  DInv'
<1> DEFINE flow == Only(t, x)
           touched == {t}
<1>1. flow \in [Tokens -> Int] /\ touched \in SUBSET Tokens
  BY Flows
<1>2. /\ MoveTokens(flow) /\ add_signed_ext_balance(u, touched, flow)
      /\ now' = now /\ configs' = configs /\ UNCHANGED <<lpVars, listVars, poolrewards>>
  OBVIOUS
<1> HIDE DEF flow, touched
<1>3. /\ dexacnts' \in [Users -> [Tokens -> holding]]
      /\ \A v \in Users, s \in Tokens : ~dexacnts'[v][s].open => dexacnts'[v][s].balance = 0
  BY <1>1, <1>2, ExternalKeeps DEF DInv
<1>4. /\ ClockInv' /\ configs'.is_active
      /\ ledger' \in [OtherTokens -> [self : Nat, users : Nat]]
  BY <1>1, <1>2, MoveTokensKeeps DEF DInv
<1> QED BY <1>2, <1>3, <1>4, ExternalInv

LEMMA ExternalBalancesInv ==
  ASSUME DInv, ExternalBalances
  PROVE  DInv'
<1>1. PICK u \in Traders, t \in Tokens :
        \/ openext(u, t) \/ closeext(u, t)
        \/ \E q \in Deposits : deposit(u, t, q) \/ withdraw(u, t, q)
  BY DEF ExternalBalances
<1>2. u \in Users
  BY DexAssumption
<1>3. ASSUME NEW q \in Deposits, deposit(u, t, q) \/ withdraw(u, t, q) PROVE DInv'
  <2>1. q \in Int /\ -q \in Int
    <3>1. Deposits \subseteq Nat
      BY DexAssumption
    <3>2. q \in Nat
      BY <3>1
    <3> QED BY <3>2
  <2>2. ASSUME deposit(u, t, q) PROVE DInv'
    BY <1>2, <2>1, <2>2, DepositInv DEF deposit
  <2>3. ASSUME withdraw(u, t, q) PROVE DInv'
    BY <1>2, <2>1, <2>3, DepositInv DEF withdraw
  <2> QED BY <1>3, <2>2, <2>3
<1> QED BY <1>1, <1>2, <1>3, OpenextInv, CloseextInv


\* A new pool's row.
LEMMA NewPool ==
  ASSUME NEW t \in Tokens, NEW s \in Tokens, t # s,
         NEW x \in Nat \ {0}, NEW y \in Nat \ {0}, NEW row, row = NewStats(t, x, s, y)
  PROVE  /\ row \in currency_stats /\ row.exists /\ GoodPool(row)
         /\ row.symbols = <<t, s>> /\ row.supply = FloorSqrt(x * y)
         /\ FloorSqrt(x * y) \in Nat
         /\ row.pool = Both(t, x, s, y)
<1>1. FloorSqrt(x * y) \in Nat /\ FloorSqrt(x * y) > 0
  <2>1. x * y \in Nat \ {0}
    <3>1. x * y \in Nat
      OBVIOUS
    <3>2. x * y > 0
      <4>1. 1 * y <= x * y
        BY ProductMonotone
      <4> QED BY <3>1, <4>1
    <3> QED BY <3>1, <3>2
  <2> QED BY <2>1, FloorSqrtPositive
<1> DEFINE pool == Both(t, x, s, y)
           fee == NoAmounts
           root == FloorSqrt(x * y)
<1>2. /\ pool \in [Tokens -> Nat] /\ \A r \in Tokens : pool[r] > 0 <=> r \in {t, s}
  BY DEF Both
<1>3. fee \in [Tokens -> Int]
  BY DEF NoAmounts
<1>4. row = [exists |-> TRUE, supply |-> root, symbols |-> <<t, s>>, pool |-> pool, fee |-> fee]
  BY DEF NewStats
<1> HIDE DEF pool, fee, root
<1>5. root \in Nat /\ root > 0
  BY <1>1 DEF root
<1>6. /\ row \in currency_stats /\ row.exists /\ row.symbols = <<t, s>>
      /\ row.supply = root /\ row.pool = pool
  BY <1>2, <1>3, <1>4, <1>5 DEF currency_stats
<1>7. PairOf(<<t, s>>) = {t, s}
  BY DEF PairOf
<1>8. GoodPool(row)
  BY <1>2, <1>5, <1>6, <1>7 DEF GoodPool
<1> QED BY <1>1, <1>6, <1>8 DEF root, pool

\* The two amounts and the creation fee that leave the external balances.
LEMMA PriceOfPool ==
  ASSUME NEW t \in Tokens, NEW s \in Tokens, NEW x \in Nat, NEW y \in Nat,
         NEW to_add,
         to_add = [r \in Tokens |-> -Both(t, x, s, y)[r] - Only("LEM", CreationFee)[r]]
  PROVE  /\ to_add \in [Tokens -> Int]
         /\ \A r \in Tokens : to_add[r] <= -Both(t, x, s, y)[r]
<1>1. /\ Both(t, x, s, y) \in [Tokens -> Int] /\ Only("LEM", CreationFee) \in [Tokens -> Int]
      /\ \A r \in Tokens : Only("LEM", CreationFee)[r] >= 0
  BY Flows, DexAssumption DEF Only
<1> QED BY <1>1

LEMMA InittokenInv ==
  ASSUME DInv, NEW u \in Users, NEW lp \in LpSymbols, NEW p \in Pairs,
         NEW x \in Deposits, NEW y \in Deposits, inittoken(u, lp, p[1], x, p[2], y)
  PROVE  DInv'
<1> DEFINE t == p[1]
           s == p[2]
           row == NewStats(t, x, s, y)
           to_add == [r \in Tokens |-> -Both(t, x, s, y)[r] - Only("LEM", CreationFee)[r]]
           touched == {t, s, "LEM"}
           root == FloorSqrt(x * y)
<1>1. t \in Tokens /\ s \in Tokens /\ x \in Nat \ {0} /\ y \in Nat \ {0}
  <2>1. Pairs \subseteq Tokens \X Tokens /\ Deposits \subseteq Nat \ {0}
    BY DexAssumption
  <2>2. p \in Tokens \X Tokens
    BY <2>1
  <2> QED BY <2>1, <2>2
<1>2. /\ t # s /\ ~stats[lp].exists /\ ~Indexed(<<t, s>>)
      /\ add_signed_ext_balance(u, touched, to_add)
      /\ stats' = [stats EXCEPT ![lp] = row]
      /\ swap_lists' = swap_lists \cup Swappable(<<t, s>>)
      /\ pool_lists' = pool_lists \cup {PoolList(lp, <<t, s>>)}
      /\ lemindexes' = lemindexes \cup {Index(lp, <<t, s>>)}
      /\ add_balance(lp, u, root)
      /\ now' = now /\ configs' = configs /\ lem' = lem /\ ledger' = ledger
      /\ frozens' = frozens /\ poolrewards' = poolrewards
  BY DEF inittoken, issuanceVars
<1> HIDE DEF t, s, row, to_add, touched, root
<1>3. to_add \in [Tokens -> Int] /\ touched \in SUBSET Tokens
  <2>1. x \in Nat /\ y \in Nat
    BY <1>1
  <2>2. to_add = [r \in Tokens |-> -Both(t, x, s, y)[r] - Only("LEM", CreationFee)[r]]
    BY DEF to_add
  <2>3. to_add \in [Tokens -> Int]
    BY ONLY <1>1, <2>1, <2>2, PriceOfPool
  <2> QED BY <1>1, <2>3, Flows DEF touched
<1>4. /\ row \in currency_stats /\ row.exists /\ GoodPool(row)
      /\ row.symbols = <<t, s>> /\ row.supply = root /\ root \in Nat
  <2>1. row = NewStats(t, x, s, y) /\ t # s
    BY <1>2 DEF row
  <2>2. /\ row \in currency_stats /\ row.exists /\ GoodPool(row)
        /\ row.symbols = <<t, s>> /\ row.supply = FloorSqrt(x * y)
        /\ FloorSqrt(x * y) \in Nat
    BY ONLY <1>1, <2>1, NewPool
  <2> QED BY ONLY <2>2 DEF root
<1>5. /\ dexacnts' \in [Users -> [Tokens -> holding]]
      /\ \A v \in Users, r \in Tokens : ~dexacnts'[v][r].open => dexacnts'[v][r].balance = 0
  BY <1>2, <1>3, ExternalKeeps DEF DInv
<1>6. ClockInv' /\ configs'.is_active
  BY <1>2, LedgerKeepsClock DEF DInv, BooksInv, ClockInv, IssuanceTypeOK
<1>7. BooksInv'
  BY <1>2, <1>5, <1>6 DEF DInv, BooksInv
<1>8. RegistryConsistent' /\ GoodPools'
  BY <1>1, <1>2, <1>4, ListNewPool
<1>9. SharesInv'
  <2>1. stats[lp].supply = 0
    BY <1>2 DEF DInv, GoodPools, NoStats
  <2>2. row.supply = stats[lp].supply + root
    BY <1>4, <2>1
  <2> QED BY <1>2, <1>4, <2>2, AddBalanceKeeps DEF DInv
<1> QED BY <1>7, <1>8, <1>9 DEF DInv

LEMMA RmpoolInv ==
  ASSUME DInv, NEW lp \in LpSymbols, rmpool(lp)
  PROVE  DInv'
<1>1. RegistryConsistent' /\ GoodPools' /\ SharesInv'
  BY RmpoolLists, RmpoolShares DEF DInv
<1>2. /\ now' = now /\ configs' = configs /\ lem' = lem /\ ledger' = ledger
      /\ dexacnts' = dexacnts /\ poolrewards' = poolrewards
  BY DEF rmpool, issuanceVars
<1>3. ClockInv'
  BY <1>2, LedgerKeepsClock DEF DInv, BooksInv, ClockInv, IssuanceTypeOK
<1>4. BooksInv'
  BY <1>2, <1>3 DEF DInv, BooksInv
<1> QED BY <1>1, <1>4 DEF DInv

\* What is known of a pool that exists.
LEMMA PoolRow ==
  ASSUME DInv, NEW lp \in LpSymbols, stats[lp].exists
  PROVE  stats[lp] \in currency_stats /\ GoodPool(stats[lp])
BY DEF DInv, GoodPools, SharesInv, LpTokenTypeOK

\* What the part of a change of liquidity without the pool tokens does.
LEMMA LiquidityParts ==
  ASSUME DInv, NEW u \in Users, NEW lp \in LpSymbols, NEW n \in Int, n # 0,
         NEW l1, NEW l2, AddSignedLiq(u, lp, n, l1, l2), stats[lp].supply + n > 0
  PROVE  /\ BooksInv' /\ RegistryConsistent' /\ GoodPools' /\ frozens' = frozens
         /\ LiquidityAdded(stats[lp], n) \in currency_stats
         /\ stats' = [stats EXCEPT ![lp] = LiquidityAdded(stats[lp], n)]
         /\ LiquidityAdded(stats[lp], n).supply = stats[lp].supply + n
<1> DEFINE old == stats[lp]
           row == LiquidityAdded(old, n)
           pay == ToPay(old, n)
           back == [t \in Tokens |-> -pay[t]]
           P == PairOf(old.symbols)
<1>1. /\ old.exists /\ add_signed_ext_balance(u, P, back)
      /\ stats' = [stats EXCEPT ![lp] = row]
      /\ now' = now /\ configs' = configs /\ lem' = lem /\ ledger' = ledger
      /\ frozens' = frozens /\ poolrewards' = poolrewards /\ UNCHANGED listVars
  BY DEF AddSignedLiq, issuanceVars
<1>2. old \in currency_stats /\ GoodPool(old)
  BY <1>1, PoolRow
<1>3. P \in SUBSET Tokens
  BY <1>2, RowOfPool
<1> HIDE DEF old, row, pay, P
<1>4. /\ row \in currency_stats /\ row.exists /\ GoodPool(row)
      /\ row.symbols = old.symbols /\ row.supply = old.supply + n
      /\ pay \in [Tokens -> Int]
  <2>1. old.supply + n > 0
    BY DEF old
  <2> QED BY <1>1, <1>2, <2>1, LiquidityKeepsPool DEF row, pay
<1>5. back \in [Tokens -> Int]
  BY <1>4
<1> HIDE DEF back
<1>6. /\ dexacnts' \in [Users -> [Tokens -> holding]]
      /\ \A v \in Users, r \in Tokens : ~dexacnts'[v][r].open => dexacnts'[v][r].balance = 0
  BY <1>1, <1>3, <1>5, ExternalKeeps DEF DInv
<1>7. ClockInv' /\ configs'.is_active
  BY <1>1, LedgerKeepsClock DEF DInv, BooksInv, ClockInv, IssuanceTypeOK
<1>8. BooksInv'
  BY <1>1, <1>6, <1>7 DEF DInv, BooksInv
<1>9. RegistryConsistent' /\ GoodPools'
  BY <1>1, <1>4, ReplacePool DEF old
<1> QED BY <1>1, <1>4, <1>8, <1>9 DEF row, old

LEMMA LiquidityInv ==
  ASSUME DInv, NEW u \in Users, NEW lp \in LpSymbols, NEW q \in LpAmounts,
         NEW l1, NEW l2, addliquidity(u, lp, q, l1, l2) \/ rmliquidity(u, lp, q, l1, l2)
  PROVE  DInv'
<1> DEFINE s == stats[lp].supply
<1>1. q \in Nat /\ q > 0
  <2>1. LpAmounts \subseteq Nat \ {0}
    BY LpTokenAssumption
  <2> QED BY <2>1
<1>2. SharesInv /\ s \in Nat /\ s >= accounts[lp][u].balance /\ accounts[lp][u].balance \in Nat
  BY RowTypes DEF DInv
<1>3. CASE addliquidity(u, lp, q, l1, l2)
  <2>1. AddSignedLiq(u, lp, q, l1, l2) /\ add_balance(lp, u, q)
    BY <1>3 DEF addliquidity
  <2>2. q \in Int /\ q # 0 /\ s + q > 0
    BY <1>1, <1>2
  <2> DEFINE row == LiquidityAdded(stats[lp], q)
  <2>3. /\ BooksInv' /\ RegistryConsistent' /\ GoodPools' /\ frozens' = frozens
        /\ row \in currency_stats /\ stats' = [stats EXCEPT ![lp] = row]
        /\ row.supply = stats[lp].supply + q
    BY <2>1, <2>2, LiquidityParts
  <2> HIDE DEF row
  <2>4. SharesInv'
    BY <1>1, <1>2, <2>1, <2>3, AddBalanceKeeps
  <2> QED BY <2>3, <2>4 DEF DInv
<1>4. CASE rmliquidity(u, lp, q, l1, l2)
  <2> DEFINE n == -q
             m1 == -l1
             m2 == -l2
  <2>1. AddSignedLiq(u, lp, n, m1, m2) /\ sub_balance(lp, u, q)
    BY <1>4 DEF rmliquidity
  <2>2. n \in Int /\ n # 0
    BY <1>1
  <2>3. s + n > 0
    <3>1. accounts[lp][u].balance >= q
      BY <2>1 DEF sub_balance, Covers
    <3>2. s + n # 0
      BY <2>1 DEF AddSignedLiq, KeepsSupply
    <3> HIDE DEF s
    <3> QED BY <1>1, <1>2, <3>1, <3>2
  <2> DEFINE row == LiquidityAdded(stats[lp], n)
  <2> HIDE DEF n, m1, m2
  <2>4. /\ BooksInv' /\ RegistryConsistent' /\ GoodPools' /\ frozens' = frozens
        /\ row \in currency_stats /\ stats' = [stats EXCEPT ![lp] = row]
        /\ row.supply = stats[lp].supply + n
    BY <2>1, <2>2, <2>3, LiquidityParts
  <2> HIDE DEF row
  <2>5. row.supply = stats[lp].supply - q
    BY <1>1, <1>2, <2>4 DEF n
  <2>6. SharesInv'
    BY <1>1, <1>2, <2>1, <2>4, <2>5, SubBalanceKeeps
  <2> QED BY <2>4, <2>6 DEF DInv
<1> QED BY <1>3, <1>4


\* The pool's side of an exchange, whoever pays.
LEMMA ExchangeParts ==
  ASSUME DInv, NEW lp \in LpSymbols, NEW in \in Tokens, NEW out \in Tokens,
         NEW q \in Int, NEW min,
         Exchangeable(stats[lp], in, LessFee(q), out, min),
         stats' = [stats EXCEPT ![lp] = Exchanged(stats[lp], in, q, out)],
         UNCHANGED <<accounts, user_infos, frozens>>, UNCHANGED listVars
  PROVE  /\ SharesInv' /\ RegistryConsistent' /\ GoodPools'
         /\ LessFee(q) \in Int /\ AmountOut(stats[lp], in, LessFee(q), out) \in Int
         /\ in # out
<1> DEFINE old == stats[lp]
           row == Exchanged(old, in, q, out)
           a == LessFee(q)
           b == AmountOut(old, in, a, out)
<1>1. old.exists /\ Exchangeable(old, in, a, out, min)
  BY DEF Exchangeable
<1>2. old \in currency_stats /\ GoodPool(old)
  BY <1>1, PoolRow
<1> HIDE DEF old
<1>3. /\ a \in Int /\ b \in Int /\ in # out
      /\ row \in currency_stats /\ row.exists /\ GoodPool(row)
      /\ row.symbols = old.symbols /\ row.supply = old.supply
  <2>1. a = LessFee(q) /\ b = AmountOut(old, in, a, out) /\ row = Exchanged(old, in, q, out)
    OBVIOUS
  <2> HIDE DEF a, b, row
  <2> QED BY ONLY <1>1, <1>2, <2>1, ExchangeKeepsPool
<1>4. a = LessFee(q) /\ b = AmountOut(old, in, LessFee(q), out)
      /\ stats' = [stats EXCEPT ![lp] = row]
  BY DEF old
<1> HIDE DEF row, a, b
<1>5. RegistryConsistent' /\ GoodPools' /\ stats' \in [LpSymbols -> currency_stats]
  BY <1>1, <1>3, <1>4, ReplacePool DEF old
<1>6. \A l \in LpSymbols : stats'[l].supply = stats[l].supply
  BY <1>3, <1>4 DEF DInv, SharesInv, LpTokenTypeOK, old
<1>7. SharesInv'
  BY <1>5, <1>6, SameSharesKeep DEF DInv
<1> QED BY <1>3, <1>4, <1>5, <1>7 DEF old

LEMMA ExchangeInv ==
  ASSUME DInv, NEW u \in Users, NEW lp \in LpSymbols, NEW in \in Tokens, NEW out \in Tokens,
         NEW q \in Int, NEW min, exchange(u, lp, in, q, out, min)
  PROVE  DInv'
<1> DEFINE a == LessFee(q)
           b == AmountOut(stats[lp], in, a, out)
           to_add == Both(in, -a, out, b)
           touched == {in, out}
<1>1. /\ Exchangeable(stats[lp], in, LessFee(q), out, min)
      /\ stats' = [stats EXCEPT ![lp] = Exchanged(stats[lp], in, q, out)]
      /\ UNCHANGED <<accounts, user_infos, frozens>> /\ UNCHANGED listVars
      /\ add_signed_ext_balance(u, touched, to_add)
      /\ now' = now /\ configs' = configs /\ lem' = lem /\ ledger' = ledger
      /\ poolrewards' = poolrewards
  BY DEF exchange, issuanceVars
<1>2. SharesInv' /\ RegistryConsistent' /\ GoodPools' /\ a \in Int /\ b \in Int
  BY <1>1, ExchangeParts
<1> HIDE DEF a, b
<1>3. to_add \in [Tokens -> Int] /\ touched \in SUBSET Tokens
  <2>1. -a \in Int
    BY <1>2
  <2> QED BY <1>2, <2>1, Flows
<1> HIDE DEF to_add, touched
<1>4. /\ dexacnts' \in [Users -> [Tokens -> holding]]
      /\ \A v \in Users, r \in Tokens : ~dexacnts'[v][r].open => dexacnts'[v][r].balance = 0
  BY <1>1, <1>3, ExternalKeeps DEF DInv
<1>5. ClockInv' /\ configs'.is_active
  BY <1>1, LedgerKeepsClock DEF DInv, BooksInv, ClockInv, IssuanceTypeOK
<1>6. BooksInv'
  BY <1>1, <1>4, <1>5 DEF DInv, BooksInv
<1> QED BY <1>2, <1>6 DEF DInv

LEMMA MemoexchangeInv ==
  ASSUME DInv, NEW lp \in LpSymbols, NEW in \in Tokens, NEW out \in Tokens,
         NEW q \in Int, NEW min, memoexchange(lp, in, q, out, min)
  PROVE  DInv'
<1> DEFINE a == LessFee(q)
           b == AmountOut(stats[lp], in, a, out)
           flow == Both(in, q, out, -b)
<1>1. /\ Exchangeable(stats[lp], in, LessFee(q), out, min)
      /\ stats' = [stats EXCEPT ![lp] = Exchanged(stats[lp], in, q, out)]
      /\ UNCHANGED <<accounts, user_infos, frozens>> /\ UNCHANGED listVars
      /\ MoveTokens(flow)
      /\ now' = now /\ configs' = configs /\ dexacnts' = dexacnts
      /\ poolrewards' = poolrewards
  BY DEF memoexchange
<1>2. SharesInv' /\ RegistryConsistent' /\ GoodPools' /\ a \in Int /\ b \in Int
  BY <1>1, ExchangeParts
<1> HIDE DEF a, b
<1>3. flow \in [Tokens -> Int]
  <2>1. -b \in Int
    BY <1>2
  <2> QED BY <2>1, Flows
<1> HIDE DEF flow
<1>4. /\ ClockInv' /\ configs'.is_active
      /\ ledger' \in [OtherTokens -> [self : Nat, users : Nat]]
  BY <1>1, <1>3, MoveTokensKeeps DEF DInv
<1>5. BooksInv'
  BY <1>1, <1>4 DEF DInv, BooksInv
<1> QED BY <1>2, <1>5 DEF DInv

-----------------------------------------------------------------------------
(***************************************************************************)
(* clmpoolreward: of the integer ratios of the holders at most one is 1,   *)
(* and the others are 0, so all together are paid at most one share.       *)
(***************************************************************************)
LEMMA Ratios ==
  ASSUME DInv, NEW lp \in LpSymbols, stats[lp].exists
  PROVE  /\ \A u \in Users : UserRatio(lp, u) \in {0, 1}
         /\ \A u, v \in Users : UserRatio(lp, u) = 1 /\ UserRatio(lp, v) = 1 => u = v
<1> DEFINE s == stats[lp].supply
           f == Balances(accounts, lp)
<1>1. s \in Nat \ {0}
  <2>1. s \in Nat /\ s > 0
    BY PoolRow, RowOfPool
  <2> QED BY <2>1
<1>2. ASSUME NEW u \in Users
      PROVE  /\ f[u] \in Nat /\ f[u] <= s /\ UserRatio(lp, u) = f[u] \div s
             /\ f \in [Users -> Nat] /\ IsFiniteSet(Users)
  BY RowTypes, LpTokenAssumption DEF DInv, Balances, UserRatio
<1>3. Total(f) = s
  BY DEF DInv, SharesInv, SupplyIsHeld
<1> HIDE DEF s, f
<1>4. ASSUME NEW u \in Users
      PROVE  UserRatio(lp, u) = IF f[u] = s THEN 1 ELSE 0
  <2> DEFINE d == f[u] \div s
  <2>1. d \in Nat
    BY <1>1, <1>2, DivMod
  <2>2. CASE f[u] = s
    <3>1. s * 1 <= f[u]
      BY <1>1, <2>2
    <3>2. 1 <= d
      BY <1>1, <1>2, <3>1, DivAtLeast
    <3>3. f[u] < s * 2
      BY <1>1, <2>2
    <3>4. d < 2
      BY <1>1, <1>2, <3>3, DivBelow
    <3> HIDE DEF d
    <3>5. d = 1
      BY <2>1, <3>2, <3>4
    <3> QED BY <1>2, <2>2, <3>5 DEF d
  <2>3. CASE f[u] # s
    <3>1. f[u] < s * 1
      BY <1>1, <1>2, <2>3
    <3>2. d < 1
      BY <1>1, <1>2, <3>1, DivBelow
    <3> HIDE DEF d
    <3>3. d = 0
      BY <2>1, <3>2
    <3> QED BY <1>2, <2>3, <3>3 DEF d
  <2> QED BY <2>2, <2>3
<1>5. ASSUME NEW u \in Users, NEW v \in Users, f[u] = s, f[v] = s, u # v
      PROVE  FALSE
  <2> DEFINE g == [f EXCEPT ![u] = 0]
  <2>1. f \in [Users -> Nat] /\ IsFiniteSet(Users) /\ 0 \in Nat
    BY <1>2
  <2>2. Total(g) = Total(f) - f[u] + 0
    BY ONLY <2>1, TotalUpdate
  <2>3. g \in [Users -> Nat] /\ g[v] = f[v]
    BY <1>5, <2>1
  <2> HIDE DEF g
  <2>4. g[v] <= Total(g)
    BY ONLY <2>1, <2>3, TotalMember
  <2> QED BY <1>1, <1>3, <1>5, <2>2, <2>3, <2>4
<1> QED BY <1>4, <1>5

\* What is shared out in these ratios is at most the whole.
LEMMA SharedOut ==
  ASSUME DInv, NEW lp \in LpSymbols, stats[lp].exists, NEW n \in Nat,
         NEW g \in [Users -> Nat],
         \A u \in Users : IF UserRatio(lp, u) = 1 THEN g[u] <= n ELSE g[u] = 0
  PROVE  Total(g) \in Nat /\ Total(g) <= n
<1>1. IsFiniteSet(Users)
  BY LpTokenAssumption
<1> DEFINE z == [u \in Users |-> 0]
<1>2. Total(z) = 0
  BY ONLY <1>1, TotalZero
<1>3. CASE \A u \in Users : UserRatio(lp, u) # 1
  <2>1. g = z
    BY <1>3
  <2> QED BY <1>2, <2>1
<1>4. CASE \E u \in Users : UserRatio(lp, u) = 1
  <2>1. PICK u \in Users : UserRatio(lp, u) = 1
    BY <1>4
  <2>2. \A v \in Users : v # u => UserRatio(lp, v) # 1
    BY <2>1, Ratios
  <2> DEFINE x == g[u]
  <2>3. g = [z EXCEPT ![u] = x]
    BY <2>2
  <2>4. x \in Nat /\ x <= n
    BY <2>1
  <2>5. z \in [Users -> Nat] /\ z[u] = 0
    OBVIOUS
  <2> HIDE DEF x, z
  <2>6. Total([z EXCEPT ![u] = x]) = Total(z) - z[u] + x
    BY ONLY <1>1, <2>4, <2>5, TotalUpdate
  <2>7. Total(g) = x
    BY <1>2, <2>3, <2>4, <2>5, <2>6
  <2> QED BY <2>4, <2>7
<1> QED BY <1>3, <1>4


\* The reward of a pair in an era is at most the manager's share of it.
LEMMA LemRewardBound ==
  ASSUME DInv, NEW share \in PoolShares
  PROVE  LET n == Halved(DexLemReward, ConfigAfterIssue.half_life_count) * share[1]
         IN  /\ n \in Nat /\ share[2] \in Nat \ {0}
             /\ n \div share[2] \in Nat /\ n \div share[2] <= DexLemReward
<1> DEFINE era == ConfigAfterIssue.half_life_count
           h == Halved(DexLemReward, era)
           d == Divisor[era + 1]
<1>1. DexLemReward \in Nat
  BY DexAssumption
<1>2. share[1] \in Nat /\ share[2] \in Nat \ {0} /\ share[1] <= share[2]
  <2>1. PoolShares \subseteq Nat \X (Nat \ {0}) /\ \A s \in PoolShares : s[1] <= s[2]
    BY DexAssumption
  <2>2. share \in Nat \X (Nat \ {0})
    BY <2>1
  <2> QED BY <2>1, <2>2
<1>3. era \in 0 .. 3
  BY IssuedConfig DEF DInv, BooksInv
<1> HIDE DEF era
<1>4. d \in {1, 2, 4, 8}
  <2>1. era = 0 \/ era = 1 \/ era = 2 \/ era = 3
    BY <1>3
  <2> QED BY <2>1 DEF Divisor
<1>5. h = DexLemReward \div d
  BY DEF Halved
<1> HIDE DEF d, h
<1>6. h \in Nat /\ h <= DexLemReward
  <2>1. \A x \in Nat : /\ x \div 1 \in Nat /\ x \div 1 <= x
                       /\ x \div 2 \in Nat /\ x \div 2 <= x
                       /\ x \div 4 \in Nat /\ x \div 4 <= x
                       /\ x \div 8 \in Nat /\ x \div 8 <= x
    OBVIOUS
  <2> QED BY <1>1, <1>4, <1>5, <2>1
<1> DEFINE a == share[1]
           b == share[2]
           n == h * a
<1>7. a \in Nat /\ b \in Nat \ {0} /\ a <= b
  BY <1>2
<1> HIDE DEF a, b
<1>8. n \in Nat
  BY <1>6, <1>7
<1>9. n < b * (DexLemReward + 1)
  <2>1. h * a <= DexLemReward * a
    BY <1>1, <1>6, <1>7, ProductMonotone
  <2>2. a * DexLemReward <= b * DexLemReward
    BY <1>1, <1>7, ProductMonotone
  <2>3. /\ a * DexLemReward = DexLemReward * a /\ a * DexLemReward \in Nat
        /\ b * (DexLemReward + 1) = b * DexLemReward + b
        /\ b * DexLemReward \in Nat
    BY <1>1, <1>7
  <2> QED BY <1>7, <1>8, <2>1, <2>2, <2>3
<1> HIDE DEF n
<1>10. n \div b < DexLemReward + 1
  <2>1. DexLemReward + 1 \in Nat
    BY <1>1
  <2> QED BY <1>7, <1>8, <1>9, <2>1, DivBelow
<1>11. n \div b \in Nat
  BY <1>7, <1>8, DivMod
<1>12. n \div b <= DexLemReward
  BY <1>1, <1>10, <1>11
<1> QED BY <1>7, <1>8, <1>11, <1>12 DEF n, h, a, b, era

LEMMA PaymentBound ==
  ASSUME DInv, NEW lp \in LpSymbols, stats[lp].exists, NEW share \in PoolShares, NEW t \in Tokens
  PROVE  LET booked == IF stats[lp].fee[t] > 0 THEN stats[lp].fee[t] ELSE 0
         IN  /\ PoolPayment(lp, share)[t] \in Nat
             /\ PoolPayment(lp, share)[t]
                  <= booked + IF t = "LEM" THEN DexLemReward ELSE 0
             /\ booked \in Nat
<1> DEFINE fee == stats[lp].fee[t]
           booked == IF fee > 0 THEN fee ELSE 0
           f == [u \in Users |-> FeeReward(lp, t, u)]
           g == [u \in Users |-> LemPoolReward(lp, share, u)]
<1>1. fee \in Int
  BY PoolRow, RowOfPool
<1>2. booked \in Nat
  BY <1>1
<1>3. \A u \in Users : UserRatio(lp, u) = 0 \/ UserRatio(lp, u) = 1
  BY Ratios
<1>4. Total(f) \in Nat /\ Total(f) <= booked
  <2>1. ASSUME NEW u \in Users
        PROVE  /\ FeeReward(lp, t, u) \in Nat
               /\ IF UserRatio(lp, u) = 1 THEN FeeReward(lp, t, u) <= booked
                  ELSE FeeReward(lp, t, u) = 0
    <3>1. FeeReward(lp, t, u) = IF fee > 0 THEN fee * UserRatio(lp, u) ELSE 0
      BY DEF FeeReward
    <3> HIDE DEF fee
    <3>2. fee * 0 = 0 /\ fee * 1 = fee
      BY <1>1
    <3>3. CASE UserRatio(lp, u) = 1
      BY <1>1, <3>1, <3>2, <3>3
    <3>4. CASE UserRatio(lp, u) = 0
      BY <1>1, <3>1, <3>2, <3>4
    <3> QED BY <1>3, <3>3, <3>4
  <2>2. f \in [Users -> Nat]
        /\ \A u \in Users : IF UserRatio(lp, u) = 1 THEN f[u] <= booked ELSE f[u] = 0
    BY <2>1
  <2> HIDE DEF f, booked
  <2> QED BY <1>2, <2>2, SharedOut
<1>5. Total(g) \in Nat /\ Total(g) <= DexLemReward
  <2> DEFINE n == Halved(DexLemReward, ConfigAfterIssue.half_life_count) * share[1]
             b == share[2]
  <2>1. /\ n \in Nat /\ b \in Nat \ {0}
        /\ n \div b \in Nat /\ n \div b <= DexLemReward
    BY LemRewardBound
  <2>2. \A u \in Users : LemPoolReward(lp, share, u) = (n * UserRatio(lp, u)) \div b
    BY DEF LemPoolReward
  <2> HIDE DEF n, b
  <2>3. n * 0 = 0 /\ n * 1 = n
    BY <2>1
  <2>4. 0 \div b = 0
    <3>1. 0 < b * 1
      BY <2>1
    <3>2. 0 \div b < 1 /\ 0 \div b \in Nat
      BY <2>1, <3>1, DivBelow, DivMod
    <3> QED BY <3>2
  <2>5. ASSUME NEW u \in Users
        PROVE  /\ LemPoolReward(lp, share, u) \in Nat
               /\ IF UserRatio(lp, u) = 1 THEN LemPoolReward(lp, share, u) <= DexLemReward
                  ELSE LemPoolReward(lp, share, u) = 0
    <3>1. CASE UserRatio(lp, u) = 1
      BY <2>1, <2>2, <2>3, <3>1
    <3>2. CASE UserRatio(lp, u) = 0
      BY <2>2, <2>3, <2>4, <3>2
    <3> QED BY <1>3, <3>1, <3>2
  <2>6. g \in [Users -> Nat]
        /\ \A u \in Users : IF UserRatio(lp, u) = 1 THEN g[u] <= DexLemReward ELSE g[u] = 0
    BY <2>5
  <2>7. DexLemReward \in Nat
    BY DexAssumption
  <2> HIDE DEF g
  <2> QED BY <2>6, <2>7, SharedOut
<1>6. PoolPayment(lp, share)[t] = Total(f) + IF t = "LEM" THEN Total(g) ELSE 0
  BY DEF PoolPayment
<1>7. DexLemReward \in Nat
  BY DexAssumption
<1> HIDE DEF f, g, booked
<1>8. /\ PoolPayment(lp, share)[t] \in Nat
      /\ PoolPayment(lp, share)[t] <= booked + IF t = "LEM" THEN DexLemReward ELSE 0
  <2>1. CASE t = "LEM"
    BY <1>2, <1>4, <1>5, <1>6, <1>7, <2>1
  <2>2. CASE t # "LEM"
    BY <1>2, <1>4, <1>6, <2>2
  <2> QED BY <2>1, <2>2
<1> QED BY <1>2, <1>8 DEF booked

\* The ledgers after the payment.
LEMMA PayKeeps ==
  ASSUME DInv, NEW pay, \A t \in Tokens : pay[t] \in Nat, PayPoolReward(pay), now' = now
  PROVE  /\ ClockInv' /\ configs'.is_active
         /\ ledger' \in [OtherTokens -> [self : Nat, users : Nat]]
<1> DEFINE issued == LemAfterIssue
           x == pay["LEM"]
           a == issued.balance["self"] - x
           b == issued.balance["users"] + x
<1>1. ClockInv /\ configs.is_active
      /\ ledger \in [OtherTokens -> [self : Nat, users : Nat]]
  BY DEF DInv, BooksInv
<1>2. issued \in [supply : Nat, balance : [LemAccounts -> Nat]]
  BY <1>1, IssuedLedger
<1>3. /\ configs' = ConfigAfterIssue /\ x <= issued.balance["self"]
      /\ lem' = [issued EXCEPT !.balance["self"] = @ - x, !.balance["users"] = @ + x]
      /\ \A t \in OtherTokens : pay[t] <= ledger[t].self
      /\ ledger' = [t \in OtherTokens |-> [self  |-> ledger[t].self - pay[t],
                                           users |-> ledger[t].users + pay[t]]]
  BY DEF PayPoolReward
<1> HIDE DEF issued, x
<1>4. x \in Nat /\ "self" \in LemAccounts /\ "users" \in LemAccounts
  BY Flows DEF LemAccounts, x
<1>5. a \in Nat /\ b \in Nat
  BY <1>2, <1>3, <1>4
<1>6. lem' = [issued EXCEPT !.balance["self"] = a, !.balance["users"] = b]
  BY <1>2, <1>3, <1>4
<1> HIDE DEF a, b
<1>7. lem' \in [supply : Nat, balance : [LemAccounts -> Nat]]
  BY <1>2, <1>4, <1>5, <1>6
<1>8. ledger' \in [OtherTokens -> [self : Nat, users : Nat]]
  <2>1. \A t \in OtherTokens : ledger[t].self - pay[t] \in Nat /\ ledger[t].users + pay[t] \in Nat
    <3> SUFFICES ASSUME NEW t \in OtherTokens
                 PROVE ledger[t].self - pay[t] \in Nat /\ ledger[t].users + pay[t] \in Nat
      OBVIOUS
    <3>1. ledger[t].self \in Nat /\ ledger[t].users \in Nat
      BY <1>1
    <3>2. pay[t] \in Nat /\ pay[t] <= ledger[t].self
      BY <1>3 DEF OtherTokens
    <3> QED BY <3>1, <3>2
  <2> QED BY <1>3, <2>1
<1>9. ClockInv' /\ configs'.is_active
  BY <1>1, <1>3, <1>7, IssueKeepsClock, IssuedConfig
<1> QED BY <1>8, <1>9

\* The row of a pool whose fees were paid out.
LEMMA FeesPaid ==
  ASSUME NEW row \in currency_stats, row.exists, GoodPool(row), NEW new,
         new = [row EXCEPT !.fee = NoAmounts]
  PROVE  /\ new \in currency_stats /\ new.exists /\ GoodPool(new)
         /\ new.symbols = row.symbols /\ new.supply = row.supply /\ new.pool = row.pool
<1> DEFINE fee == NoAmounts
<1>1. fee \in [Tokens -> Int]
  BY DEF NoAmounts
<1>2. new = [row EXCEPT !.fee = fee]
  OBVIOUS
<1> HIDE DEF fee
<1>3. /\ new \in currency_stats /\ new.exists
      /\ new.symbols = row.symbols /\ new.supply = row.supply /\ new.pool = row.pool
  BY <1>1, <1>2 DEF currency_stats
<1> QED BY <1>3 DEF GoodPool

LEMMA ClmpoolrewardInv ==
  ASSUME DInv, NEW lp \in LpSymbols, NEW share \in PoolShares, clmpoolreward(lp, share)
  PROVE  DInv'
<1> DEFINE old == stats[lp]
           row == [old EXCEPT !.fee = NoAmounts]
           pay == PoolPayment(lp, share)
<1>1. /\ old.exists /\ PayPoolReward(pay)
      /\ stats' = [stats EXCEPT ![lp].fee = NoAmounts]
      /\ poolrewards' = [poolrewards EXCEPT ![lp] = [exists |-> TRUE, last_reward |-> now]]
      /\ now' = now /\ dexacnts' = dexacnts /\ UNCHANGED listVars
      /\ UNCHANGED <<accounts, user_infos, frozens>>
  BY DEF clmpoolreward
<1>2. old \in currency_stats /\ GoodPool(old)
  BY <1>1, PoolRow
<1>3. stats \in [LpSymbols -> currency_stats] /\ now \in Nat
  BY DEF DInv, SharesInv, LpTokenTypeOK, BooksInv, ClockInv, IssuanceTypeOK
<1>4. stats' = [stats EXCEPT ![lp] = row]
  BY <1>1, <1>3
<1>5. \A t \in Tokens : pay[t] \in Nat
  BY <1>1, PaymentBound
<1> HIDE DEF pay, row
<1>6. /\ ClockInv' /\ configs'.is_active
      /\ ledger' \in [OtherTokens -> [self : Nat, users : Nat]]
  BY <1>1, <1>5, PayKeeps
<1>7. poolrewards' \in [LpSymbols -> pool_reward]
  <2>1. [exists |-> TRUE, last_reward |-> now] \in pool_reward
    BY <1>3 DEF pool_reward
  <2>2. poolrewards \in [LpSymbols -> pool_reward]
    BY DEF DInv, BooksInv
  <2> QED BY <1>1, <2>1, <2>2
<1>8. BooksInv'
  BY <1>1, <1>6, <1>7 DEF DInv, BooksInv
<1> HIDE DEF old
<1>9. /\ row \in currency_stats /\ row.exists /\ GoodPool(row)
      /\ row.symbols = old.symbols /\ row.supply = old.supply
  BY <1>1, <1>2, FeesPaid DEF row
<1>10. RegistryConsistent' /\ GoodPools' /\ stats' \in [LpSymbols -> currency_stats]
  BY <1>1, <1>4, <1>9, ReplacePool DEF old
<1>11. \A l \in LpSymbols : stats'[l].supply = stats[l].supply
  BY <1>3, <1>4, <1>9 DEF old
<1>12. SharesInv'
  BY <1>1, <1>10, <1>11, SameSharesKeep DEF DInv
<1> QED BY <1>8, <1>10, <1>12 DEF DInv

-----------------------------------------------------------------------------
(***************************************************************************)
(* The invariant.                                                          *)
(***************************************************************************)
LEMMA InitBooks ==
  ASSUME Init
  PROVE  BooksInv
<1> DEFINE h == configs.last_half_life_updated
<1>1. now = 0 /\ configs = NewConfig(0)
  BY DEF Init
<1>2. /\ configs \in config /\ configs.is_active
      /\ configs.half_life_count = 0 /\ configs.last_lem_bucket_fill = 0
      /\ h[0] = 0 /\ h[1] = h[0] + HalfLife
      /\ h[2] = h[1] + HalfLife /\ h[3] = h[2] + HalfLife
  BY <1>1, NewConfigStarts
<1>3. lem \in [supply : Nat, balance : [LemAccounts -> Nat]]
  <2>1. Funds["LEM"] \in Nat
    BY Flows, DexAssumption
  <2> QED BY <2>1 DEF Init
<1>4. IssuanceTypeOK
  BY <1>1, <1>2, <1>3 DEF IssuanceTypeOK
<1> HIDE DEF h
<1>5. Boundaries
  BY <1>2 DEF Boundaries, h
<1>6. EraOfLastFill
  BY <1>1, <1>2, IssuanceAssumption DEF EraOfLastFill, h
<1>7. /\ dexacnts \in [Users -> [Tokens -> holding]]
      /\ \A u \in Users, t \in Tokens : dexacnts[u][t].balance = 0
  <2>1. NoHolding \in holding /\ NoHolding.balance = 0
    BY DEF NoHolding, holding
  <2> HIDE DEF NoHolding
  <2> QED BY <2>1 DEF Init
<1>8. poolrewards \in [LpSymbols -> pool_reward]
  <2>1. NoPoolReward \in pool_reward
    BY DEF NoPoolReward, pool_reward
  <2> HIDE DEF NoPoolReward
  <2> QED BY <2>1 DEF Init
<1>9. ledger \in [OtherTokens -> [self : Nat, users : Nat]]
  BY DexAssumption DEF Init, OtherTokens
<1> QED BY <1>2, <1>4, <1>5, <1>6, <1>7, <1>8, <1>9 DEF BooksInv, ClockInv

LEMMA InitShares ==
  ASSUME Init
  PROVE  SharesInv /\ RegistryConsistent /\ GoodPools
<1>1. /\ stats = [lp \in LpSymbols |-> NoStats]
      /\ accounts = [lp \in LpSymbols |-> [u \in Users |-> NoHolding]]
      /\ user_infos = [lp \in LpSymbols |-> [u \in Users |-> NoHolding]]
      /\ frozens = {} /\ swap_lists = {} /\ pool_lists = {} /\ lemindexes = {}
  BY DEF Init, LpTokenInit
<1>2. NoHolding \in holding /\ NoHolding.balance = 0
  BY DEF NoHolding, holding
<1>3. NoStats \in currency_stats /\ NoStats.supply = 0 /\ ~NoStats.exists
  BY DEF NoStats, currency_stats, NoAmounts
<1> HIDE DEF NoHolding, NoStats
<1>4. LpTokenTypeOK
  BY <1>1, <1>2, <1>3 DEF LpTokenTypeOK
<1>5. \A lp \in LpSymbols : /\ Balances(accounts, lp) = [u \in Users |-> 0]
                            /\ Balances(user_infos, lp) = [u \in Users |-> 0]
  BY <1>1, <1>2 DEF Balances
<1>6. Total([u \in Users |-> 0]) = 0
  BY TotalZero, LpTokenAssumption
<1>7. SupplyIsHeld
  BY <1>1, <1>2, <1>3, <1>5, <1>6 DEF SupplyIsHeld
<1>8. LpRows = {}
  BY <1>1, <1>3 DEF LpRows
<1>9. RegistryConsistent
  BY <1>1, <1>8 DEF RegistryConsistent
<1>10. GoodPools
  BY <1>1, <1>3 DEF GoodPools
<1> QED BY <1>4, <1>7, <1>9, <1>10 DEF SharesInv

LEMMA PoolsInv ==
  ASSUME DInv, Pools
  PROVE  DInv'
<1>1. PICK lp \in LpSymbols :
        \/ rmpool(lp)
        \/ \E u \in Traders, p \in Pairs, x, y \in Deposits :
             inittoken(u, lp, p[1], x, p[2], y)
        \/ \E u \in Traders, q \in LpAmounts, l1, l2 \in Limits :
             addliquidity(u, lp, q, l1, l2) \/ rmliquidity(u, lp, q, l1, l2)
  BY DEF Pools
<1>2. Traders \subseteq Users
  BY DexAssumption
<1>3. CASE rmpool(lp)
  BY <1>3, RmpoolInv
<1>4. CASE \E u \in Traders, p \in Pairs, x, y \in Deposits :
             inittoken(u, lp, p[1], x, p[2], y)
  BY <1>2, <1>4, InittokenInv
<1>5. CASE \E u \in Traders, q \in LpAmounts, l1, l2 \in Limits :
             addliquidity(u, lp, q, l1, l2) \/ rmliquidity(u, lp, q, l1, l2)
  BY <1>2, <1>5, LiquidityInv
<1> QED BY <1>1, <1>3, <1>4, <1>5

LEMMA ExchangesInv ==
  ASSUME DInv, Exchanges
  PROVE  DInv'
<1>1. PICK lp \in LpSymbols, in \in Tokens, out \in Tokens, q \in Swaps, l \in Limits :
        \/ \E u \in Traders : exchange(u, lp, in, q, out, l) \/ exchange(u, lp, in, q, out, -l)
        \/ memoexchange(lp, in, q, out, l)
  BY DEF Exchanges
<1>2. q \in Int /\ Traders \subseteq Users
  <2>1. Swaps \subseteq Int /\ Traders \subseteq Users
    BY DexAssumption
  <2> QED BY <2>1
<1>3. ASSUME NEW u \in Traders, NEW min, exchange(u, lp, in, q, out, min) PROVE DInv'
  BY <1>2, <1>3, ExchangeInv
<1>4. CASE memoexchange(lp, in, q, out, l)
  BY <1>2, <1>4, MemoexchangeInv
<1> QED BY <1>1, <1>3, <1>4

LEMMA DexStep ==
  ASSUME DInv, [Next]_vars
  PROVE  DInv'
<1>1. CASE Emission
  BY <1>1, DexEmissionInv
<1>2. CASE PoolTokens
  BY <1>2, PoolTokensInv
<1>3. CASE ExternalBalances
  BY <1>3, ExternalBalancesInv
<1>4. CASE Pools
  BY <1>4, PoolsInv
<1>5. CASE Exchanges
  BY <1>5, ExchangesInv
<1>6. CASE \E lp \in LpSymbols, share \in PoolShares : clmpoolreward(lp, share)
  BY <1>6, ClmpoolrewardInv
<1>7. CASE UNCHANGED vars
  <2>1. /\ now' = now /\ configs' = configs /\ lem' = lem /\ ledger' = ledger
        /\ dexacnts' = dexacnts /\ poolrewards' = poolrewards
        /\ stats' = stats /\ accounts' = accounts /\ user_infos' = user_infos
        /\ frozens' = frozens /\ UNCHANGED listVars
    BY <1>7 DEF vars, issuanceVars, lpVars
  <2>2. ClockInv'
    BY <2>1, LedgerKeepsClock DEF DInv, BooksInv, ClockInv, IssuanceTypeOK
  <2>3. BooksInv'
    BY <2>1, <2>2 DEF DInv, BooksInv
  <2>4. SharesInv'
    BY <2>1 DEF DInv, SharesInv, LpTokenTypeOK, SupplyIsHeld, Balances
  <2> QED BY <2>1, <2>3, <2>4, SamePools
<1> QED BY <1>1, <1>2, <1>3, <1>4, <1>5, <1>6, <1>7 DEF Next

\* DInv holds for any users, tokens, pairs, fee, amounts and limits: every
\* operation of the exchange, of its pool tokens and of the emission keeps it.
THEOREM DexInvariance == Spec => []DInv
<1>1. Init => DInv
  BY InitBooks, InitShares DEF DInv
<1>2. DInv /\ [Next]_vars => DInv'
  BY DexStep
<1> QED BY <1>1, <1>2, PTL DEF Spec

-----------------------------------------------------------------------------
(***************************************************************************)
(* What follows from it.                                                   *)
(***************************************************************************)
\* No external balance, pool, pool token account or account of led.token is
\* ever overdrawn by the exchange.
THEOREM DexTypeCorrect == Spec => []DexTypeOK
<1>1. DInv => DexTypeOK
  <2> SUFFICES ASSUME DInv PROVE DexTypeOK
    OBVIOUS
  <2>1. /\ pool_lists = {PoolList(lp, stats[lp].symbols) : lp \in LpRows}
        /\ lemindexes = {Index(lp, stats[lp].symbols) : lp \in LpRows}
        /\ swap_lists = UNION {Swappable(stats[lp].symbols) : lp \in LpRows}
    BY DEF DInv, RegistryConsistent
  <2>2. \A p \in pool_lists : p.lp_symbol \in LpSymbols
    BY <2>1 DEF PoolList, LpRows
  <2>3. \A i \in lemindexes : i.lp_symbol \in LpSymbols
    BY <2>1 DEF Index, LpRows
  <2>4. swap_lists \subseteq Tokens \X Tokens
    <3>1. ASSUME NEW lp \in LpRows PROVE Swappable(stats[lp].symbols) \subseteq Tokens \X Tokens
      <4>1. stats[lp].exists /\ lp \in LpSymbols
        BY DEF LpRows
      <4>2. stats[lp].symbols[1] \in Tokens /\ stats[lp].symbols[2] \in Tokens
        BY <4>1, PoolRow, RowOfPool
      <4> QED BY <4>2 DEF Swappable
    <3> QED BY <2>1, <3>1
  <2> QED BY <2>2, <2>3, <2>4 DEF DInv, BooksInv, ClockInv, SharesInv, DexTypeOK
<1> QED BY <1>1, DexInvariance, PTL

\* The supply of a pool token is what its holders have, in both tables.
THEOREM SupplyAlwaysHeld == Spec => []SupplyIsHeld
<1>1. DInv => SupplyIsHeld
  BY DEF DInv, SharesInv
<1> QED BY <1>1, DexInvariance, PTL

\* The lists of pools, indexes and swaps always agree with the pools.
THEOREM RegistryAlwaysConsistent == Spec => []RegistryConsistent
<1>1. DInv => RegistryConsistent
  BY DEF DInv
<1> QED BY <1>1, DexInvariance, PTL

\* No pool is ever emptied on either side, nor of its pool tokens.
THEOREM PoolsAreNeverEmpty == Spec => []PoolsNeverEmpty
<1>1. DInv => PoolsNeverEmpty
  BY DEF DInv, GoodPools, GoodPool, PoolsNeverEmpty, LpRows
<1> QED BY <1>1, DexInvariance, PTL

-----------------------------------------------------------------------------
(***************************************************************************)
(* Swaps and changes of liquidity never dilute a pool token.               *)
(***************************************************************************)
LEMMA SamePoolKeepsValue ==
  ASSUME DInv, NEW lp \in LpSymbols,
         stats[lp].exists => /\ stats'[lp].pool = stats[lp].pool
                             /\ stats'[lp].supply = stats[lp].supply
  PROVE  ShareKeepsItsValue(lp)
<1> SUFFICES ASSUME stats[lp].exists
             PROVE  /\ stats'[lp].supply = stats[lp].supply
                    /\ \A t, s \in PairOf(stats[lp].symbols) :
                         stats'[lp].pool[t] * stats'[lp].pool[s]
                           >= stats[lp].pool[t] * stats[lp].pool[s]
  BY DEF ShareKeepsItsValue
<1>1. \A t \in PairOf(stats[lp].symbols) : stats[lp].pool[t] \in Nat
  BY PoolRow, RowOfPool
<1>2. \A t, s \in PairOf(stats[lp].symbols) : stats[lp].pool[t] * stats[lp].pool[s] \in Nat
  BY <1>1
<1> QED BY <1>2

\* The rows of the other pools are not touched.
LEMMA OthersKeepTheirValue ==
  ASSUME DInv, NEW lp \in LpSymbols, NEW row, stats' = [stats EXCEPT ![lp] = row],
         ShareKeepsItsValue(lp)
  PROVE  \A other \in LpSymbols : ShareKeepsItsValue(other)
<1> SUFFICES ASSUME NEW other \in LpSymbols, other # lp PROVE ShareKeepsItsValue(other)
  OBVIOUS
<1>1. stats'[other] = stats[other]
  BY DEF DInv, SharesInv, LpTokenTypeOK
<1> QED BY <1>1, SamePoolKeepsValue

LEMMA NoStatsChangeKeepsValue ==
  ASSUME DInv, stats' = stats
  PROVE  \A lp \in LpSymbols : ShareKeepsItsValue(lp)
BY SamePoolKeepsValue

LEMMA LiquidityKeepsValue ==
  ASSUME DInv, NEW u, NEW lp \in LpSymbols, NEW n \in Int, n # 0,
         NEW l1, NEW l2, AddSignedLiq(u, lp, n, l1, l2), stats[lp].supply + n > 0
  PROVE  \A other \in LpSymbols : ShareKeepsItsValue(other)
<1> DEFINE old == stats[lp]
           row == LiquidityAdded(old, n)
<1>1. old.exists /\ stats' = [stats EXCEPT ![lp] = row]
  BY DEF AddSignedLiq
<1>2. old \in currency_stats /\ GoodPool(old)
  BY <1>1, PoolRow
<1>3. old.supply \in Nat
  BY <1>2 DEF currency_stats
<1>4. old.supply + n > 0
  OBVIOUS
<1>5. row = LiquidityAdded(old, n)
  OBVIOUS
<1>6. stats'[lp] = row
  BY <1>1 DEF DInv, SharesInv, LpTokenTypeOK
<1> HIDE DEF old, row
<1>7. /\ row.supply = old.supply + n
      /\ \A t \in PairOf(old.symbols) : row.pool[t] * old.supply >= old.pool[t] * row.supply
  BY ONLY <1>1, <1>2, <1>4, <1>5, LiquidityKeepsPool, n \in Int, n # 0
<1>8. row.supply # old.supply
  BY <1>3, <1>7
<1>9. ShareKeepsItsValue(lp)
  BY <1>6, <1>7, <1>8 DEF ShareKeepsItsValue, old
<1> QED BY <1>1, <1>9, OthersKeepTheirValue

LEMMA ExchangeKeepsValue ==
  ASSUME DInv, NEW lp \in LpSymbols, NEW in \in Tokens, NEW out \in Tokens,
         NEW q \in Int, NEW min,
         Exchangeable(stats[lp], in, LessFee(q), out, min),
         stats' = [stats EXCEPT ![lp] = Exchanged(stats[lp], in, q, out)]
  PROVE  \A other \in LpSymbols : ShareKeepsItsValue(other)
<1> DEFINE old == stats[lp]
           row == Exchanged(old, in, q, out)
           a == LessFee(q)
           b == AmountOut(old, in, a, out)
<1>1. old.exists /\ Exchangeable(old, in, a, out, min) /\ stats' = [stats EXCEPT ![lp] = row]
  BY DEF Exchangeable
<1>2. old \in currency_stats /\ GoodPool(old)
  BY <1>1, PoolRow
<1>3. stats'[lp] = row
  BY <1>1 DEF DInv, SharesInv, LpTokenTypeOK
<1>4. a = LessFee(q) /\ b = AmountOut(old, in, a, out) /\ row = Exchanged(old, in, q, out)
  OBVIOUS
<1>5. q \in Int /\ in \in Tokens /\ out \in Tokens
  OBVIOUS
<1> HIDE DEF old, row, a, b
<1>6. /\ PairOf(old.symbols) = {in, out} /\ row.supply = old.supply
      /\ row \in currency_stats
      /\ row.pool[in] * row.pool[out] >= old.pool[in] * old.pool[out]
  <2>1. old.exists /\ Exchangeable(old, in, a, out, min)
    BY <1>1
  <2>2. /\ a \in Int /\ b \in Int /\ in # out /\ PairOf(old.symbols) = {in, out}
        /\ row \in currency_stats /\ row.exists /\ GoodPool(row)
        /\ row.symbols = old.symbols /\ row.supply = old.supply
        /\ KeepsProduct(old, row, in, out)
    BY ONLY <1>2, <1>4, <1>5, <2>1, ExchangeKeepsPool
  <2> QED BY <2>2 DEF KeepsProduct
<1>7. \A t \in Tokens : old.pool[t] \in Nat /\ row.pool[t] \in Nat
  BY <1>2, <1>6 DEF currency_stats
<1>8. /\ row.pool[in] * row.pool[out] = row.pool[out] * row.pool[in]
      /\ old.pool[in] * old.pool[out] = old.pool[out] * old.pool[in]
  BY <1>7
<1>9. \A t, s \in PairOf(old.symbols) :
        t # s => row.pool[t] * row.pool[s] >= old.pool[t] * old.pool[s]
  BY <1>6, <1>8
<1>10. ShareKeepsItsValue(lp)
  BY <1>3, <1>6, <1>9 DEF ShareKeepsItsValue, old
<1> QED BY <1>1, <1>10, OthersKeepTheirValue

\* A change of liquidity leaves pool tokens, whether they are bought or sold.
LEMMA SignedLiquidity ==
  ASSUME DInv, NEW u \in Users, NEW lp \in LpSymbols, NEW q \in LpAmounts,
         NEW l1, NEW l2, addliquidity(u, lp, q, l1, l2) \/ rmliquidity(u, lp, q, l1, l2)
  PROVE  \E n \in Int : \E m1, m2 : n # 0 /\ AddSignedLiq(u, lp, n, m1, m2)
                                          /\ stats[lp].supply + n > 0
<1> DEFINE s == stats[lp].supply
<1>1. q \in Nat /\ q > 0
  <2>1. LpAmounts \subseteq Nat \ {0}
    BY LpTokenAssumption
  <2> QED BY <2>1
<1>2. s \in Nat /\ s >= accounts[lp][u].balance /\ accounts[lp][u].balance \in Nat
  BY RowTypes DEF DInv
<1>3. CASE addliquidity(u, lp, q, l1, l2)
  <2>1. AddSignedLiq(u, lp, q, l1, l2) /\ q \in Int /\ q # 0 /\ s + q > 0
    BY <1>1, <1>2, <1>3 DEF addliquidity
  <2> QED BY <2>1
<1>4. CASE rmliquidity(u, lp, q, l1, l2)
  <2> DEFINE n == -q
             m1 == -l1
             m2 == -l2
  <2>1. AddSignedLiq(u, lp, n, m1, m2) /\ sub_balance(lp, u, q)
    BY <1>4 DEF rmliquidity
  <2>2. accounts[lp][u].balance >= q
    BY <2>1 DEF sub_balance, Covers
  <2>3. s + n # 0
    BY <2>1 DEF AddSignedLiq, KeepsSupply
  <2> HIDE DEF s
  <2>4. n \in Int /\ n # 0 /\ s + n > 0
    BY <1>1, <1>2, <2>2, <2>3
  <2> HIDE DEF n, m1, m2
  <2> QED BY <2>1, <2>4 DEF s
<1> QED BY <1>3, <1>4

LEMMA PoolsKeepValue ==
  ASSUME DInv, Pools
  PROVE  \A lp \in LpSymbols : ShareKeepsItsValue(lp)
<1>1. PICK lp \in LpSymbols :
        \/ rmpool(lp)
        \/ \E u \in Traders, p \in Pairs, x, y \in Deposits :
             inittoken(u, lp, p[1], x, p[2], y)
        \/ \E u \in Traders, q \in LpAmounts, l1, l2 \in Limits :
             addliquidity(u, lp, q, l1, l2) \/ rmliquidity(u, lp, q, l1, l2)
  BY DEF Pools
<1>2. CASE rmpool(lp)
  <2>1. stats' = [stats EXCEPT ![lp] = NoStats] /\ stats \in [LpSymbols -> currency_stats]
    BY <1>2 DEF rmpool, DInv, SharesInv, LpTokenTypeOK
  <2>2. ~stats'[lp].exists
    BY <2>1 DEF NoStats
  <2>3. ShareKeepsItsValue(lp)
    BY <2>2 DEF ShareKeepsItsValue
  <2> QED BY <2>1, <2>3, OthersKeepTheirValue
<1>3. ASSUME NEW u \in Traders, NEW p \in Pairs, NEW x \in Deposits, NEW y \in Deposits,
             inittoken(u, lp, p[1], x, p[2], y)
      PROVE  \A other \in LpSymbols : ShareKeepsItsValue(other)
  <2> DEFINE row == NewStats(p[1], x, p[2], y)
  <2>1. ~stats[lp].exists /\ stats' = [stats EXCEPT ![lp] = row]
    BY <1>3 DEF inittoken
  <2> HIDE DEF row
  <2>2. ShareKeepsItsValue(lp)
    BY <2>1 DEF ShareKeepsItsValue
  <2> QED BY <2>1, <2>2, OthersKeepTheirValue
<1>4. ASSUME NEW u \in Traders, NEW q \in LpAmounts, NEW l1 \in Limits, NEW l2 \in Limits,
             addliquidity(u, lp, q, l1, l2) \/ rmliquidity(u, lp, q, l1, l2)
      PROVE  \A other \in LpSymbols : ShareKeepsItsValue(other)
  <2>1. u \in Users
    BY DexAssumption
  <2>2. \E n \in Int : \E m1, m2 : n # 0 /\ AddSignedLiq(u, lp, n, m1, m2)
                                         /\ stats[lp].supply + n > 0
    BY <1>4, <2>1, SignedLiquidity
  <2> QED BY <2>2, LiquidityKeepsValue
<1> QED BY <1>1, <1>2, <1>3, <1>4

LEMMA ExchangesKeepValue ==
  ASSUME DInv, Exchanges
  PROVE  \A lp \in LpSymbols : ShareKeepsItsValue(lp)
<1>1. PICK lp \in LpSymbols, in \in Tokens, out \in Tokens, q \in Swaps, l \in Limits :
        \/ \E u \in Traders : exchange(u, lp, in, q, out, l) \/ exchange(u, lp, in, q, out, -l)
        \/ memoexchange(lp, in, q, out, l)
  BY DEF Exchanges
<1>2. q \in Int
  <2>1. Swaps \subseteq Int
    BY DexAssumption
  <2> QED BY <2>1
<1>3. \E min : /\ Exchangeable(stats[lp], in, LessFee(q), out, min)
               /\ stats' = [stats EXCEPT ![lp] = Exchanged(stats[lp], in, q, out)]
  BY <1>1 DEF exchange, memoexchange
<1> QED BY <1>2, <1>3, ExchangeKeepsValue

LEMMA RewardKeepsValue ==
  ASSUME DInv, NEW lp \in LpSymbols, NEW share \in PoolShares, clmpoolreward(lp, share)
  PROVE  \A other \in LpSymbols : ShareKeepsItsValue(other)
<1> DEFINE row == [stats[lp] EXCEPT !.fee = NoAmounts]
<1>1. stats \in [LpSymbols -> currency_stats] /\ stats[lp].exists
      /\ stats' = [stats EXCEPT ![lp].fee = NoAmounts]
  BY DEF DInv, SharesInv, LpTokenTypeOK, clmpoolreward
<1>2. stats' = [stats EXCEPT ![lp] = row]
  BY <1>1
<1>3. row.pool = stats[lp].pool /\ row.supply = stats[lp].supply
  BY <1>1 DEF currency_stats
<1> HIDE DEF row
<1>4. stats'[lp] = row
  BY <1>1, <1>2
<1>5. ShareKeepsItsValue(lp)
  BY <1>3, <1>4, SamePoolKeepsValue
<1> QED BY <1>2, <1>5, OthersKeepTheirValue

\* What stands behind a pool token never shrinks, for any fee and amounts:
\* compute rounds against the trader in both directions.
THEOREM SharesAreNeverDiluted == Spec => SharesNeverDiluted
<1>1. DInv /\ [Next]_vars => [\A lp \in LpSymbols : ShareKeepsItsValue(lp)]_vars
  <2> SUFFICES ASSUME DInv, Next PROVE \A lp \in LpSymbols : ShareKeepsItsValue(lp)
    OBVIOUS
  <2>1. CASE Emission \/ PoolTokens \/ ExternalBalances
    <3>1. stats' = stats
      <4>1. CASE Emission
        BY <4>1 DEF Emission, lpVars
      <4>2. CASE PoolTokens
        BY <4>2, PoolTokensKeep DEF PoolTokens, DInv
      <4>3. CASE ExternalBalances
        BY <4>3 DEF ExternalBalances, openext, closeext, deposit, withdraw, lpVars
      <4> QED BY <2>1, <4>1, <4>2, <4>3
    <3> QED BY <3>1, NoStatsChangeKeepsValue
  <2>2. CASE Pools
    BY <2>2, PoolsKeepValue
  <2>3. CASE Exchanges
    BY <2>3, ExchangesKeepValue
  <2>4. CASE \E lp \in LpSymbols, share \in PoolShares : clmpoolreward(lp, share)
    BY <2>4, RewardKeepsValue
  <2> QED BY <2>1, <2>2, <2>3, <2>4 DEF Next
<1> QED BY <1>1, DexInvariance, PTL DEF Spec, SharesNeverDiluted

-----------------------------------------------------------------------------
(***************************************************************************)
(* Two operations that no reachable state accepts, since each of them      *)
(* satisfies DInv (DexInvariance): Next leaves them out.                   *)
(***************************************************************************)
\* indexpair is refused because every pool that exists is indexed; exchangeall
\* because it asks for the whole of pool2, of which compute leaves something.
THEOREM NeverAccepted ==
  ASSUME DInv
  PROVE  /\ \A lp \in LpSymbols : ~indexpair(lp)
         /\ \A u \in Users, lp \in LpSymbols, in \in Tokens : ~exchangeall(u, lp, in)
<1>1. ASSUME NEW lp \in LpSymbols, indexpair(lp) PROVE FALSE
  <2>1. stats[lp].exists /\ ~Indexed(stats[lp].symbols)
    BY <1>1 DEF indexpair
  <2>2. Index(lp, stats[lp].symbols) \in lemindexes
    BY <2>1 DEF DInv, RegistryConsistent, LpRows
  <2>3. Index(lp, stats[lp].symbols).pair = PairOf(stats[lp].symbols)
    BY DEF Index
  <2> QED BY <2>1, <2>2, <2>3 DEF Indexed
<1>2. ASSUME NEW u \in Users, NEW lp \in LpSymbols, NEW in \in Tokens, exchangeall(u, lp, in)
      PROVE  FALSE
  <2> DEFINE row == stats[lp]
             out == row.symbols[2]
             q == dexacnts[u][in].balance
             min == row.pool[out]
             a == LessFee(q)
             b == AmountOut(row, in, a, out)
             new == Exchanged(row, in, q, out)
  <2>1. row.exists /\ exchange(u, lp, in, q, out, min)
    BY <1>2 DEF exchangeall
  <2>2. row \in currency_stats /\ GoodPool(row)
    BY <2>1, PoolRow
  <2>3. out \in Tokens /\ min \in Nat
    <3>1. out \in Tokens /\ row.pool \in [Tokens -> Nat]
      BY <2>2, RowOfPool
    <3> QED BY <3>1
  <2>4. q \in Nat
    BY DEF DInv, BooksInv, holding
  <2>5. q > 0 /\ Exchangeable(row, in, a, out, min)
    BY <2>1, <2>4 DEF exchange
  <2>6. min <= b /\ a # 0
    <3>1. min <= b /\ -a # 0
      BY <2>5 DEF Exchangeable, Computable
    <3> HIDE DEF a, b, min
    <3> QED BY <3>1
  <2>7. a = LessFee(q) /\ b = AmountOut(row, in, a, out) /\ new = Exchanged(row, in, q, out)
    OBVIOUS
  <2>8. min = row.pool[out]
    OBVIOUS
  <2> HIDE DEF row, out, q, min, a, b, new
  <2>9. q \in Int /\ a \in Int /\ a >= 0
    BY <2>4, <2>7, LessFeeBounds
  <2>10. b \in Int /\ (a > 0 => b < row.pool[out])
    <3>1. in \in Tokens /\ out \in Tokens /\ q \in Int
      BY <2>3, <2>9
    <3> QED BY ONLY <2>1, <2>2, <2>5, <2>7, <3>1, ExchangeKeepsPool
  <2> QED BY <2>3, <2>6, <2>8, <2>9, <2>10
<1> QED BY <1>1, <1>2

-----------------------------------------------------------------------------
(***************************************************************************)
(* What the contract holds over what it owes: how the three terms of       *)
(* Surplus change with each kind of update.                                *)
(***************************************************************************)
LEMMA SurplusTypes ==
  ASSUME DInv, NEW t \in Tokens
  PROVE  /\ Held(t) \in Nat
         /\ External(t) \in [Users -> Nat] /\ Total(External(t)) \in Nat
         /\ Pooled(t) \in [LpSymbols -> Nat] /\ Total(Pooled(t)) \in Nat
         /\ IsFiniteSet(Users) /\ IsFiniteSet(LpSymbols)
<1>1. Held(t) \in Nat
  <2>1. lem.balance["self"] \in Nat
    BY DEF DInv, BooksInv, ClockInv, IssuanceTypeOK, LemAccounts
  <2>2. t # "LEM" => ledger[t].self \in Nat
    BY DEF DInv, BooksInv, OtherTokens
  <2> QED BY <2>1, <2>2 DEF Held
<1> DEFINE e == External(t)
           p == Pooled(t)
<1>2. e \in [Users -> Nat]
  BY DEF DInv, BooksInv, holding, External
<1>3. p \in [LpSymbols -> Nat]
  BY DEF DInv, SharesInv, LpTokenTypeOK, currency_stats, Pooled
<1>4. IsFiniteSet(Users) /\ IsFiniteSet(LpSymbols)
  BY Flows
<1> HIDE DEF e, p
<1>5. Total(e) \in Nat /\ Total(p) \in Nat
  BY ONLY <1>2, <1>3, <1>4, TotalNat
<1> QED BY <1>1, <1>2, <1>3, <1>4, <1>5 DEF e, p

\* A row of a pool is replaced.
LEMMA PooledUpdate ==
  ASSUME DInv, NEW lp \in LpSymbols, NEW row \in currency_stats,
         stats' = [stats EXCEPT ![lp] = row], NEW t \in Tokens
  PROVE  Total(Pooled(t)') = Total(Pooled(t)) - stats[lp].pool[t] + row.pool[t]
<1> DEFINE f == Pooled(t)
           v == row.pool[t]
<1>1. f \in [LpSymbols -> Nat] /\ f[lp] = stats[lp].pool[t] /\ IsFiniteSet(LpSymbols)
  BY SurplusTypes DEF Pooled
<1>2. v \in Nat
  BY DEF currency_stats
<1>3. Pooled(t)' = [f EXCEPT ![lp] = v]
  BY DEF Pooled, DInv, SharesInv, LpTokenTypeOK
<1>4. lp \in LpSymbols
  OBVIOUS
<1> HIDE DEF f, v
<1>5. Total([f EXCEPT ![lp] = v]) = Total(f) - f[lp] + v
  BY ONLY <1>1, <1>2, <1>4, TotalUpdate
<1> QED BY <1>1, <1>3, <1>5 DEF f, v

\* External balances change by what is added.
LEMMA ExternalUpdate ==
  ASSUME DInv, NEW u \in Users, NEW t \in Tokens, NEW v \in Nat,
         \A w \in Users : dexacnts'[w][t].balance = IF w = u THEN v ELSE dexacnts[w][t].balance
  PROVE  Total(External(t)') = Total(External(t)) - dexacnts[u][t].balance + v
<1> DEFINE f == External(t)
<1>1. f \in [Users -> Nat] /\ f[u] = dexacnts[u][t].balance /\ IsFiniteSet(Users)
  BY SurplusTypes DEF External
<1>2. External(t)' = [f EXCEPT ![u] = v]
  BY DEF External
<1>3. u \in Users /\ v \in Nat
  OBVIOUS
<1> HIDE DEF f
<1>4. Total([f EXCEPT ![u] = v]) = Total(f) - f[u] + v
  BY ONLY <1>1, <1>3, TotalUpdate
<1> QED BY <1>1, <1>2, <1>4 DEF f

LEMMA ExternalAdded ==
  ASSUME DInv, NEW u \in Users, NEW touched \in SUBSET Tokens,
         NEW to_add \in [Tokens -> Int], add_signed_ext_balance(u, touched, to_add),
         NEW t \in Tokens
  PROVE  Total(External(t)') = Total(External(t)) + IF t \in touched THEN to_add[t] ELSE 0
<1>1. BooksInv
  BY DEF DInv
<1>8. dexacnts' \in [Users -> [Tokens -> holding]] /\ BalancesChange(u, touched, to_add)
  BY <1>1, ExternalKeeps
<1> DEFINE b == dexacnts[u][t].balance
           x == IF t \in touched THEN to_add[t] ELSE 0
           v == b + x
           sum == Total(External(t))
<1>2. b \in Nat /\ sum \in Nat /\ x \in Int
  BY SurplusTypes DEF DInv, BooksInv, holding
<1>3. \A w \in Users : dexacnts'[w][t].balance = IF w = u THEN v ELSE dexacnts[w][t].balance
  BY <1>2, <1>8 DEF BalancesChange
<1>4. v \in Nat
  <2>1. dexacnts'[u][t].balance = v
    BY <1>3
  <2>2. dexacnts'[u][t].balance \in Nat
    BY <1>8 DEF holding
  <2> HIDE DEF v
  <2> QED BY <2>1, <2>2
<1> HIDE DEF v
<1>5. Total(External(t)') = Total(External(t)) - dexacnts[u][t].balance + v
  BY <1>3, <1>4, ExternalUpdate
<1>6. Total(External(t)') = sum - b + v
  BY <1>5
<1> HIDE DEF sum, b, x
<1>7. sum - b + v = sum + x
  BY <1>2 DEF v
<1> QED BY <1>6, <1>7 DEF sum, x

\* led.token transfers.
LEMMA HeldMoved ==
  ASSUME DInv, NEW flow \in [Tokens -> Int], MoveTokens(flow), NEW t \in Tokens
  PROVE  Held(t)' = Held(t) + flow[t]
<1>1. CASE t = "LEM"
  <2>1. lem \in [supply : Nat, balance : [LemAccounts -> Nat]]
    BY DEF DInv, BooksInv, ClockInv, IssuanceTypeOK
  <2>2. lem' = [lem EXCEPT !.balance["self"] = @ + flow["LEM"],
                           !.balance["users"] = @ - flow["LEM"]]
    BY DEF MoveTokens
  <2>3. lem'.balance["self"] = lem.balance["self"] + flow["LEM"]
    BY <2>1, <2>2 DEF LemAccounts
  <2> QED BY <1>1, <2>3 DEF Held
<1>2. CASE t # "LEM"
  <2>1. t \in OtherTokens
    BY <1>2 DEF OtherTokens
  <2>2. ledger'[t].self = ledger[t].self + flow[t]
    BY <2>1 DEF MoveTokens
  <2> QED BY <1>2, <2>2 DEF Held
<1> QED BY <1>1, <1>2

LEMMA SameHeld ==
  ASSUME lem' = lem, ledger' = ledger, NEW t \in Tokens
  PROVE  Held(t)' = Held(t)
BY DEF Held

LEMMA SameExternal ==
  ASSUME dexacnts' = dexacnts, NEW t \in Tokens
  PROVE  Total(External(t)') = Total(External(t))
<1>1. External(t)' = External(t)
  BY DEF External
<1> QED BY <1>1

LEMMA SamePooled ==
  ASSUME stats' = stats, NEW t \in Tokens
  PROVE  Total(Pooled(t)') = Total(Pooled(t))
<1>1. Pooled(t)' = Pooled(t)
  BY DEF Pooled
<1> QED BY <1>1

\* What a step has to show: what it adds to what the contract owes, it adds to
\* what the contract holds.
LEMMA SurplusKept ==
  ASSUME DInv, NEW t \in Tokens, NEW h \in Int, NEW e \in Int, NEW p \in Int,
         Held(t)' = Held(t) + h,
         Total(External(t)') = Total(External(t)) + e,
         Total(Pooled(t)') = Total(Pooled(t)) + p
  PROVE  /\ Surplus(t) \in Int
         /\ Surplus(t)' = Surplus(t) + h - e - p
<1> DEFINE a == Held(t)
           b == Total(External(t))
           c == Total(Pooled(t))
<1>1. a \in Nat /\ b \in Nat /\ c \in Nat
  BY SurplusTypes
<1>2. Surplus(t) = a - b - c
  BY DEF Surplus
<1>3. Surplus(t)' = Held(t)' - Total(External(t)') - Total(Pooled(t)')
  BY DEF Surplus, Total, Units
<1>4. Surplus(t)' = (a + h) - (b + e) - (c + p)
  BY <1>3
<1> HIDE DEF a, b, c
<1> QED BY <1>1, <1>2, <1>4

\* The bound of the rewards is a number.
LEMMA RewardBoundNat ==
  ASSUME DInv, NEW t \in Tokens
  PROVE  RewardBound(t) \in Nat
<1> DEFINE f == RewardFees(t)
<1>1. Rewarded \in SUBSET LpSymbols /\ IsFiniteSet(LpSymbols)
  BY Flows DEF Rewarded
<1>2. Cardinality(Rewarded) \in Nat
  <2>1. IsFiniteSet(Rewarded)
    BY <1>1, FS_Subset
  <2> QED BY <2>1, FS_CardinalityType
<1>3. f \in [LpSymbols -> Nat]
  <2>1. \A lp \in LpSymbols : stats[lp].fee[t] \in Int
    BY DEF DInv, SharesInv, LpTokenTypeOK, currency_stats
  <2> QED BY <2>1 DEF RewardFees
<1> HIDE DEF f
<1>4. Total(f) \in Nat
  BY ONLY <1>1, <1>3, TotalNat
<1>5. Cardinality(Rewarded) * DexLemReward \in Nat
  BY <1>2, DexAssumption
<1> QED BY <1>4, <1>5 DEF RewardBound, f

\* A step that pays nothing the contract owes to others.
LEMMA NothingPaid ==
  ASSUME DInv, NEW t \in Tokens, NEW h \in Int, NEW e \in Int, NEW p \in Int,
         Held(t)' = Held(t) + h,
         Total(External(t)') = Total(External(t)) + e,
         Total(Pooled(t)') = Total(Pooled(t)) + p,
         h >= e + p
  PROVE  Surplus(t)' >= Surplus(t) - RewardBound(t)
<1> DEFINE old == Surplus(t)
           new == Surplus(t)'
           bound == RewardBound(t)
<1>1. old \in Int /\ new = old + h - e - p
  BY SurplusKept
<1>2. bound \in Nat
  BY RewardBoundNat
<1> HIDE DEF old, new, bound
<1>3. new >= old - bound
  BY <1>1, <1>2
<1> QED BY <1>3 DEF old, new, bound

\* One external balance is replaced.
LEMMA OneExternalUpdate ==
  ASSUME DInv, NEW u \in Users, NEW s \in Tokens, NEW row \in holding,
         dexacnts' = [dexacnts EXCEPT ![u][s] = row], NEW t \in Tokens
  PROVE  Total(External(t)') = Total(External(t))
           + IF t = s THEN row.balance - dexacnts[u][s].balance ELSE 0
<1>1. dexacnts \in [Users -> [Tokens -> holding]]
  BY DEF DInv, BooksInv
<1>2. \A w \in Users : dexacnts'[w][t] = IF w = u /\ t = s THEN row ELSE dexacnts[w][t]
  BY <1>1
<1> DEFINE sum == Total(External(t))
           v == row.balance
           b == dexacnts[u][s].balance
<1>3. sum \in Nat /\ v \in Nat /\ b \in Nat
  BY <1>1, SurplusTypes DEF holding
<1>4. CASE t = s
  <2>1. \A w \in Users : dexacnts'[w][t].balance = IF w = u THEN v ELSE dexacnts[w][t].balance
    BY <1>2, <1>4
  <2> HIDE DEF v
  <2>2. Total(External(t)') = Total(External(t)) - dexacnts[u][t].balance + v
    BY <1>3, <2>1, ExternalUpdate
  <2>3. Total(External(t)') = sum - b + v
    BY <1>4, <2>2
  <2> HIDE DEF sum, b
  <2>4. sum - b + v = sum + (v - b)
    BY <1>3
  <2> QED BY <1>4, <2>3, <2>4 DEF sum, b, v
<1>5. CASE t # s
  <2>1. External(t)' = External(t)
    BY <1>2, <1>5 DEF External
  <2>2. Total(External(t)') = sum
    BY <2>1
  <2> HIDE DEF sum
  <2> QED BY <1>3, <1>5, <2>2 DEF sum
<1> QED BY <1>4, <1>5

\* The emission adds to what the contract holds.
LEMMA EmissionSurplus ==
  ASSUME DInv, Emission, NEW t \in Tokens
  PROVE  Surplus(t)' >= Surplus(t) - RewardBound(t)
<1>1. IssuanceNext /\ dexacnts' = dexacnts /\ ledger' = ledger /\ stats' = stats
  BY DEF Emission, lpVars
<1>2. ClockInv /\ configs.is_active /\ lem.balance["self"] \in Nat
  BY DEF DInv, BooksInv, ClockInv, IssuanceTypeOK, LemAccounts
<1>3. lem'.balance["self"] \in Nat /\ lem'.balance["self"] >= lem.balance["self"]
  <2>1. CASE Tick \/ init
    <3>1. lem' = lem
      BY <2>1 DEF Tick, init
    <3> QED BY <1>2, <3>1
  <2>2. CASE issuelem
    <3>1. lem' = LemAfterIssue
      BY <2>2 DEF issuelem
    <3>2. /\ LemAfterIssue \in [supply : Nat, balance : [LemAccounts -> Nat]]
          /\ LemAfterIssue.balance["self"] >= lem.balance["self"]
      BY <1>2, IssuedLedger
    <3>3. LemAfterIssue.balance["self"] \in Nat
      BY <3>2 DEF LemAccounts
    <3> QED BY <3>1, <3>2, <3>3
  <2> QED BY <1>1, <2>1, <2>2 DEF IssuanceNext
<1> DEFINE h == Held(t)' - Held(t)
           e == 0
           p == 0
<1>4. Held(t) \in Nat /\ Held(t)' \in Nat /\ Held(t)' >= Held(t)
  <2>1. Held(t) \in Nat
    BY SurplusTypes
  <2>2. CASE t = "LEM"
    BY <1>2, <1>3, <2>2 DEF Held
  <2>3. CASE t # "LEM"
    <3>1. Held(t)' = Held(t)
      BY <1>1, <2>3 DEF Held
    <3> QED BY <2>1, <3>1
  <2> QED BY <2>1, <2>2, <2>3
<1>5. Total(External(t)') = Total(External(t)) + e /\ Total(Pooled(t)') = Total(Pooled(t)) + p
  <2>1. Total(External(t)) \in Nat /\ Total(Pooled(t)) \in Nat
    BY SurplusTypes
  <2> QED BY <1>1, <2>1, SameExternal, SamePooled
<1>6. h \in Int /\ e \in Int /\ p \in Int /\ h >= e + p /\ Held(t)' = Held(t) + h
  BY <1>4
<1> HIDE DEF h, e, p
<1> QED BY <1>5, <1>6, NothingPaid

LEMMA PoolTokensSurplus ==
  ASSUME DInv, stats' = stats, dexacnts' = dexacnts, lem' = lem, ledger' = ledger,
         NEW t \in Tokens
  PROVE  Surplus(t)' >= Surplus(t) - RewardBound(t)
<1> DEFINE z == 0
<1>1. Held(t) \in Nat /\ Total(External(t)) \in Nat /\ Total(Pooled(t)) \in Nat
  BY SurplusTypes
<1>2. Held(t)' = Held(t) /\ Total(External(t)') = Total(External(t))
      /\ Total(Pooled(t)') = Total(Pooled(t))
  BY SameHeld, SameExternal, SamePooled
<1>3. /\ z \in Int /\ z >= z + z
      /\ Held(t)' = Held(t) + z
      /\ Total(External(t)') = Total(External(t)) + z
      /\ Total(Pooled(t)') = Total(Pooled(t)) + z
  BY <1>1, <1>2
<1> HIDE DEF z
<1> QED BY <1>3, NothingPaid

\* A deposit or a withdrawal moves the same amount in both.
LEMMA DepositSurplus ==
  ASSUME DInv, NEW u \in Users, NEW s \in Tokens, NEW x \in Int,
         MoveTokens(Only(s, x)), add_signed_ext_balance(u, {s}, Only(s, x)),
         stats' = stats, NEW t \in Tokens
  PROVE  Surplus(t)' >= Surplus(t) - RewardBound(t)
<1> DEFINE flow == Only(s, x)
           touched == {s}
           h == flow[t]
           e == IF t \in touched THEN flow[t] ELSE 0
           p == 0
<1>1. /\ flow \in [Tokens -> Int] /\ touched \in SUBSET Tokens
      /\ MoveTokens(flow) /\ add_signed_ext_balance(u, touched, flow)
  BY Flows
<1>2. h \in Int /\ e = h
  BY <1>1 DEF Only
<1> HIDE DEF flow, touched
<1>3. Held(t)' = Held(t) + h /\ Total(External(t)') = Total(External(t)) + e
  BY <1>1, HeldMoved, ExternalAdded
<1>4. Total(Pooled(t)') = Total(Pooled(t)) + p
  <2>1. Total(Pooled(t)) \in Nat
    BY SurplusTypes
  <2> QED BY <2>1, SamePooled
<1> HIDE DEF h, e
<1>5. h \in Int /\ e \in Int /\ p \in Int /\ h >= e + p
  BY <1>2
<1> HIDE DEF p
<1> QED BY <1>3, <1>4, <1>5, NothingPaid

LEMMA CloseextSurplus ==
  ASSUME DInv, NEW u \in Users, NEW s \in Tokens, openext(u, s) \/ closeext(u, s),
         NEW t \in Tokens
  PROVE  Surplus(t)' >= Surplus(t) - RewardBound(t)
<1> DEFINE b == dexacnts[u][s].balance
           p == 0
<1>1. b \in Nat /\ (~dexacnts[u][s].open => b = 0)
  BY DEF DInv, BooksInv, holding
<1>2. Total(Pooled(t)') = Total(Pooled(t)) + p
  <2>1. Total(Pooled(t)) \in Nat
    BY SurplusTypes
  <2>2. stats' = stats
    BY DEF openext, closeext, lpVars
  <2> QED BY <2>1, <2>2, SamePooled
<1>3. CASE openext(u, s)
  <2> DEFINE row == Holding(0)
             h == 0
             e == IF t = s THEN row.balance - b ELSE 0
  <2>1. row \in holding /\ row.balance = 0
    BY DEF Holding, holding
  <2>2. dexacnts' = [dexacnts EXCEPT ![u][s] = row] /\ ~dexacnts[u][s].open
        /\ lem' = lem /\ ledger' = ledger
    BY <1>3 DEF openext, issuanceVars
  <2> HIDE DEF row
  <2>3. Total(External(t)') = Total(External(t)) + e
    BY <2>1, <2>2, OneExternalUpdate
  <2>4. Held(t)' = Held(t) + h
    <3>1. Held(t) \in Nat
      BY SurplusTypes
    <3> QED BY <2>2, <3>1, SameHeld
  <2>5. h \in Int /\ e \in Int /\ p \in Int /\ h >= e + p
    BY <1>1, <2>1, <2>2
  <2> HIDE DEF h, e, p
  <2> QED BY <1>2, <2>3, <2>4, <2>5, NothingPaid
<1>4. CASE closeext(u, s)
  <2> DEFINE row == NoHolding
             flow == Only(s, -b)
             h == flow[t]
             e == IF t = s THEN row.balance - b ELSE 0
  <2>1. row \in holding /\ row.balance = 0
    BY DEF NoHolding, holding
  <2>2. dexacnts' = [dexacnts EXCEPT ![u][s] = row] /\ MoveTokens(flow)
    BY <1>4 DEF closeext
  <2>3. flow \in [Tokens -> Int] /\ h = IF t = s THEN -b ELSE 0
    <3>1. -b \in Int
      BY <1>1
    <3> QED BY <3>1, Flows DEF Only
  <2> HIDE DEF row, flow
  <2>4. Total(External(t)') = Total(External(t)) + e
    BY <2>1, <2>2, OneExternalUpdate
  <2>5. Held(t)' = Held(t) + h
    BY <2>2, <2>3, HeldMoved
  <2> HIDE DEF h
  <2>6. h \in Int /\ e \in Int /\ p \in Int /\ h >= e + p
    BY <1>1, <2>1, <2>3
  <2> HIDE DEF e, p
  <2> QED BY <1>2, <2>4, <2>5, <2>6, NothingPaid
<1> QED BY <1>3, <1>4

\* The creation fee goes from the external balance to nobody's.
LEMMA InittokenSurplus ==
  ASSUME DInv, NEW u \in Users, NEW lp \in LpSymbols, NEW c \in Pairs,
         NEW x \in Deposits, NEW y \in Deposits, inittoken(u, lp, c[1], x, c[2], y),
         NEW r \in Tokens
  PROVE  Surplus(r)' >= Surplus(r) - RewardBound(r)
<1> DEFINE t == c[1]
           s == c[2]
           row == NewStats(t, x, s, y)
           to_add == [k \in Tokens |-> -Both(t, x, s, y)[k] - Only("LEM", CreationFee)[k]]
           touched == {t, s, "LEM"}
           h == 0
           e == IF r \in touched THEN to_add[r] ELSE 0
           p == row.pool[r]
<1>1. t \in Tokens /\ s \in Tokens /\ x \in Nat \ {0} /\ y \in Nat \ {0}
  <2>1. Pairs \subseteq Tokens \X Tokens /\ Deposits \subseteq Nat \ {0}
    BY DexAssumption
  <2>2. c \in Tokens \X Tokens
    BY <2>1
  <2> QED BY <2>1, <2>2
<1>2. /\ t # s /\ ~stats[lp].exists
      /\ add_signed_ext_balance(u, touched, to_add)
      /\ stats' = [stats EXCEPT ![lp] = row]
      /\ lem' = lem /\ ledger' = ledger
  BY DEF inittoken, issuanceVars
<1>3. /\ row \in currency_stats /\ row.pool = Both(t, x, s, y)
  <2>1. row.pool = Both(t, x, s, y)
    BY DEF NewStats
  <2> HIDE DEF row
  <2>2. stats' \in [LpSymbols -> currency_stats] /\ stats'[lp] = row
    <3>1. DInv'
      BY InittokenInv
    <3> QED BY <1>2, <3>1 DEF DInv, SharesInv, LpTokenTypeOK
  <2> QED BY <2>1, <2>2
<1>4. touched \in SUBSET Tokens /\ (r \notin touched => Both(t, x, s, y)[r] = 0)
  BY <1>1, Flows DEF Both
<1> HIDE DEF t, s, row, touched
<1>5. /\ to_add \in [Tokens -> Int]
      /\ to_add[r] <= -Both(t, x, s, y)[r]
  <2>1. x \in Nat /\ y \in Nat
    BY <1>1
  <2>2. to_add = [k \in Tokens |-> -Both(t, x, s, y)[k] - Only("LEM", CreationFee)[k]]
    OBVIOUS
  <2> HIDE DEF to_add
  <2>3. to_add \in [Tokens -> Int] /\ \A k \in Tokens : to_add[k] <= -Both(t, x, s, y)[k]
    BY ONLY <1>1, <2>1, <2>2, PriceOfPool
  <2> QED BY <2>3
<1> HIDE DEF to_add
<1>6. Total(External(r)') = Total(External(r)) + e
  BY <1>2, <1>4, <1>5, ExternalAdded
<1>7. Total(Pooled(r)') = Total(Pooled(r)) + p
  <2>1. stats[lp].pool[r] = 0
    BY <1>2 DEF DInv, GoodPools, NoStats, NoAmounts
  <2>2. Total(Pooled(r)') = Total(Pooled(r)) - stats[lp].pool[r] + row.pool[r]
    BY <1>2, <1>3, PooledUpdate
  <2>3. Total(Pooled(r)) \in Nat
    BY SurplusTypes
  <2> QED BY <2>1, <2>2, <2>3
<1>8. Held(r)' = Held(r) + h
  <2>1. Held(r) \in Nat
    BY SurplusTypes
  <2> QED BY <1>2, <2>1, SameHeld
<1>9. h \in Int /\ e \in Int /\ p \in Int /\ h >= e + p
  <2>1. p \in Nat /\ p = Both(t, x, s, y)[r]
    BY <1>3 DEF currency_stats
  <2> HIDE DEF p
  <2> QED BY <1>4, <1>5, <2>1
<1> HIDE DEF h, e, p
<1> QED BY <1>6, <1>7, <1>8, <1>9, NothingPaid

\* What is in a pool that is removed is owed to nobody any more.
LEMMA RmpoolSurplus ==
  ASSUME DInv, NEW lp \in LpSymbols, rmpool(lp), NEW t \in Tokens
  PROVE  Surplus(t)' >= Surplus(t) - RewardBound(t)
<1> DEFINE row == NoStats
           z == 0
           p == row.pool[t] - stats[lp].pool[t]
<1>1. row \in currency_stats /\ row.pool[t] = 0
  BY DEF NoStats, NoAmounts, currency_stats
<1>2. stats' = [stats EXCEPT ![lp] = row] /\ lem' = lem /\ ledger' = ledger
      /\ dexacnts' = dexacnts
  BY DEF rmpool, issuanceVars
<1> HIDE DEF row
<1>3. /\ Held(t) \in Nat /\ Total(External(t)) \in Nat /\ Total(Pooled(t)) \in Nat
      /\ stats[lp].pool[t] \in Nat
  BY SurplusTypes DEF DInv, SharesInv, LpTokenTypeOK, currency_stats
<1>4. Total(Pooled(t)') = Total(Pooled(t)) + p
  <2>1. Total(Pooled(t)') = Total(Pooled(t)) - stats[lp].pool[t] + row.pool[t]
    BY <1>1, <1>2, PooledUpdate
  <2> QED BY <1>1, <1>3, <2>1
<1>5. Held(t)' = Held(t) + z /\ Total(External(t)') = Total(External(t)) + z
  BY <1>2, <1>3, SameHeld, SameExternal
<1>6. z \in Int /\ p \in Int /\ z >= z + p
  BY <1>1, <1>3
<1> HIDE DEF z, p
<1> QED BY <1>4, <1>5, <1>6, NothingPaid

\* Liquidity moves between a pool and an external balance.
LEMMA LiquiditySurplus ==
  ASSUME DInv, NEW u \in Users, NEW lp \in LpSymbols, NEW n \in Int, n # 0,
         NEW l1, NEW l2, AddSignedLiq(u, lp, n, l1, l2), stats[lp].supply + n > 0,
         NEW t \in Tokens
  PROVE  Surplus(t)' >= Surplus(t) - RewardBound(t)
<1> DEFINE old == stats[lp]
           row == LiquidityAdded(old, n)
           pay == ToPay(old, n)
           back == [k \in Tokens |-> -pay[k]]
           P == PairOf(old.symbols)
           h == 0
           e == IF t \in P THEN back[t] ELSE 0
           p == pay[t]
<1>1. /\ old.exists /\ add_signed_ext_balance(u, P, back)
      /\ stats' = [stats EXCEPT ![lp] = row]
      /\ lem' = lem /\ ledger' = ledger
  BY DEF AddSignedLiq, issuanceVars
<1>2. old \in currency_stats /\ GoodPool(old)
  BY <1>1, PoolRow
<1>3. P \in SUBSET Tokens
  BY <1>2, RowOfPool
<1>4. t \notin P => pay[t] = 0
  BY DEF ToPay
<1> HIDE DEF old, row, pay, P
<1>5. /\ row \in currency_stats /\ pay \in [Tokens -> Int]
      /\ row.pool[t] = old.pool[t] + pay[t] /\ old.pool[t] \in Nat
  <2>1. old.supply + n > 0
    BY DEF old
  <2>2. row \in currency_stats /\ pay \in [Tokens -> Int]
        /\ \A k \in Tokens : row.pool[k] = old.pool[k] + pay[k]
    BY <1>1, <1>2, <2>1, LiquidityKeepsPool DEF row, pay
  <2> QED BY <1>2, <2>2 DEF currency_stats
<1>6. back \in [Tokens -> Int] /\ back[t] = -pay[t]
  BY <1>5
<1> HIDE DEF back
<1>7. Total(External(t)') = Total(External(t)) + e
  BY <1>1, <1>3, <1>6, ExternalAdded
<1>8. Total(Pooled(t)') = Total(Pooled(t)) + p
  <2>1. Total(Pooled(t)') = Total(Pooled(t)) - stats[lp].pool[t] + row.pool[t]
    BY <1>1, <1>5, PooledUpdate
  <2>2. Total(Pooled(t)) \in Nat
    BY SurplusTypes
  <2> QED BY <1>5, <2>1, <2>2 DEF old
<1>9. Held(t)' = Held(t) + h
  <2>1. Held(t) \in Nat
    BY SurplusTypes
  <2> QED BY <1>1, <2>1, SameHeld
<1>10. h \in Int /\ e \in Int /\ p \in Int /\ h >= e + p
  <2>1. p \in Int
    BY <1>5
  <2> QED BY <1>4, <1>6, <2>1
<1> HIDE DEF h, e, p
<1> QED BY <1>7, <1>8, <1>9, <1>10, NothingPaid

LEMMA PoolsSurplus ==
  ASSUME DInv, Pools, NEW t \in Tokens
  PROVE  Surplus(t)' >= Surplus(t) - RewardBound(t)
<1>1. PICK lp \in LpSymbols :
        \/ rmpool(lp)
        \/ \E u \in Traders, p \in Pairs, x, y \in Deposits :
             inittoken(u, lp, p[1], x, p[2], y)
        \/ \E u \in Traders, q \in LpAmounts, l1, l2 \in Limits :
             addliquidity(u, lp, q, l1, l2) \/ rmliquidity(u, lp, q, l1, l2)
  BY DEF Pools
<1>2. Traders \subseteq Users
  BY DexAssumption
<1>3. CASE rmpool(lp)
  BY <1>3, RmpoolSurplus
<1>4. CASE \E u \in Traders, p \in Pairs, x, y \in Deposits :
             inittoken(u, lp, p[1], x, p[2], y)
  BY <1>2, <1>4, InittokenSurplus
<1>5. ASSUME NEW u \in Traders, NEW q \in LpAmounts, NEW l1 \in Limits, NEW l2 \in Limits,
             addliquidity(u, lp, q, l1, l2) \/ rmliquidity(u, lp, q, l1, l2)
      PROVE  Surplus(t)' >= Surplus(t) - RewardBound(t)
  <2>1. \E n \in Int : \E m1, m2 : n # 0 /\ AddSignedLiq(u, lp, n, m1, m2)
                                         /\ stats[lp].supply + n > 0
    BY <1>2, <1>5, SignedLiquidity
  <2> QED BY <1>2, <2>1, LiquiditySurplus
<1> QED BY <1>1, <1>3, <1>4, <1>5

\* What an exchange does to the two sides of a pool.
PoolFlow(t, in, a, out, b) == IF t = in THEN a ELSE IF t = out THEN -b ELSE 0
PooledChanges(t, d) == Total(Pooled(t)') = Total(Pooled(t)) + d

LEMMA ExchangePooled ==
  ASSUME DInv, NEW lp \in LpSymbols, NEW in \in Tokens, NEW out \in Tokens,
         NEW q \in Int, NEW min,
         Exchangeable(stats[lp], in, LessFee(q), out, min),
         stats' = [stats EXCEPT ![lp] = Exchanged(stats[lp], in, q, out)],
         NEW t \in Tokens
  PROVE  /\ LessFee(q) \in Int /\ AmountOut(stats[lp], in, LessFee(q), out) \in Int
         /\ in # out
         /\ PooledChanges(t, PoolFlow(t, in, LessFee(q), out,
                                     AmountOut(stats[lp], in, LessFee(q), out)))
<1> DEFINE old == stats[lp]
           new == Exchanged(old, in, q, out)
           a == LessFee(q)
           b == AmountOut(old, in, a, out)
<1>1. old.exists /\ Exchangeable(old, in, a, out, min) /\ stats' = [stats EXCEPT ![lp] = new]
  BY DEF Exchangeable
<1>2. old \in currency_stats /\ GoodPool(old)
  BY <1>1, PoolRow
<1>3. a = LessFee(q) /\ b = AmountOut(old, in, a, out) /\ new = Exchanged(old, in, q, out)
  OBVIOUS
<1>4. q \in Int /\ in \in Tokens /\ out \in Tokens
  OBVIOUS
<1> HIDE DEF old, new, a, b
<1>5. /\ a \in Int /\ b \in Int /\ in # out /\ new \in currency_stats
      /\ \A k \in Tokens : new.pool[k] = IF k = in THEN old.pool[k] + a
                                         ELSE IF k = out THEN old.pool[k] - b
                                         ELSE old.pool[k]
  BY ONLY <1>1, <1>2, <1>3, <1>4, ExchangeKeepsPool
<1>6. Total(Pooled(t)') = Total(Pooled(t)) - stats[lp].pool[t] + new.pool[t]
  BY <1>1, <1>5, PooledUpdate
<1> DEFINE x == old.pool[t]
           sum == Total(Pooled(t))
           d == PoolFlow(t, in, a, out, b)
<1>7. x \in Nat /\ sum \in Nat
  BY <1>2, SurplusTypes DEF currency_stats
<1>8. new.pool[t] = x + d /\ d \in Int
  BY <1>5, <1>7 DEF PoolFlow
<1>9. Total(Pooled(t)') = sum - x + new.pool[t]
  BY <1>6 DEF old
<1> HIDE DEF x, sum, d
<1>10. Total(Pooled(t)') = sum + d
  BY <1>7, <1>8, <1>9
<1> QED BY <1>5, <1>10 DEF sum, d, a, b, old, PooledChanges

LEMMA ExchangeSurplus ==
  ASSUME DInv, NEW u \in Users, NEW lp \in LpSymbols, NEW in \in Tokens, NEW out \in Tokens,
         NEW q \in Int, NEW min, exchange(u, lp, in, q, out, min), NEW t \in Tokens
  PROVE  Surplus(t)' >= Surplus(t) - RewardBound(t)
<1> DEFINE a == LessFee(q)
           b == AmountOut(stats[lp], in, a, out)
           to_add == Both(in, -a, out, b)
           touched == {in, out}
           h == 0
           e == IF t \in touched THEN to_add[t] ELSE 0
           p == PoolFlow(t, in, a, out, b)
<1>1. /\ Exchangeable(stats[lp], in, a, out, min)
      /\ stats' = [stats EXCEPT ![lp] = Exchanged(stats[lp], in, q, out)]
      /\ add_signed_ext_balance(u, touched, to_add)
      /\ lem' = lem /\ ledger' = ledger
  BY DEF exchange, issuanceVars
<1> HIDE DEF a, b, to_add, touched, h, e, p
<1>3. /\ a \in Int /\ b \in Int /\ in # out
      /\ PooledChanges(t, PoolFlow(t, in, a, out, b))
  BY <1>1, ExchangePooled DEF a, b
<1>4. to_add \in [Tokens -> Int] /\ touched \in SUBSET Tokens
  <2>1. -a \in Int
    BY <1>3
  <2> QED BY <1>3, <2>1, Flows DEF to_add, touched
<1>5. Total(External(t)') = Total(External(t)) + e
  BY <1>1, <1>4, ExternalAdded DEF e
<1>6. Held(t)' = Held(t) + h
  <2>1. Held(t) \in Nat
    BY SurplusTypes
  <2> QED BY <1>1, <2>1, SameHeld DEF h
<1>7. h \in Int /\ e \in Int /\ p \in Int /\ h >= e + p
  <2>1. e = IF t = in THEN -a ELSE IF t = out THEN b ELSE 0
    BY DEF e, to_add, touched, Both
  <2> QED BY <1>3, <2>1 DEF h, p, PoolFlow
<1> QED BY <1>3, <1>5, <1>6, <1>7, NothingPaid DEF p, PooledChanges

\* The fee of a memoexchange stays with the contract.
LEMMA MemoexchangeSurplus ==
  ASSUME DInv, NEW lp \in LpSymbols, NEW in \in Tokens, NEW out \in Tokens,
         NEW q \in Int, NEW min, memoexchange(lp, in, q, out, min), NEW t \in Tokens
  PROVE  Surplus(t)' >= Surplus(t) - RewardBound(t)
<1> DEFINE a == LessFee(q)
           b == AmountOut(stats[lp], in, a, out)
           flow == Both(in, q, out, -b)
           h == flow[t]
           e == 0
           p == PoolFlow(t, in, a, out, b)
<1>1. /\ Exchangeable(stats[lp], in, a, out, min)
      /\ stats' = [stats EXCEPT ![lp] = Exchanged(stats[lp], in, q, out)]
      /\ MoveTokens(flow) /\ dexacnts' = dexacnts /\ q > 0
  BY DEF memoexchange
<1> HIDE DEF a, b, flow, h, e, p
<1>3. /\ a \in Int /\ b \in Int /\ in # out
      /\ PooledChanges(t, PoolFlow(t, in, a, out, b))
  BY <1>1, ExchangePooled DEF a, b
<1>4. flow \in [Tokens -> Int]
  <2>1. -b \in Int
    BY <1>3
  <2> QED BY <2>1, Flows DEF flow
<1>5. Held(t)' = Held(t) + h
  BY <1>1, <1>4, HeldMoved DEF h
<1>6. Total(External(t)') = Total(External(t)) + e
  <2>1. Total(External(t)) \in Nat
    BY SurplusTypes
  <2> QED BY <1>1, <2>1, SameExternal DEF e
<1>7. h \in Int /\ e \in Int /\ p \in Int /\ h >= e + p
  <2>1. h = IF t = in THEN q ELSE IF t = out THEN -b ELSE 0
    BY DEF h, flow, Both
  <2>2. a <= q
    BY <1>1, LessFeeBounds DEF a
  <2> QED BY <1>3, <2>1, <2>2 DEF e, p, PoolFlow
<1> QED BY <1>3, <1>5, <1>6, <1>7, NothingPaid DEF p, PooledChanges

LEMMA ExchangesSurplus ==
  ASSUME DInv, Exchanges, NEW t \in Tokens
  PROVE  Surplus(t)' >= Surplus(t) - RewardBound(t)
<1>1. PICK lp \in LpSymbols, in \in Tokens, out \in Tokens, q \in Swaps, l \in Limits :
        \/ \E u \in Traders : exchange(u, lp, in, q, out, l) \/ exchange(u, lp, in, q, out, -l)
        \/ memoexchange(lp, in, q, out, l)
  BY DEF Exchanges
<1>2. q \in Int /\ Traders \subseteq Users
  <2>1. Swaps \subseteq Int /\ Traders \subseteq Users
    BY DexAssumption
  <2> QED BY <2>1
<1>3. ASSUME NEW u \in Traders, NEW min, exchange(u, lp, in, q, out, min)
      PROVE  Surplus(t)' >= Surplus(t) - RewardBound(t)
  BY <1>2, <1>3, ExchangeSurplus
<1>4. CASE memoexchange(lp, in, q, out, l)
  BY <1>2, <1>4, MemoexchangeSurplus
<1> QED BY <1>1, <1>3, <1>4

\* The bound of a step that rewards one pair.
LEMMA RewardBoundOfOne ==
  ASSUME DInv, NEW lp \in LpSymbols, Rewarded = {lp}, NEW t \in Tokens,
         NEW booked \in Nat, booked = IF stats[lp].fee[t] > 0 THEN stats[lp].fee[t] ELSE 0
  PROVE  RewardBound(t) = booked + IF t = "LEM" THEN DexLemReward ELSE 0
<1> DEFINE f == RewardFees(t)
           z == [l \in LpSymbols |-> 0]
<1>1. f = [z EXCEPT ![lp] = booked]
  BY DEF RewardFees
<1>2. IsFiniteSet(LpSymbols) /\ lp \in LpSymbols /\ booked \in Nat
  BY Flows
<1>3. Total(z) = 0
  BY ONLY <1>2, TotalZero
<1>4. z \in [LpSymbols -> Nat] /\ z[lp] = 0
  OBVIOUS
<1> HIDE DEF z, f
<1>5. Total([z EXCEPT ![lp] = booked]) = Total(z) - z[lp] + booked
  BY ONLY <1>2, <1>4, TotalUpdate
<1>6. Total(f) = booked
  BY <1>1, <1>2, <1>3, <1>4, <1>5
<1>7. Cardinality(Rewarded) = 1
  BY FS_Singleton
<1>8. RewardBound(t) = Total(f) + IF t = "LEM" THEN Cardinality(Rewarded) * DexLemReward ELSE 0
  BY DEF RewardBound, f
<1>9. 1 * DexLemReward = DexLemReward
  BY DexAssumption
<1> QED BY <1>6, <1>7, <1>8, <1>9

\* What clmpoolreward takes from the contract.
LEMMA HeldAfterReward ==
  ASSUME DInv, NEW pay, \A t \in Tokens : pay[t] \in Nat, PayPoolReward(pay), NEW t \in Tokens
  PROVE  Held(t)' \in Int /\ Held(t)' >= Held(t) - pay[t]
<1> DEFINE issued == LemAfterIssue
           x == pay["LEM"]
<1>1. ClockInv /\ configs.is_active
      /\ ledger \in [OtherTokens -> [self : Nat, users : Nat]]
  BY DEF DInv, BooksInv
<1>2. /\ issued \in [supply : Nat, balance : [LemAccounts -> Nat]]
      /\ issued.balance["self"] >= lem.balance["self"]
      /\ lem.balance["self"] \in Nat
  BY <1>1, IssuedLedger DEF ClockInv, IssuanceTypeOK, LemAccounts
<1>3. /\ lem' = [issued EXCEPT !.balance["self"] = @ - x, !.balance["users"] = @ + x]
      /\ ledger' = [s \in OtherTokens |-> [self  |-> ledger[s].self - pay[s],
                                           users |-> ledger[s].users + pay[s]]]
  BY DEF PayPoolReward
<1> HIDE DEF issued, x
<1>4. CASE t = "LEM"
  <2>1. lem'.balance["self"] = issued.balance["self"] - x
    BY <1>2, <1>3 DEF LemAccounts
  <2>2. x \in Nat /\ pay[t] = x
    BY <1>4 DEF x
  <2>3. issued.balance["self"] \in Nat
    BY <1>2 DEF LemAccounts
  <2>4. Held(t)' = lem'.balance["self"] /\ Held(t) = lem.balance["self"]
    BY <1>4 DEF Held
  <2> QED BY <1>2, <2>1, <2>2, <2>3, <2>4
<1>5. CASE t # "LEM"
  <2>1. t \in OtherTokens
    BY <1>5 DEF OtherTokens
  <2>2. ledger'[t].self = ledger[t].self - pay[t]
    BY <1>3, <2>1
  <2>3. ledger[t].self \in Nat /\ pay[t] \in Nat
    BY <1>1, <2>1
  <2>4. Held(t)' = ledger'[t].self /\ Held(t) = ledger[t].self
    BY <1>5 DEF Held
  <2> QED BY <2>2, <2>3, <2>4
<1> QED BY <1>4, <1>5

LEMMA ClmpoolrewardSurplus ==
  ASSUME DInv, NEW lp \in LpSymbols, NEW share \in PoolShares, clmpoolreward(lp, share),
         NEW t \in Tokens
  PROVE  Surplus(t)' >= Surplus(t) - RewardBound(t)
<1> DEFINE pay == PoolPayment(lp, share)
           booked == IF stats[lp].fee[t] > 0 THEN stats[lp].fee[t] ELSE 0
           extra == IF t = "LEM" THEN DexLemReward ELSE 0
           h == Held(t)' - Held(t)
           z == 0
<1>1. /\ stats[lp].exists /\ RewardDue(lp) /\ PayPoolReward(pay)
      /\ stats' = [stats EXCEPT ![lp].fee = NoAmounts]
      /\ poolrewards' = [poolrewards EXCEPT ![lp] = [exists |-> TRUE, last_reward |-> now]]
      /\ dexacnts' = dexacnts
  BY DEF clmpoolreward
<1>2. /\ \A s \in Tokens : pay[s] \in Nat
      /\ pay[t] <= booked + extra /\ booked \in Nat
  BY <1>1, PaymentBound
<1>3. Rewarded = {lp}
  <2>1. poolrewards \in [LpSymbols -> pool_reward]
    BY DEF DInv, BooksInv
  <2>2. poolrewards'[lp] # poolrewards[lp]
    <3>1. now \in Nat
      BY DEF DInv, BooksInv, ClockInv, IssuanceTypeOK
    <3>2. RewardInterval \in Nat \ {0}
      BY DexAssumption
    <3>3. poolrewards'[lp] = [exists |-> TRUE, last_reward |-> now]
      BY <1>1, <2>1
    <3>4. poolrewards[lp].exists => poolrewards[lp].last_reward # now
      BY <1>1, <3>1, <3>2 DEF RewardDue
    <3> QED BY <3>3, <3>4
  <2>3. \A l \in LpSymbols : l # lp => poolrewards'[l] = poolrewards[l]
    BY <1>1, <2>1
  <2> QED BY <2>2, <2>3 DEF Rewarded
<1>4. extra \in Nat
  BY DexAssumption
<1>5. RewardBound(t) = booked + extra
  BY <1>2, <1>3, RewardBoundOfOne
<1> HIDE DEF pay, booked, extra, h
<1>6. Held(t)' \in Int /\ Held(t)' >= Held(t) - pay[t]
  BY <1>1, <1>2, HeldAfterReward
<1>7. Held(t) \in Nat /\ Total(External(t)) \in Nat /\ Total(Pooled(t)) \in Nat
  BY SurplusTypes
<1>8. /\ h \in Int /\ z \in Int /\ h >= -pay[t] /\ pay[t] \in Nat
      /\ Held(t)' = Held(t) + h
  BY <1>2, <1>6, <1>7 DEF h
<1>9. Total(Pooled(t)') = Total(Pooled(t)) + z
  <2>1. stats \in [LpSymbols -> currency_stats]
    BY DEF DInv, SharesInv, LpTokenTypeOK
  <2>2. \A l \in LpSymbols : stats'[l].pool = stats[l].pool
    BY <1>1, <2>1 DEF currency_stats
  <2>3. Pooled(t)' = Pooled(t)
    BY <2>2 DEF Pooled
  <2> QED BY <1>7, <2>3
<1>10. Total(External(t)') = Total(External(t)) + z
  BY <1>1, <1>7, SameExternal
<1> HIDE DEF z
<1>11. Surplus(t) \in Int /\ Surplus(t)' = Surplus(t) + h - z - z
  BY <1>8, <1>9, <1>10, SurplusKept
<1> DEFINE old == Surplus(t)
           new == Surplus(t)'
           bound == RewardBound(t)
<1>12. old \in Int /\ new = old + h - z - z /\ bound = booked + extra
  BY <1>5, <1>11
<1> HIDE DEF old, new, bound
<1>13. new >= old - bound
  BY <1>2, <1>4, <1>8, <1>12 DEF z
<1> QED BY <1>13 DEF old, new, bound

\* The contract's funds beyond what it owes to external balances and pools pay
\* for pool rewards only, and for no more than the booked fees and the pair's
\* LEM reward, with any number of users, pools and pairs.
THEOREM SurplusOnlyPaysRewards == Spec => SurplusPaysRewardsOnly
<1>1. DInv /\ [Next]_vars
        => [\A t \in Tokens : Surplus(t)' >= Surplus(t) - RewardBound(t)]_vars
  <2> SUFFICES ASSUME DInv, Next, NEW t \in Tokens
               PROVE  Surplus(t)' >= Surplus(t) - RewardBound(t)
    OBVIOUS
  <2>1. CASE Emission
    BY <2>1, EmissionSurplus
  <2>2. CASE PoolTokens
    <3>1. stats' = stats /\ dexacnts' = dexacnts /\ lem' = lem /\ ledger' = ledger
      BY <2>2, PoolTokensKeep DEF PoolTokens, DInv, issuanceVars
    <3> QED BY <3>1, PoolTokensSurplus
  <2>3. CASE ExternalBalances
    <3>1. PICK u \in Traders, s \in Tokens :
            \/ openext(u, s) \/ closeext(u, s)
            \/ \E q \in Deposits : deposit(u, s, q) \/ withdraw(u, s, q)
      BY <2>3 DEF ExternalBalances
    <3>2. u \in Users
      BY DexAssumption
    <3>3. CASE openext(u, s) \/ closeext(u, s)
      BY <3>2, <3>3, CloseextSurplus
    <3>4. ASSUME NEW q \in Deposits, deposit(u, s, q) \/ withdraw(u, s, q)
          PROVE  Surplus(t)' >= Surplus(t) - RewardBound(t)
      <4>1. q \in Int /\ -q \in Int
        <5>1. Deposits \subseteq Nat
          BY DexAssumption
        <5>2. q \in Nat
          BY <5>1
        <5> QED BY <5>2
      <4>2. ASSUME deposit(u, s, q) PROVE Surplus(t)' >= Surplus(t) - RewardBound(t)
        <5>1. stats' = stats
          BY <4>2 DEF deposit, lpVars
        <5> QED BY <3>2, <4>1, <4>2, <5>1, DepositSurplus DEF deposit
      <4>3. ASSUME withdraw(u, s, q) PROVE Surplus(t)' >= Surplus(t) - RewardBound(t)
        <5>1. stats' = stats
          BY <4>3 DEF withdraw, lpVars
        <5> QED BY <3>2, <4>1, <4>3, <5>1, DepositSurplus DEF withdraw
      <4> QED BY <3>4, <4>2, <4>3
    <3> QED BY <3>1, <3>3, <3>4
  <2>4. CASE Pools
    BY <2>4, PoolsSurplus
  <2>5. CASE Exchanges
    BY <2>5, ExchangesSurplus
  <2>6. CASE \E lp \in LpSymbols, share \in PoolShares : clmpoolreward(lp, share)
    BY <2>6, ClmpoolrewardSurplus
  <2> QED BY <2>1, <2>2, <2>3, <2>4, <2>5, <2>6 DEF Next
<1> QED BY <1>1, DexInvariance, PTL DEF Spec, SurplusPaysRewardsOnly


=============================================================================
