-------------------------- MODULE AmountTheorems ---------------------------
(***************************************************************************)
(* What the proofs about balances need to know of Total: it is a natural   *)
(* number, how it changes when one account changes, that it is additive,   *)
(* that no account exceeds it, and that proportional amounts have          *)
(* proportional totals.                                                    *)
(***************************************************************************)
EXTENDS Amounts, FiniteSetTheorems, FunctionTheorems, TLAPS

\* Membership in Units: a unit is an account and an index up to its amount.
LEMMA UnitsMember ==
  ASSUME NEW S, NEW f \in [S -> Nat]
  PROVE  /\ \A a \in S, i \in Nat : <<a, i>> \in Units(f) <=> i \in 1 .. f[a]
         /\ \A x \in Units(f) : \E a \in S, i \in Nat : x = <<a, i>> /\ i \in 1 .. f[a]
  BY DEF Units

\* Finitely many accounts hold finitely many units, so a total is a number.
LEMMA TotalNat ==
  ASSUME NEW S, IsFiniteSet(S), NEW f \in [S -> Nat]
  PROVE  IsFiniteSet(Units(f)) /\ Total(f) \in Nat
<1> DEFINE Account(a) == {a} \X (1 .. f[a])
           Accounts == {Account(a) : a \in S}
           g == [a \in S |-> Account(a)]
<1>1. IsFiniteSet(Accounts)
  <2>1. g \in Surjection(S, Accounts)
    BY DEF Surjection
  <2> QED BY <2>1, FS_Surjection
<1>2. \A T \in Accounts : IsFiniteSet(T)
  <2> SUFFICES ASSUME NEW a \in S PROVE IsFiniteSet(Account(a))
    OBVIOUS
  <2>1. f[a] \in Int /\ 1 \in Int
    OBVIOUS
  <2>2. IsFiniteSet(1 .. f[a])
    BY <2>1, FS_Interval
  <2>3. IsFiniteSet({a})
    BY FS_Singleton
  <2> QED BY <2>2, <2>3, FS_Product
<1>3. Units(f) = UNION Accounts
  BY DEF Units
<1>4. IsFiniteSet(Units(f))
  BY <1>1, <1>2, <1>3, FS_UNION
<1> QED BY <1>4, FS_CardinalityType DEF Total

\* Accounts without units have the total 0.
LEMMA TotalZero ==
  ASSUME NEW S, IsFiniteSet(S)
  PROVE  Total([a \in S |-> 0]) = 0
<1> DEFINE z == [a \in S |-> 0]
<1>1. Units(z) = {}
  BY DEF Units
<1> QED BY <1>1, FS_EmptySet DEF Total

\* The units of one account are a part of all units: f[a] of them.
LEMMA AccountUnits ==
  ASSUME NEW S, IsFiniteSet(S), NEW f \in [S -> Nat], NEW a \in S
  PROVE  /\ {a} \X (1 .. f[a]) \subseteq Units(f)
         /\ IsFiniteSet({a} \X (1 .. f[a]))
         /\ Cardinality({a} \X (1 .. f[a])) = f[a]
<1>1. {a} \X (1 .. f[a]) \subseteq Units(f)
  BY DEF Units
<1>2. IsFiniteSet(1 .. f[a]) /\ Cardinality(1 .. f[a]) = f[a]
  <2>1. f[a] \in Int /\ 1 \in Int /\ f[a] \in Nat
    OBVIOUS
  <2> QED BY <2>1, FS_Interval
<1>3. IsFiniteSet({a}) /\ Cardinality({a}) = 1
  BY FS_Singleton
<1>4. /\ IsFiniteSet({a} \X (1 .. f[a]))
      /\ Cardinality({a} \X (1 .. f[a])) = Cardinality({a}) * Cardinality(1 .. f[a])
  BY <1>2, <1>3, FS_Product
<1>5. f[a] \in Nat
  OBVIOUS
<1> QED BY <1>1, <1>2, <1>3, <1>4, <1>5

\* No account holds more than the total.
LEMMA TotalMember ==
  ASSUME NEW S, IsFiniteSet(S), NEW f \in [S -> Nat], NEW a \in S
  PROVE  f[a] <= Total(f)
<1>1. IsFiniteSet(Units(f))
  BY TotalNat
<1> DEFINE Own == {a} \X (1 .. f[a])
<1>2. Own \in SUBSET Units(f) /\ Cardinality(Own) = f[a]
  BY AccountUnits
<1> HIDE DEF Own
<1>3. Cardinality(Own) <= Cardinality(Units(f))
  BY <1>1, <1>2, FS_Subset
<1> QED BY <1>2, <1>3 DEF Total

\* Changing the amount of one account changes the total by the difference.
LEMMA TotalUpdate ==
  ASSUME NEW S, IsFiniteSet(S), NEW f \in [S -> Nat], NEW a \in S, NEW v \in Nat
  PROVE  Total([f EXCEPT ![a] = v]) = Total(f) - f[a] + v
<1> DEFINE g == [f EXCEPT ![a] = v]
           Old == {a} \X (1 .. f[a])
           New == {a} \X (1 .. v)
           Rest == Units(f) \ Old
<1>1. g \in [S -> Nat] /\ g[a] = v
  OBVIOUS
<1>2. Old \subseteq Units(f) /\ IsFiniteSet(Old) /\ Cardinality(Old) = f[a]
  BY AccountUnits
<1>3. New \subseteq Units(g) /\ IsFiniteSet(New) /\ Cardinality(New) = v
  BY <1>1, AccountUnits
<1>4. IsFiniteSet(Units(f)) /\ Cardinality(Units(f)) \in Nat
  BY TotalNat DEF Total
<1>5. Units(g) = Rest \cup New
  BY DEF Units
<1>6. Rest \cap New = {}
  BY DEF Units
<1> HIDE DEF Old, New, g
<1>7. IsFiniteSet(Rest) /\ Cardinality(Rest) = Cardinality(Units(f)) - f[a]
  <2>1. Units(f) \cap Old = Old
    BY <1>2
  <2> QED BY <1>2, <1>4, <2>1, FS_Difference
<1> HIDE DEF Rest
<1>8. Cardinality(Rest \cup New)
        = Cardinality(Rest) + Cardinality(New) - Cardinality(Rest \cap New)
  BY <1>3, <1>7, FS_Union
<1>9. Cardinality(Rest \cap New) = 0
  BY <1>6, FS_EmptySet
<1>10. f[a] \in Nat
  OBVIOUS
<1>11. Total(g) = Total(f) - f[a] + v
  BY <1>3, <1>4, <1>5, <1>7, <1>8, <1>9, <1>10 DEF Total
<1> QED BY <1>11 DEF g

\* Totals are additive.
LEMMA TotalAdd ==
  ASSUME NEW S, IsFiniteSet(S), NEW f \in [S -> Nat], NEW g \in [S -> Nat]
  PROVE  Total([a \in S |-> f[a] + g[a]]) = Total(f) + Total(g)
<1> DEFINE h == [a \in S |-> f[a] + g[a]]
           Extra == Units(h) \ Units(f)
           shift == [x \in Extra |-> <<x[1], x[2] - f[x[1]]>>]
<1>1. h \in [S -> Nat] /\ \A a \in S : h[a] = f[a] + g[a]
  OBVIOUS
<1> HIDE DEF h
<1>2. Units(f) \subseteq Units(h)
  <2> SUFFICES ASSUME NEW x \in Units(f) PROVE x \in Units(h)
    OBVIOUS
  <2>1. PICK a \in S, i \in Nat : x = <<a, i>> /\ i \in 1 .. f[a]
    BY UnitsMember
  <2>2. i \in 1 .. h[a]
    BY <1>1, <2>1
  <2> QED BY <1>1, <2>1, <2>2, UnitsMember
<1>3. \A x : x \in Extra <=>
        \E a \in S, i \in Nat : x = <<a, i>> /\ i \in (f[a] + 1) .. (f[a] + g[a])
  <2> SUFFICES ASSUME NEW x
               PROVE  x \in Extra <=>
                        \E a \in S, i \in Nat : x = <<a, i>> /\ i \in (f[a] + 1) .. (f[a] + g[a])
    OBVIOUS
  <2>1. ASSUME x \in Extra
        PROVE  \E a \in S, i \in Nat : x = <<a, i>> /\ i \in (f[a] + 1) .. (f[a] + g[a])
    <3>1. PICK a \in S, i \in Nat : x = <<a, i>> /\ i \in 1 .. h[a]
      BY <1>1, <2>1, UnitsMember
    <3>2. i \notin 1 .. f[a]
      BY <2>1, <3>1, UnitsMember
    <3>3. f[a] \in Nat /\ g[a] \in Nat
      OBVIOUS
    <3>4. i \in (f[a] + 1) .. (f[a] + g[a])
      BY <1>1, <3>1, <3>2, <3>3
    <3> QED BY <3>1, <3>4
  <2>2. ASSUME NEW a \in S, NEW i \in Nat, x = <<a, i>>, i \in (f[a] + 1) .. (f[a] + g[a])
        PROVE  x \in Extra
    <3>1. f[a] \in Nat /\ g[a] \in Nat
      OBVIOUS
    <3>2. i \in 1 .. h[a] /\ i \notin 1 .. f[a]
      BY <1>1, <2>2, <3>1
    <3>3. x \in Units(h) /\ x \notin Units(f)
      BY <1>1, <2>2, <3>2, UnitsMember
    <3> QED BY <3>3
  <2> QED BY <2>1, <2>2
<1>4. IsFiniteSet(Units(h)) /\ IsFiniteSet(Units(f)) /\ IsFiniteSet(Units(g))
  BY <1>1, TotalNat
<1>5. /\ Cardinality(Units(h)) \in Nat
      /\ Cardinality(Units(f)) \in Nat
      /\ Cardinality(Units(g)) \in Nat
  BY <1>4, FS_CardinalityType
<1>6. IsFiniteSet(Extra) /\ Cardinality(Extra) = Cardinality(Units(h)) - Cardinality(Units(f))
  <2>1. Units(h) \cap Units(f) = Units(f)
    BY <1>2
  <2> QED BY <1>4, <2>1, FS_Difference
<1> HIDE DEF Extra
<1>7. shift \in Bijection(Extra, Units(g))
  <2>1. \A x \in Extra : shift[x] \in Units(g)
    <3> SUFFICES ASSUME NEW x \in Extra PROVE shift[x] \in Units(g)
      OBVIOUS
    <3>1. PICK a \in S, i \in Nat : x = <<a, i>> /\ i \in (f[a] + 1) .. (f[a] + g[a])
      BY <1>3
    <3>2. shift[x] = <<a, i - f[a]>>
      BY <3>1
    <3>3. f[a] \in Nat /\ g[a] \in Nat
      OBVIOUS
    <3>4. i - f[a] \in Nat /\ i - f[a] \in 1 .. g[a]
      BY <3>1, <3>3
    <3> QED BY <3>2, <3>4, UnitsMember
  <2>2. ASSUME NEW x \in Extra, NEW y \in Extra, shift[x] = shift[y]
        PROVE  x = y
    <3>1. PICK a \in S, i \in Nat : x = <<a, i>> /\ i \in (f[a] + 1) .. (f[a] + g[a])
      BY <1>3
    <3>2. PICK b \in S, j \in Nat : y = <<b, j>> /\ j \in (f[b] + 1) .. (f[b] + g[b])
      BY <1>3
    <3>3. shift[x] = <<a, i - f[a]>> /\ shift[y] = <<b, j - f[b]>>
      BY <3>1, <3>2
    <3>4. a = b /\ i - f[a] = j - f[a]
      BY <2>2, <3>3
    <3>5. f[a] \in Nat
      OBVIOUS
    <3> QED BY <3>1, <3>2, <3>4, <3>5
  <2>3. ASSUME NEW y \in Units(g) PROVE \E x \in Extra : shift[x] = y
    <3>1. PICK a \in S, i \in Nat : y = <<a, i>> /\ i \in 1 .. g[a]
      BY UnitsMember
    <3>2. f[a] \in Nat /\ g[a] \in Nat
      OBVIOUS
    <3>3. i + f[a] \in Nat /\ i + f[a] \in (f[a] + 1) .. (f[a] + g[a])
      BY <3>1, <3>2
    <3>4. <<a, i + f[a]>> \in Extra
      BY <1>3, <3>3
    <3>5. shift[<<a, i + f[a]>>] = <<a, i + f[a] - f[a]>>
      BY <3>4
    <3> QED BY <3>1, <3>2, <3>4, <3>5
  <2> HIDE DEF shift
  <2>4. shift \in [Extra -> Units(g)]
    BY <2>1 DEF shift
  <2> QED BY <2>2, <2>3, <2>4 DEF Bijection, Injection, Surjection, IsInjective
<1>8. Cardinality(Units(g)) = Cardinality(Extra)
  <2>1. ExistsBijection(Extra, Units(g))
    BY <1>7 DEF ExistsBijection
  <2> QED BY <1>6, <2>1, FS_Bijection
<1>9. Total(h) = Total(f) + Total(g)
  BY <1>5, <1>6, <1>8 DEF Total
<1> QED BY <1>9 DEF h

-----------------------------------------------------------------------------
(***************************************************************************)
(* Arithmetic of products, quotients and remainders.                       *)
(***************************************************************************)
\* A product grows with its factor.
LEMMA ProductMonotone ==
  ASSUME NEW a \in Nat, NEW b \in Nat, NEW m \in Nat, a <= b
  PROVE  a * m <= b * m
<1>1. PICK d \in Nat : b = a + d
  <2>1. b - a \in Nat /\ b = a + (b - a)
    OBVIOUS
  <2> QED BY <2>1
<1>2. (a + d) * m = a * m + d * m
  OBVIOUS
<1>3. d * m \in Nat /\ a * m \in Nat
  OBVIOUS
<1> QED BY <1>1, <1>2, <1>3

\* Division with remainder.
LEMMA DivMod ==
  ASSUME NEW k \in Nat, NEW n \in Nat \ {0}
  PROVE  /\ k \div n \in Nat
         /\ k % n \in 0 .. (n - 1)
         /\ k = n * (k \div n) + (k % n)
  OBVIOUS

\* A number of whole shares that fits is at most the quotient.
LEMMA DivAtLeast ==
  ASSUME NEW k \in Nat, NEW n \in Nat \ {0}, NEW q \in Nat, n * q <= k
  PROVE  q <= k \div n
<1> DEFINE d == k \div n
<1>1. d \in Nat /\ k % n \in 0 .. (n - 1) /\ k = n * d + (k % n)
  BY DivMod
<1>2. k < n * d + n
  <2>1. n * d \in Nat /\ k % n < n
    BY <1>1
  <2> QED BY <1>1, <2>1
<1> HIDE DEF d
<1>3. SUFFICES ASSUME d + 1 <= q PROVE FALSE
  BY <1>1 DEF d
<1>4. (d + 1) * n <= q * n
  BY <1>1, <1>3, ProductMonotone
<1>5. (d + 1) * n = n * d + n /\ q * n = n * q /\ n * d \in Nat /\ n * q \in Nat
  BY <1>1
<1> QED BY <1>2, <1>4, <1>5

\* A quotient grows with its dividend.
LEMMA QuotientGrows ==
  ASSUME NEW k \in Nat, NEW l \in Nat, NEW n \in Nat \ {0}, k <= l
  PROVE  k \div n <= l \div n
<1> DEFINE q == k \div n
<1>1. q \in Nat /\ n * q <= k
  BY DivMod
<1> HIDE DEF q
<1>2. n * q \in Nat /\ n * q <= l
  BY <1>1
<1>3. q <= l \div n
  BY <1>1, <1>2, DivAtLeast
<1> QED BY <1>3 DEF q

\* Dividing in two parts loses what dividing at once keeps.
LEMMA QuotientsAdd ==
  ASSUME NEW k \in Nat, NEW l \in Nat, NEW n \in Nat \ {0}
  PROVE  (k \div n) + (l \div n) <= (k + l) \div n
<1> DEFINE q == k \div n
           r == l \div n
<1>1. q \in Nat /\ n * q <= k
  BY DivMod
<1>2. r \in Nat /\ n * r <= l
  BY DivMod
<1> HIDE DEF q, r
<1>3. n * (q + r) = n * q + n * r /\ n * q \in Nat /\ n * r \in Nat /\ q + r \in Nat
  BY <1>1, <1>2
<1>4. n * (q + r) <= k + l /\ k + l \in Nat
  BY <1>1, <1>2, <1>3
<1>5. q + r <= (k + l) \div n
  BY <1>3, <1>4, DivAtLeast
<1> QED BY <1>5 DEF q, r

\* Numbers with the same quotient and remainder are the same.
LEMMA SameQuotient ==
  ASSUME NEW k \in Nat, NEW l \in Nat, NEW n \in Nat \ {0},
         (k % n) + 1 = (l % n) + 1, (k \div n) + 1 = (l \div n) + 1
  PROVE  k = l
<1>1. k = n * (k \div n) + (k % n) /\ k % n \in Int /\ k \div n \in Int
  BY DivMod
<1>2. l = n * (l \div n) + (l % n) /\ l % n \in Int /\ l \div n \in Int
  BY DivMod
<1>3. k % n = l % n /\ k \div n = l \div n
  BY <1>1, <1>2
<1> QED BY <1>1, <1>2, <1>3

\* A quotient is below every bound that the dividend is below n times.
LEMMA DivBelow ==
  ASSUME NEW k \in Nat, NEW n \in Nat \ {0}, NEW b \in Nat, k < n * b
  PROVE  k \div n < b
<1> DEFINE q == k \div n
<1>1. q \in Nat /\ n * q <= k
  BY DivMod
<1> HIDE DEF q
<1>2. SUFFICES ASSUME b <= q PROVE FALSE
  BY <1>1
<1>3. b * n <= q * n
  BY <1>1, <1>2, ProductMonotone
<1>4. b * n = n * b /\ q * n = n * q /\ n * b \in Nat /\ n * q \in Nat
  BY <1>1
<1> QED BY <1>1, <1>3, <1>4

\* Numbering the cells of a grid with rows of m cells gives each its own number.
LEMMA GridIndex ==
  ASSUME NEW m \in Nat, NEW i \in Nat, NEW h \in Nat,
         NEW j \in 0 .. (m - 1), NEW l \in 0 .. (m - 1),
         i * m + j = h * m + l
  PROVE  i = h /\ j = l
<1>1. ASSUME NEW a \in Nat, NEW b \in Nat, NEW c \in 0 .. (m - 1), NEW d \in 0 .. (m - 1),
             a < b, a * m + c = b * m + d
      PROVE  FALSE
  <2>1. (a + 1) * m <= b * m
    BY <1>1, ProductMonotone
  <2>2. (a + 1) * m = a * m + m /\ a * m \in Nat /\ b * m \in Nat
    OBVIOUS
  <2> QED BY <1>1, <2>1, <2>2
<1>2. i = h
  BY <1>1
<1> QED BY <1>2

\* The number of a cell in the first b rows of m cells is below b * m.
LEMMA GridBelow ==
  ASSUME NEW m \in Nat, NEW i \in Nat, NEW b \in Nat, NEW j \in 0 .. (m - 1), i < b
  PROVE  i * m + j < b * m
<1>1. (i + 1) * m <= b * m
  BY ProductMonotone
<1>2. (i + 1) * m = i * m + m /\ i * m \in Nat /\ b * m \in Nat
  OBVIOUS
<1> QED BY <1>1, <1>2

\* If each account's amount in f is at most n/m of its amount in g, so is the
\* total: the m * Total(f) pairs <<j, unit of f>> are mapped one to one into
\* the n * Total(g) pairs <<j, unit of g>>, account by account.
LEMMA TotalScale ==
  ASSUME NEW S, IsFiniteSet(S), NEW f \in [S -> Nat], NEW g \in [S -> Nat],
         NEW m \in Nat, NEW n \in Nat \ {0},
         \A a \in S : m * f[a] <= n * g[a]
  PROVE  m * Total(f) <= n * Total(g)
<1> DEFINE From == (1 .. m) \X Units(f)
           To == (1 .. n) \X Units(g)
           cell(i, j) == (i - 1) * m + (j - 1)
           put == [x \in From |->
                     <<(cell(x[2][2], x[1]) % n) + 1,
                       <<x[2][1], (cell(x[2][2], x[1]) \div n) + 1>>>>]
<1>1. \A x \in From : \E a \in S, i \in Nat, j \in 1 .. m :
        x = <<j, <<a, i>>>> /\ i \in 1 .. f[a]
  BY UnitsMember
<1>2. ASSUME NEW a \in S, NEW i \in 1 .. f[a], NEW j \in 1 .. m
      PROVE  /\ cell(i, j) \in Nat
             /\ cell(i, j) < n * g[a]
             /\ cell(i, j) % n \in 0 .. (n - 1)
             /\ cell(i, j) \div n \in Nat
             /\ cell(i, j) \div n < g[a]
             /\ cell(i, j) = n * (cell(i, j) \div n) + (cell(i, j) % n)
  <2>1. f[a] \in Nat /\ g[a] \in Nat /\ i - 1 \in Nat /\ i - 1 < f[a] /\ j - 1 \in 0 .. (m - 1)
    OBVIOUS
  <2>2. cell(i, j) \in Nat
    BY <2>1
  <2>3. cell(i, j) < f[a] * m
    BY <2>1, GridBelow
  <2>4. f[a] * m = m * f[a] /\ m * f[a] \in Nat /\ n * g[a] \in Nat
    BY <2>1
  <2>5. cell(i, j) < n * g[a]
    BY <2>2, <2>3, <2>4
  <2> HIDE DEF cell
  <2> QED BY <2>1, <2>2, <2>5, DivMod, DivBelow
<1>3. \A x \in From : put[x] \in To
  <2> SUFFICES ASSUME NEW x \in From PROVE put[x] \in To
    OBVIOUS
  <2>1. PICK a \in S, i \in Nat, j \in 1 .. m : x = <<j, <<a, i>>>> /\ i \in 1 .. f[a]
    BY <1>1
  <2>2. put[x] = <<(cell(i, j) % n) + 1, <<a, (cell(i, j) \div n) + 1>>>>
    BY <2>1
  <2> HIDE DEF put, cell
  <2>3. g[a] \in Nat
    OBVIOUS
  <2>4. (cell(i, j) % n) + 1 \in 1 .. n /\ (cell(i, j) \div n) + 1 \in 1 .. g[a]
    BY <1>2, <2>1, <2>3
  <2>5. <<a, (cell(i, j) \div n) + 1>> \in Units(g)
    BY <2>4, UnitsMember
  <2> QED BY <2>2, <2>4, <2>5
<1>4. ASSUME NEW x \in From, NEW y \in From, put[x] = put[y]
      PROVE  x = y
  <2>1. PICK a \in S, i \in Nat, j \in 1 .. m : x = <<j, <<a, i>>>> /\ i \in 1 .. f[a]
    BY <1>1
  <2>2. PICK b \in S, h \in Nat, l \in 1 .. m : y = <<l, <<b, h>>>> /\ h \in 1 .. f[b]
    BY <1>1
  <2>3. /\ put[x] = <<(cell(i, j) % n) + 1, <<a, (cell(i, j) \div n) + 1>>>>
        /\ put[y] = <<(cell(h, l) % n) + 1, <<b, (cell(h, l) \div n) + 1>>>>
    BY <2>1, <2>2
  <2>4. /\ a = b
        /\ (cell(i, j) % n) + 1 = (cell(h, l) % n) + 1
        /\ (cell(i, j) \div n) + 1 = (cell(h, l) \div n) + 1
    BY <1>4, <2>3
  <2> HIDE DEF put, cell
  <2>5. cell(i, j) = cell(h, l)
    <3>1. cell(i, j) \in Nat
      BY <1>2, <2>1
    <3>2. cell(h, l) \in Nat
      BY <1>2, <2>2
    <3> QED BY <2>4, <3>1, <3>2, SameQuotient
  <2>6. i - 1 \in Nat /\ h - 1 \in Nat /\ j - 1 \in 0 .. (m - 1) /\ l - 1 \in 0 .. (m - 1)
    BY <2>1, <2>2
  <2>7. i - 1 = h - 1 /\ j - 1 = l - 1
    BY <2>5, <2>6, GridIndex DEF cell
  <2> QED BY <2>1, <2>2, <2>4, <2>7
<1>5. put \in Injection(From, To)
  <2>1. put \in [From -> To]
    BY <1>3
  <2> HIDE DEF put
  <2> QED BY <1>4, <2>1 DEF Injection, IsInjective
<1>6. /\ IsFiniteSet(From) /\ Cardinality(From) = m * Total(f)
      /\ IsFiniteSet(To) /\ Cardinality(To) = n * Total(g)
  <2>1. /\ IsFiniteSet(1 .. m) /\ Cardinality(1 .. m) = m
        /\ IsFiniteSet(1 .. n) /\ Cardinality(1 .. n) = n
    <3>1. 1 \in Int /\ m \in Int /\ n \in Int
      OBVIOUS
    <3> QED BY <3>1, FS_Interval
  <2>2. IsFiniteSet(Units(f)) /\ IsFiniteSet(Units(g))
    BY TotalNat
  <2> QED BY <2>1, <2>2, FS_Product DEF Total
<1> HIDE DEF From, To, put
<1>7. Cardinality(From) <= Cardinality(To)
  BY <1>5, <1>6, FS_Injection
<1> QED BY <1>6, <1>7

\* A finite set of numbers that is not empty has a largest element: the sets
\* of its elements from i on are finite, and the smallest of them is a singleton.
LEMMA LargestElement ==
  ASSUME NEW R, R \subseteq Nat, IsFiniteSet(R), R # {}
  PROVE  \E i \in R : \A j \in R : j <= i
<1> DEFINE up(i) == {j \in R : i <= j}
           Ups == {up(i) : i \in R}
<1>1. \A i \in R : up(i) \in FiniteSubsetsOf(R)
  <2> SUFFICES ASSUME NEW i \in R PROVE up(i) \in FiniteSubsetsOf(R)
    OBVIOUS
  <2>1. up(i) \in SUBSET R
    OBVIOUS
  <2>2. IsFiniteSet(up(i))
    BY <2>1, FS_Subset
  <2> QED BY <2>1, <2>2 DEF FiniteSubsetsOf
<1>2. Ups \subseteq FiniteSubsetsOf(R) /\ Ups # {}
  BY <1>1
<1>3. IsWellFoundedOn(StrictSubsetOrdering(R), FiniteSubsetsOf(R))
  BY FS_StrictSubsetOrderingWellFounded
<1>4. \E x \in Ups : \A y \in Ups : ~(<<y, x>> \in StrictSubsetOrdering(R))
  BY <1>2, <1>3, WFMin
<1>5. PICK i \in R : \A y \in Ups : ~(<<y, up(i)>> \in StrictSubsetOrdering(R))
  BY <1>4
<1>6. ASSUME NEW j \in R, ~(j <= i) PROVE FALSE
  <2>1. i < j /\ i \in Nat /\ j \in Nat
    BY <1>6
  <2>2. up(j) \subseteq up(i) /\ i \in up(i) /\ i \notin up(j)
    <3>1. ASSUME NEW k \in R, j <= k PROVE i <= k
      <4>1. k \in Nat
        OBVIOUS
      <4> QED BY <2>1, <3>1, <4>1
    <3>2. i <= i /\ ~(j <= i)
      BY <2>1
    <3> QED BY <3>1, <3>2, Zenon
  <2>3. <<up(j), up(i)>> \in StrictSubsetOrdering(R)
    BY <2>2 DEF StrictSubsetOrdering
  <2> QED BY <1>5, <2>3
<1> QED BY <1>6

=============================================================================
