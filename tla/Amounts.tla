------------------------------ MODULE Amounts ------------------------------
(***************************************************************************)
(* Sums of token amounts.  An asset amount is a natural number of          *)
(* indivisible units (10^-4 LED or LEM), so the sum of a function from     *)
(* accounts to amounts is the number of units the accounts hold together.  *)
(* Counting units, rather than folding over the accounts, lets the proof   *)
(* modules reason about sums with the theorems on cardinalities.           *)
(***************************************************************************)
EXTENDS Integers, FiniteSets

\* The units of f: the i-th unit of account a, for 1 <= i <= f[a].
Units(f) == UNION {{a} \X (1 .. f[a]) : a \in DOMAIN f}

\* The sum of f[a] over the accounts a.
Total(f) == Cardinality(Units(f))

=============================================================================
