-------------------------- MODULE ChipCount_proofs --------------------------
(***************************************************************************)
(* The chips of PokerTable are counted, for every number of seats, blinds, *)
(* stacks and rankings: what a hand puts in its pots is paid out again if  *)
(* some player left in it covers them; and some player does, unless the    *)
(* big blind was posted short of the small one, or a player has named less *)
(* than the call in an all-in without shoving all his chips.               *)
(*                                                                         *)
(* A total is the number of a set of chips, so it is added up by taking    *)
(* sets apart and never by counting through the seats.                     *)
(*                                                                         *)
(* PokerTable implements TableView, the table as its match sees it, also   *)
(* when players are lost: a table with its chips is found only in states   *)
(* from which every operation is one of the view's.  What a settlement     *)
(* leaves (somebody always has chips) is counted as above.                 *)
(***************************************************************************)
EXTENDS PokerTable_proofs

-----------------------------------------------------------------------------
(* Totals.                                                                  *)

\* The chips of the stacks f, one by one.
Piles(f) == {p \in (DOMAIN f) \X Nat : p[2] \in 1 .. f[p[1]]}

\* What A gives for each element of D, marked with the element.
Marked(D, A) == UNION {{x} \X A[x] : x \in D}

\* Total counts these chips.
LEMMA TotalCounts ==
    ASSUME NEW D, IsFiniteSet(D), NEW f \in [D -> Nat]
    PROVE  Total(f) = Cardinality(Piles(f)) /\ IsFiniteSet(Piles(f))
<1> DEFINE pile == [x \in D |-> {x} \X (1 .. f[x])]
           Sets == {pile[x] : x \in D}
<1>1. \A x \in D : IsFiniteSet(pile[x])
  <2> SUFFICES ASSUME NEW x \in D PROVE IsFiniteSet({x} \X (1 .. f[x]))
    OBVIOUS
  <2>1. IsFiniteSet({x}) BY FS_Singleton
  <2>2. IsFiniteSet(1 .. f[x]) BY FS_Interval
  <2> QED BY <2>1, <2>2, FS_Product
<1>2. pile \in Surjection(D, Sets) BY DEF Surjection
<1>3. IsFiniteSet(Sets)
  <2> HIDE DEF pile, Sets
  <2> QED BY <1>2, FS_Surjection
<1>4. IsFiniteSet(UNION Sets)
  <2>1. \A P \in Sets : IsFiniteSet(P) BY <1>1
  <2> HIDE DEF pile, Sets
  <2> QED BY <2>1, <1>3, FS_UNION
<1>5. UNION Sets = UNION {{x} \X (1 .. f[x]) : x \in DOMAIN f} OBVIOUS
<1>6. UNION Sets = Piles(f)
  <2>1. ASSUME NEW p \in UNION Sets PROVE p \in Piles(f)
    <3>1. PICK x \in D : p \in {x} \X (1 .. f[x]) OBVIOUS
    <3> QED BY <3>1 DEF Piles
  <2>2. ASSUME NEW p \in Piles(f) PROVE p \in UNION Sets
    <3>1. p[1] \in D /\ p = <<p[1], p[2]>> /\ p[2] \in 1 .. f[p[1]] BY DEF Piles
    <3>2. p \in {p[1]} \X (1 .. f[p[1]]) BY <3>1
    <3>3. p \in pile[p[1]] /\ pile[p[1]] \in Sets BY <3>1, <3>2
    <3> QED BY <3>3
  <2> QED BY <2>1, <2>2
<1> QED BY <1>4, <1>5, <1>6 DEF Total

\* Stacks of sizes that sets have are as many chips as the sets have elements.
LEMMA TotalOfSizes ==
    ASSUME NEW D, IsFiniteSet(D), NEW f \in [D -> Nat], NEW A,
           \A x \in D : IsFiniteSet(A[x]) /\ f[x] = Cardinality(A[x])
    PROVE  Total(f) = Cardinality(Marked(D, A)) /\ IsFiniteSet(Marked(D, A))
<1> DEFINE count == [x \in D |-> CHOOSE b : b \in Bijection(1 .. f[x], A[x])]
           g == [p \in Piles(f) |-> <<p[1], count[p[1]][p[2]]>>]
<1>1. ASSUME NEW x \in D PROVE count[x] \in Bijection(1 .. f[x], A[x])
  <2>1. ExistsBijection(1 .. Cardinality(A[x]), A[x]) BY FS_CardinalityType
  <2>2. \E b : b \in Bijection(1 .. f[x], A[x]) BY <2>1 DEF ExistsBijection
  <2> QED BY <2>2
<1> HIDE DEF count
<1>2. ASSUME NEW p \in Piles(f)
      PROVE  p[1] \in D /\ p = <<p[1], p[2]>> /\ p[2] \in 1 .. f[p[1]]
  BY DEF Piles
<1>3. g \in [Piles(f) -> Marked(D, A)]
  <2> SUFFICES ASSUME NEW p \in Piles(f) PROVE <<p[1], count[p[1]][p[2]]>> \in Marked(D, A)
    OBVIOUS
  <2>1. count[p[1]][p[2]] \in A[p[1]] BY <1>1, <1>2 DEF Bijection, Injection
  <2> QED BY <1>2, <2>1 DEF Marked
<1>4. g \in Injection(Piles(f), Marked(D, A))
  <2> SUFFICES ASSUME NEW p \in Piles(f), NEW q \in Piles(f), g[p] = g[q] PROVE p = q
    BY <1>3 DEF Injection, IsInjective
  <2>1. p[1] = q[1] /\ count[p[1]][p[2]] = count[p[1]][q[2]] OBVIOUS
  <2>2. count[p[1]] \in Injection(1 .. f[p[1]], A[p[1]]) BY <1>1, <1>2 DEF Bijection
  <2>3. p[2] = q[2] BY <1>2, <2>1, <2>2 DEF Injection, IsInjective
  <2> QED BY <1>2, <2>1, <2>3
<1>5. g \in Surjection(Piles(f), Marked(D, A))
  <2> SUFFICES ASSUME NEW m \in Marked(D, A) PROVE \E p \in Piles(f) : g[p] = m
    BY <1>3 DEF Surjection
  <2>1. PICK x \in D : m \in {x} \X A[x] BY DEF Marked
  <2>2. m = <<x, m[2]>> /\ m[2] \in A[x] BY <2>1
  <2>3. count[x] \in Surjection(1 .. f[x], A[x]) BY <1>1 DEF Bijection
  <2>4. PICK n \in 1 .. f[x] : count[x][n] = m[2] BY <2>2, <2>3 DEF Surjection
  <2>5. <<x, n>> \in Piles(f) BY DEF Piles
  <2>6. g[<<x, n>>] = m BY <2>2, <2>4, <2>5
  <2> QED BY <2>5, <2>6
<1>6. g \in Bijection(Piles(f), Marked(D, A)) BY <1>4, <1>5 DEF Bijection
<1> HIDE DEF g
<1>7. ExistsBijection(Piles(f), Marked(D, A)) BY <1>6 DEF ExistsBijection
<1> QED BY <1>7, TotalCounts, FS_Bijection

\* rows has the totals of the rows of f.
RowTotals(D, E, f, rows) ==
    f \in [D -> [E -> Nat]] /\ rows \in [D -> Nat] /\ \A x \in D : rows[x] = Total(f[x])

Transposed(D, E, f, column) == \A x \in D, y \in E : column[y][x] = f[x][y]

\* A total of totals does not depend on the order.
LEMMA TotalsExchange ==
    ASSUME NEW D, NEW E, IsFiniteSet(D), IsFiniteSet(E),
           NEW f, NEW rows, RowTotals(D, E, f, rows),
           NEW column, NEW columns, RowTotals(E, D, column, columns), Transposed(D, E, f, column)
    PROVE  Total(rows) = Total(columns)
<1> USE DEF RowTotals, Transposed
<1> DEFINE A == [x \in D |-> Piles(f[x])]
           B == [y \in E |-> Piles(column[y])]
           g == [m \in Marked(D, A) |-> <<m[2][1], <<m[1], m[2][2]>>>>]
<1>1. Total(rows) = Cardinality(Marked(D, A)) /\ IsFiniteSet(Marked(D, A))
  <2>1. \A x \in D : IsFiniteSet(A[x]) /\ rows[x] = Cardinality(A[x]) BY TotalCounts
  <2> HIDE DEF A
  <2> QED BY <2>1, TotalOfSizes
<1>2. Total(columns) = Cardinality(Marked(E, B))
  <2>1. \A y \in E : IsFiniteSet(B[y]) /\ columns[y] = Cardinality(B[y]) BY TotalCounts
  <2> HIDE DEF B
  <2> QED BY <2>1, TotalOfSizes
<1>3. ASSUME NEW m
      PROVE  m \in Marked(D, A) <=>
               \E x \in D, y \in E, n \in Nat : m = <<x, <<y, n>>>> /\ n \in 1 .. f[x][y]
  <2>1. ASSUME m \in Marked(D, A)
        PROVE  \E x \in D, y \in E, n \in Nat : m = <<x, <<y, n>>>> /\ n \in 1 .. f[x][y]
    <3>1. PICK x \in D : m \in {x} \X Piles(f[x]) BY <2>1 DEF Marked
    <3>2. PICK p \in Piles(f[x]) : m = <<x, p>> BY <3>1
    <3>3. p \in E \X Nat /\ p[2] \in 1 .. f[x][p[1]] BY <3>2 DEF Piles
    <3>4. p = <<p[1], p[2]>> /\ p[1] \in E /\ p[2] \in Nat BY <3>3
    <3> QED BY <3>2, <3>3, <3>4
  <2>2. ASSUME NEW x \in D, NEW y \in E, NEW n \in Nat, m = <<x, <<y, n>>>>, n \in 1 .. f[x][y]
        PROVE  m \in Marked(D, A)
    <3>1. <<y, n>> \in A[x] BY <2>2 DEF Piles
    <3> HIDE DEF A
    <3>2. m \in {x} \X A[x] BY <2>2, <3>1
    <3> QED BY <3>2 DEF Marked
  <2> QED BY <2>1, <2>2
<1>4. ASSUME NEW m
      PROVE  m \in Marked(E, B) <=>
               \E x \in D, y \in E, n \in Nat : m = <<y, <<x, n>>>> /\ n \in 1 .. f[x][y]
  <2>1. ASSUME m \in Marked(E, B)
        PROVE  \E x \in D, y \in E, n \in Nat : m = <<y, <<x, n>>>> /\ n \in 1 .. f[x][y]
    <3>1. PICK y \in E : m \in {y} \X Piles(column[y]) BY <2>1 DEF Marked
    <3>2. PICK p \in Piles(column[y]) : m = <<y, p>> BY <3>1
    <3>3. p \in D \X Nat /\ p[2] \in 1 .. column[y][p[1]] BY <3>2 DEF Piles
    <3>4. p = <<p[1], p[2]>> /\ p[1] \in D /\ p[2] \in Nat BY <3>3
    <3> QED BY <3>2, <3>3, <3>4
  <2>2. ASSUME NEW x \in D, NEW y \in E, NEW n \in Nat, m = <<y, <<x, n>>>>, n \in 1 .. f[x][y]
        PROVE  m \in Marked(E, B)
    <3>1. <<x, n>> \in B[y] BY <2>2 DEF Piles
    <3> HIDE DEF B
    <3>2. m \in {y} \X B[y] BY <2>2, <3>1
    <3> QED BY <3>2 DEF Marked
  <2> QED BY <2>1, <2>2
<1> DEFINE S == Marked(D, A)
           T == Marked(E, B)
<1>5. g \in [S -> T]
  <2> SUFFICES ASSUME NEW m \in S PROVE <<m[2][1], <<m[1], m[2][2]>>>> \in T OBVIOUS
  <2>1. PICK x \in D, y \in E, n \in Nat : m = <<x, <<y, n>>>> /\ n \in 1 .. f[x][y] BY <1>3
  <2> HIDE DEF A, B
  <2> QED BY <1>4, <2>1
<1>6. g \in Injection(S, T)
  <2> SUFFICES ASSUME NEW m \in S, NEW k \in S, g[m] = g[k] PROVE m = k
    BY <1>5 DEF Injection, IsInjective
  <2>1. PICK x \in D, y \in E, n \in Nat : m = <<x, <<y, n>>>> /\ n \in 1 .. f[x][y] BY <1>3
  <2>2. PICK x2 \in D, y2 \in E, n2 \in Nat :
              k = <<x2, <<y2, n2>>>> /\ n2 \in 1 .. f[x2][y2]
    BY <1>3
  <2>3. g[m] = <<y, <<x, n>>>> /\ g[k] = <<y2, <<x2, n2>>>> BY <2>1, <2>2
  <2> HIDE DEF g
  <2>4. <<y, <<x, n>>>> = <<y2, <<x2, n2>>>> BY <2>3
  <2>5. y = y2 /\ <<x, n>> = <<x2, n2>> BY <2>4
  <2>6. x = x2 /\ n = n2 BY <2>5
  <2> QED BY <2>1, <2>2, <2>5, <2>6
<1>7. g \in Surjection(S, T)
  <2> SUFFICES ASSUME NEW k \in T PROVE \E m \in S : g[m] = k
    BY <1>5 DEF Surjection
  <2>1. PICK x \in D, y \in E, n \in Nat : k = <<y, <<x, n>>>> /\ n \in 1 .. f[x][y] BY <1>4
  <2>2. <<x, <<y, n>>>> \in S BY <1>3, <2>1
  <2>3. g[<<x, <<y, n>>>>] = k BY <2>1, <2>2
  <2> QED BY <2>2, <2>3
<1>8. ExistsBijection(S, T)
  <2> HIDE DEF g, S, T
  <2> QED BY <1>6, <1>7 DEF ExistsBijection, Bijection
<1>9. Cardinality(S) = Cardinality(T)
  <2> HIDE DEF A, B, g
  <2> QED BY <1>1, <1>8, FS_Bijection
<1> QED
  <2> HIDE DEF A, B, g
  <2> QED BY <1>1, <1>2, <1>9

\* Stacks that are put on top of one another.
LEMMA TotalsAdd ==
    ASSUME NEW D, IsFiniteSet(D), NEW f \in [D -> Nat], NEW g \in [D -> Nat]
    PROVE  Total([x \in D |-> f[x] + g[x]]) = Total(f) + Total(g)
<1> DEFINE sum == [x \in D |-> f[x] + g[x]]
           lift == [p \in Piles(g) |-> <<p[1], f[p[1]] + p[2]>>]
           Top == Piles(sum) \ Piles(f)
<1>1. sum \in [D -> Nat] /\ \A x \in D : sum[x] = f[x] + g[x] OBVIOUS
<1> HIDE DEF sum
<1>2. /\ Total(sum) = Cardinality(Piles(sum)) /\ IsFiniteSet(Piles(sum))
      /\ Total(f) = Cardinality(Piles(f)) /\ IsFiniteSet(Piles(f))
      /\ Total(g) = Cardinality(Piles(g)) /\ IsFiniteSet(Piles(g))
  BY <1>1, TotalCounts
<1>3. \A x \in D : f[x] \in Nat /\ g[x] \in Nat OBVIOUS
<1>4. Piles(f) \subseteq Piles(sum)
  <2> SUFFICES ASSUME NEW p \in Piles(f) PROVE p \in Piles(sum) OBVIOUS
  <2>1. p \in D \X Nat /\ p[2] \in 1 .. f[p[1]] BY DEF Piles
  <2>2. p[1] \in D /\ p[2] \in Nat BY <2>1
  <2>3. p[2] \in 1 .. sum[p[1]] BY <1>1, <1>3, <2>1, <2>2
  <2>4. DOMAIN sum = D BY <1>1
  <2> QED BY <2>1, <2>3, <2>4 DEF Piles
<1>5. ASSUME NEW p
      PROVE  p \in Top <=> /\ p \in D \X Nat
                           /\ f[p[1]] < p[2] /\ p[2] <= f[p[1]] + g[p[1]]
  <2>1. DOMAIN sum = D BY <1>1
  <2>2. p \in D \X Nat => p[1] \in D /\ p[2] \in Nat OBVIOUS
  <2>3. p \in Top <=> p \in D \X Nat /\ p[2] \in 1 .. sum[p[1]] /\ ~(p[2] \in 1 .. f[p[1]])
    BY <2>1 DEF Piles
  <2> QED BY <1>1, <1>3, <2>2, <2>3
<1>6. ASSUME NEW p \in Piles(g)
      PROVE  p \in D \X Nat /\ p = <<p[1], p[2]>> /\ p[1] \in D /\ p[2] \in 1 .. g[p[1]]
  BY DEF Piles
<1>7. lift \in [Piles(g) -> Top]
  <2> SUFFICES ASSUME NEW p \in Piles(g) PROVE <<p[1], f[p[1]] + p[2]>> \in Top OBVIOUS
  <2> DEFINE q == <<p[1], f[p[1]] + p[2]>>
  <2>1. p[1] \in D /\ p[2] \in Nat /\ 1 <= p[2] /\ p[2] <= g[p[1]] BY <1>3, <1>6
  <2>2. q[1] = p[1] /\ q[2] = f[p[1]] + p[2] /\ q \in D \X Nat BY <1>3, <2>1
  <2>3. f[p[1]] < f[p[1]] + p[2] /\ f[p[1]] + p[2] <= f[p[1]] + g[p[1]] BY <1>3, <2>1
  <2> HIDE DEF q
  <2> QED BY <1>5, <2>2, <2>3 DEF q
<1>8. lift \in Injection(Piles(g), Top)
  <2> SUFFICES ASSUME NEW p \in Piles(g), NEW q \in Piles(g), lift[p] = lift[q] PROVE p = q
    BY <1>7 DEF Injection, IsInjective
  <2>1. p[1] = q[1] /\ f[p[1]] + p[2] = f[q[1]] + q[2] OBVIOUS
  <2>2. p[1] \in D /\ p[2] \in Nat /\ q[2] \in Nat BY <1>3, <1>6
  <2>3. p[2] = q[2] BY <1>3, <2>1, <2>2
  <2> QED BY <1>6, <2>1, <2>3
<1>9. lift \in Surjection(Piles(g), Top)
  <2> SUFFICES ASSUME NEW q \in Top PROVE \E p \in Piles(g) : lift[p] = q
    BY <1>7 DEF Surjection
  <2>1. q \in D \X Nat /\ f[q[1]] < q[2] /\ q[2] <= f[q[1]] + g[q[1]] BY <1>5
  <2>2. q = <<q[1], q[2]>> /\ q[1] \in D /\ q[2] \in Nat BY <2>1
  <2> DEFINE n == q[2] - f[q[1]]
  <2>3. n \in Nat /\ n \in 1 .. g[q[1]] /\ f[q[1]] + n = q[2] BY <1>3, <2>1, <2>2
  <2> HIDE DEF n
  <2>4. <<q[1], n>> \in Piles(g) BY <2>2, <2>3 DEF Piles
  <2>5. lift[<<q[1], n>>] = q BY <2>2, <2>3, <2>4
  <2> QED BY <2>4, <2>5
<1>10. ExistsBijection(Piles(g), Top)
  <2> HIDE DEF lift, Top
  <2> QED BY <1>8, <1>9 DEF ExistsBijection, Bijection
<1>11. Cardinality(Top) = Cardinality(Piles(g))
  <2> HIDE DEF Top
  <2> QED BY <1>2, <1>10, FS_Bijection
<1>12. Piles(sum) \cap Piles(f) = Piles(f) BY <1>4
<1>13. Cardinality(Top) = Cardinality(Piles(sum)) - Cardinality(Piles(f))
  BY <1>2, <1>12, FS_Difference
<1>14. Total(sum) \in Nat /\ Total(f) \in Nat /\ Total(g) \in Nat BY <1>1, TotalType
<1> HIDE DEF Top
<1> QED BY <1>2, <1>11, <1>13, <1>14 DEF sum

\* Larger stacks have more chips.
LEMMA TotalsGrow ==
    ASSUME NEW D, IsFiniteSet(D), NEW f \in [D -> Nat], NEW g \in [D -> Nat],
           \A x \in D : f[x] <= g[x]
    PROVE  Total(f) <= Total(g)
<1>1. Piles(f) \subseteq Piles(g)
  <2> SUFFICES ASSUME NEW p \in Piles(f) PROVE p \in Piles(g) OBVIOUS
  <2>1. p \in D \X Nat /\ p[2] \in 1 .. f[p[1]] BY DEF Piles
  <2>2. p[1] \in D /\ p[2] \in Nat /\ f[p[1]] \in Nat /\ g[p[1]] \in Nat BY <2>1
  <2>3. p[2] \in 1 .. g[p[1]] BY <2>1, <2>2
  <2> QED BY <2>1, <2>3 DEF Piles
<1> QED BY <1>1, TotalCounts, FS_Subset

\* As many chips for each of some, and none for the others.
LEMMA TotalOfShares ==
    ASSUME NEW D, IsFiniteSet(D), NEW W \in SUBSET D, NEW n \in Nat
    PROVE  Total([x \in D |-> IF x \in W THEN n ELSE 0]) = Cardinality(W) * n
<1> DEFINE f == [x \in D |-> IF x \in W THEN n ELSE 0]
<1>1. f \in [D -> Nat] OBVIOUS
<1>2. ASSUME NEW p PROVE p \in Piles(f) <=> p \in W \X (1 .. n)
  <2>1. p \in Piles(f) <=> p \in D \X Nat /\ p[2] \in 1 .. f[p[1]] BY DEF Piles
  <2>2. p \in D \X Nat => p = <<p[1], p[2]>> /\ p[1] \in D /\ p[2] \in Nat OBVIOUS
  <2>3. p[1] \in D => f[p[1]] = IF p[1] \in W THEN n ELSE 0 OBVIOUS
  <2> HIDE DEF f
  <2>4. p \in D \X Nat /\ p[2] \in 1 .. f[p[1]] => p[1] \in W /\ p[2] \in 1 .. n BY <2>2, <2>3
  <2>5. p \in W \X (1 .. n) => p \in D \X Nat /\ p[1] \in W /\ p[2] \in 1 .. n OBVIOUS
  <2>6. p \in W \X (1 .. n) => p[2] \in 1 .. f[p[1]] BY <2>3, <2>5
  <2>7. p \in D \X Nat /\ p[1] \in W /\ p[2] \in 1 .. n => p \in W \X (1 .. n) BY <2>2
  <2> QED BY <2>1, <2>4, <2>5, <2>6, <2>7
<1>3. Piles(f) = W \X (1 .. n) BY <1>2
<1>4. IsFiniteSet(W) BY FS_Subset
<1>5. IsFiniteSet(1 .. n) /\ Cardinality(1 .. n) = n BY FS_Interval
<1>6. Cardinality(W \X (1 .. n)) = Cardinality(W) * n BY <1>4, <1>5, FS_Product
<1> HIDE DEF f
<1>7. Total(f) = Cardinality(W) * n BY <1>1, <1>3, <1>6, TotalCounts
<1> QED BY <1>7 DEF f

\* One stack.
LEMMA TotalOfOne ==
    ASSUME NEW D, IsFiniteSet(D), NEW a \in D, NEW n \in Nat
    PROVE  Total([x \in D |-> IF x = a THEN n ELSE 0]) = n
<1>1. [x \in D |-> IF x = a THEN n ELSE 0] = [x \in D |-> IF x \in {a} THEN n ELSE 0] OBVIOUS
<1>2. Cardinality({a}) = 1 BY FS_Singleton
<1>3. Total([x \in D |-> IF x \in {a} THEN n ELSE 0]) = 1 * n BY <1>2, TotalOfShares
<1> QED BY <1>1, <1>3

\* Chips put where there were none.
LEMMA TotalWithNew ==
    ASSUME NEW D, IsFiniteSet(D), NEW f \in [D -> Nat], NEW g \in [D -> Nat], NEW a \in D,
           f[a] = 0, \A x \in D \ {a} : g[x] = f[x]
    PROVE  Total(g) = Total(f) + g[a]
<1> DEFINE one == [x \in D |-> IF x = a THEN g[a] ELSE 0]
<1>1. one \in [D -> Nat] /\ Total(one) = g[a] BY TotalOfOne
<1>2. g = [x \in D |-> f[x] + one[x]]
  <2>1. \A x \in D : g[x] = f[x] + one[x] OBVIOUS
  <2> HIDE DEF one
  <2> QED BY <2>1
<1> HIDE DEF one
<1>3. Total([x \in D |-> f[x] + one[x]]) = Total(f) + Total(one) BY <1>1, TotalsAdd
<1> QED BY <1>1, <1>2, <1>3

-----------------------------------------------------------------------------
(* What the settlement pays.                                                *)

\* The levels of the pots are finitely many numbers.
LEMMA LevelsType ==
    ASSUME NEW h \in HandType
    PROVE  IsFiniteSet(Levels(h)) /\ Levels(h) \in SUBSET (Nat \ {0})
<1> DEFINE R == {h.committed[r] : r \in Seats}
<1>1. h.committed \in [Seats -> Nat] BY DEF HandType
<1>2. h.committed \in Surjection(Seats, R) BY <1>1 DEF Surjection
<1>3. IsFiniteSet(R)
  <2> HIDE DEF R
  <2> QED BY <1>2, SeatsFinite, FS_Surjection
<1>4. Levels(h) \in SUBSET R BY DEF Levels
<1>5. Levels(h) \in SUBSET (Nat \ {0}) BY <1>1 DEF Levels
<1> HIDE DEF R
<1> QED BY <1>3, <1>4, <1>5, FS_Subset

\* The chips of a pot, and who paid them.
LEMMA PotChipsType ==
    ASSUME NEW h \in HandType, NEW l \in Nat
    PROVE  /\ IsFiniteSet(PotChips(h, l)) /\ Cardinality(PotChips(h, l)) \in Nat
           /\ \A c : c \in PotChips(h, l) <=>
                 /\ c \in Seats \X (Nat \ {0}) /\ c = <<c[1], c[2]>>
                 /\ c[2] <= l /\ l <= h.committed[c[1]]
                 /\ \A m \in Levels(h) : m < l => m < c[2]
<1>1. IsFiniteSet(PaidInto(h, l)) BY SeatsFinite, FS_Subset DEF PaidInto
<1>2. IsFiniteSet(1 .. l) BY FS_Interval
<1>3. IsFiniteSet(PaidInto(h, l) \X (1 .. l)) BY <1>1, <1>2, FS_Product
<1>4. PotChips(h, l) \in SUBSET (PaidInto(h, l) \X (1 .. l)) BY DEF PotChips
<1>5. IsFiniteSet(PotChips(h, l)) BY <1>3, <1>4, FS_Subset
<1>6. ASSUME NEW c
      PROVE  c \in PotChips(h, l) <=>
                 /\ c \in Seats \X (Nat \ {0}) /\ c = <<c[1], c[2]>>
                 /\ c[2] <= l /\ l <= h.committed[c[1]]
                 /\ \A m \in Levels(h) : m < l => m < c[2]
  <2>1. c \in PaidInto(h, l) \X (1 .. l) <=>
           /\ c \in Seats \X (Nat \ {0}) /\ c = <<c[1], c[2]>>
           /\ c[2] <= l /\ l <= h.committed[c[1]]
    <3>1. h.committed \in [Seats -> Nat] BY DEF HandType
    <3>2. ASSUME c \in PaidInto(h, l) \X (1 .. l)
          PROVE  /\ c \in Seats \X (Nat \ {0}) /\ c = <<c[1], c[2]>>
                 /\ c[2] <= l /\ l <= h.committed[c[1]]
      <4>1. c = <<c[1], c[2]>> /\ c[1] \in PaidInto(h, l) /\ c[2] \in 1 .. l BY <3>2
      <4>2. c[1] \in Seats /\ l <= h.committed[c[1]] BY <3>1, <4>1 DEF PaidInto
      <4> QED BY <4>1, <4>2
    <3>3. ASSUME c \in Seats \X (Nat \ {0}), c[2] <= l, l <= h.committed[c[1]]
          PROVE  c \in PaidInto(h, l) \X (1 .. l)
      <4>1. c = <<c[1], c[2]>> /\ c[1] \in Seats /\ c[2] \in 1 .. l BY <3>3
      <4>2. c[1] \in PaidInto(h, l) BY <3>1, <3>3, <4>1 DEF PaidInto
      <4> QED BY <4>1, <4>2
    <3> QED BY <3>2, <3>3
  <2> QED BY <2>1 DEF PotChips
<1> QED BY <1>5, <1>6, FS_CardinalityType

\* Somebody wins a pot that a player who is still in has paid into.
LEMMA PotsAreWon ==
    ASSUME NEW h \in HandType, NEW rank \in Ranks, NEW l \in Nat, Eligible(h, l) # {}
    PROVE  PotWinners(h, rank, l) # {}
<1> DEFINE Bounds == {n \in Nat : \A s \in Eligible(h, l) : rank[s] <= n}
<1>1. rank \in [Seats -> Nat] BY StrengthsAssumption DEF Ranks
<1>2. Eligible(h, l) \in SUBSET Seats BY DEF Eligible, PaidInto
<1>3. Total(rank) \in Bounds
  <2>1. Total(rank) \in Nat BY <1>1, SeatsFinite, TotalType
  <2>2. ASSUME NEW s \in Seats PROVE rank[s] <= Total(rank)
    <3> DEFINE one == [r \in Seats |-> IF r = s THEN rank[s] ELSE 0]
    <3>1. rank[s] \in Nat BY <1>1
    <3>2. Total(one) = rank[s] BY <3>1, SeatsFinite, TotalOfOne
    <3>3. one \in [Seats -> Nat] /\ \A r \in Seats : one[r] <= rank[r] BY <1>1
    <3> HIDE DEF one
    <3> QED BY <1>1, <3>2, <3>3, SeatsFinite, TotalsGrow
  <2> QED BY <1>2, <2>1, <2>2
<1>4. PICK n \in Bounds : \A m \in Bounds : n <= m
  <2>1. Bounds \in SUBSET Nat /\ Bounds # {} BY <1>3
  <2> HIDE DEF Bounds
  <2> QED BY <2>1, LeastNatural
<1>5. \E s \in Eligible(h, l) : rank[s] >= n
  <2> SUFFICES ASSUME \A s \in Eligible(h, l) : ~(rank[s] >= n) PROVE FALSE OBVIOUS
  <2>1. PICK r \in Eligible(h, l) : TRUE OBVIOUS
  <2>2. n \in Nat /\ rank[r] \in Nat /\ rank[r] < n BY <1>1, <1>2, <2>1
  <2>3. n - 1 \in Nat BY <2>2
  <2>4. \A s \in Eligible(h, l) : rank[s] \in Nat /\ rank[s] <= n - 1 BY <1>1, <1>2, <2>2
  <2>5. n - 1 \in Bounds BY <2>3, <2>4
  <2>6. ~(n <= n - 1) BY <2>2
  <2> QED BY <1>4, <2>5, <2>6
<1>6. PICK s \in Eligible(h, l) : rank[s] >= n BY <1>5
<1>7. \A r \in Eligible(h, l) : rank[r] <= rank[s]
  <2>1. \A r \in Eligible(h, l) : rank[r] \in Nat /\ rank[r] <= n BY <1>1, <1>2, <1>4
  <2>2. n \in Nat /\ rank[s] \in Nat BY <1>1, <1>2, <1>6
  <2> QED BY <1>6, <2>1, <2>2
<1> QED BY <1>6, <1>7 DEF PotWinners

\* Division leaves a remainder.
LEMMA Division ==
    ASSUME NEW a \in Nat, NEW n \in Nat \ {0}
    PROVE  /\ a \div n \in Nat /\ a % n \in Nat
           /\ n * (a \div n) + (a % n) = a
           /\ (a \div n) + (a % n) <= a
<1> DEFINE q == a \div n
           r == a % n
<1>1. q \in Nat /\ r \in Nat BY QuotientType
<1>2. n * q + r = a OBVIOUS
<1> HIDE DEF q, r
<1>3. q <= n * q
  <2>1. (n - 1) \in Nat /\ (n - 1) * q \in Nat BY <1>1
  <2>2. n * q = (n - 1) * q + q BY <1>1
  <2> QED BY <1>1, <2>1, <2>2
<1>4. n * q \in Nat BY <1>1
<1> QED BY <1>1, <1>2, <1>3, <1>4 DEF q, r

\* A pot that is won is paid out to the last chip (splitPot).
LEMMA PotsArePaidOut ==
    ASSUME NEW h \in HandType, NEW rank \in Ranks, NEW l \in Nat, Eligible(h, l) # {}
    PROVE  Total([s \in Seats |-> PotShare(h, rank, l, s)]) = Cardinality(PotChips(h, l))
<1> DEFINE winners == PotWinners(h, rank, l)
           amount == Cardinality(PotChips(h, l))
           n == Cardinality(winners)
           first == FirstAfter(h.button, winners)
           equal == [s \in Seats |-> IF s \in winners THEN amount \div n ELSE 0]
           odd == [s \in Seats |-> IF s = first THEN amount % n ELSE 0]
<1>1. amount \in Nat BY PotChipsType
<1>2. winners \in SUBSET Seats BY DEF PotWinners, Eligible, PaidInto
<1>3. winners # {} BY PotsAreWon
<1>4. n \in Nat \ {0} BY <1>2, <1>3, SeatsFinite, FS_Subset, FS_CardinalityType, FS_EmptySet
<1>5. first \in winners BY <1>2, <1>3, FirstAfterIsOne DEF HandType
<1>6. \A s \in Seats : PotShare(h, rank, l, s) = equal[s] + odd[s]
  <2> HIDE DEF amount, n, first, winners
  <2>1. amount \div n \in Nat /\ amount % n \in Nat BY <1>1, <1>4, Division
  <2> SUFFICES ASSUME NEW s \in Seats PROVE PotShare(h, rank, l, s) = equal[s] + odd[s] OBVIOUS
  <2>2. CASE s \in winners
    <3>1. PotShare(h, rank, l, s) = (amount \div n) + (IF s = first THEN amount % n ELSE 0)
      BY <2>2 DEF PotShare, amount, n, first, winners
    <3> QED BY <2>2, <3>1
  <2>3. CASE s \notin winners
    <3>1. PotShare(h, rank, l, s) = 0 BY <2>3 DEF PotShare, winners
    <3>2. s # first BY <1>5, <2>3
    <3> QED BY <2>3, <3>1, <3>2
  <2> QED BY <2>2, <2>3
<1> HIDE DEF amount, n, first, winners
<1>7. amount \div n \in Nat /\ amount % n \in Nat /\ n * (amount \div n) + (amount % n) = amount
  BY <1>1, <1>4, Division
<1>8. equal \in [Seats -> Nat] /\ odd \in [Seats -> Nat] BY <1>7
<1>9. Total(equal) = n * (amount \div n) BY <1>2, <1>7, SeatsFinite, TotalOfShares DEF n
<1>10. first \in Seats BY <1>2, <1>5
<1>11. Total(odd) = amount % n BY <1>7, <1>10, SeatsFinite, TotalOfOne
<1>12. [s \in Seats |-> PotShare(h, rank, l, s)] = [s \in Seats |-> equal[s] + odd[s]] BY <1>6
<1> HIDE DEF equal, odd
<1>13. Total([s \in Seats |-> equal[s] + odd[s]]) = Total(equal) + Total(odd)
  BY <1>8, SeatsFinite, TotalsAdd
<1> QED BY <1>7, <1>9, <1>11, <1>12, <1>13 DEF amount

\* Every chip that was put in is in one pot (buildSidePots).
LEMMA PotsHoldAll ==
    ASSUME NEW h \in HandType
    PROVE  Total([l \in Levels(h) |-> Cardinality(PotChips(h, l))]) = Total(h.committed)
<1> DEFINE A == [l \in Levels(h) |-> PotChips(h, l)]
           S == Marked(Levels(h), A)
           T == Piles(h.committed)
           g == [m \in S |-> m[2]]
<1>1. h.committed \in [Seats -> Nat] BY DEF HandType
<1>2. IsFiniteSet(Levels(h)) /\ Levels(h) \in SUBSET (Nat \ {0}) BY LevelsType
<1>3. \A l \in Levels(h) : IsFiniteSet(A[l]) /\ Cardinality(A[l]) \in Nat BY <1>2, PotChipsType
<1>4. Total([l \in Levels(h) |-> Cardinality(A[l])]) = Cardinality(S) /\ IsFiniteSet(S)
  <2> HIDE DEF A
  <2> QED BY <1>2, <1>3, TotalOfSizes
<1>5. Total(h.committed) = Cardinality(T) BY <1>1, SeatsFinite, TotalCounts
<1>6. ASSUME NEW m
      PROVE  m \in S <=> \E l \in Levels(h) : \E c \in PotChips(h, l) : m = <<l, c>>
  BY DEF Marked
<1>7. ASSUME NEW l \in Levels(h), NEW c \in PotChips(h, l)
      PROVE  /\ l \in Nat /\ c \in Seats \X (Nat \ {0}) /\ c[1] \in Seats /\ c[2] \in Nat \ {0}
             /\ c[2] <= l /\ l <= h.committed[c[1]] /\ h.committed[c[1]] \in Nat
             /\ \A k \in Levels(h) : k < l => k < c[2]
  BY <1>1, <1>2, PotChipsType
<1>8. g \in [S -> T]
  <2> SUFFICES ASSUME NEW m \in S PROVE m[2] \in T OBVIOUS
  <2>1. PICK l \in Levels(h) : \E c \in PotChips(h, l) : m = <<l, c>> BY <1>6
  <2>2. PICK c \in PotChips(h, l) : m = <<l, c>> BY <2>1
  <2>3. c[2] \in 1 .. h.committed[c[1]] /\ c \in Seats \X Nat BY <1>7
  <2>4. c \in T BY <1>1, <2>3 DEF Piles
  <2> QED BY <2>2, <2>4
<1>9. g \in Injection(S, T)
  <2> SUFFICES ASSUME NEW m \in S, NEW k \in S, g[m] = g[k] PROVE m = k
    BY <1>8 DEF Injection, IsInjective
  <2>1. PICK l \in Levels(h) : \E c \in PotChips(h, l) : m = <<l, c>> BY <1>6
  <2>2. PICK c \in PotChips(h, l) : m = <<l, c>> BY <2>1
  <2>3. PICK l2 \in Levels(h) : \E c2 \in PotChips(h, l2) : k = <<l2, c2>> BY <1>6
  <2>4. PICK c2 \in PotChips(h, l2) : k = <<l2, c2>> BY <2>3
  <2>5. g[m] = c /\ g[k] = c2 BY <2>2, <2>4
  <2>6. c = c2 BY <2>5
  <2>7. l \in Nat /\ l2 \in Nat /\ c[2] \in Nat /\ c[2] <= l /\ c[2] <= l2
        /\ (l < l2 => l < c[2]) /\ (l2 < l => l2 < c[2])
    BY <1>7, <2>6
  <2>8. l = l2 BY <2>7
  <2> QED BY <2>2, <2>4, <2>6, <2>8
<1>10. g \in Surjection(S, T)
  <2> SUFFICES ASSUME NEW c \in T PROVE \E m \in S : g[m] = c
    BY <1>8 DEF Surjection
  <2>1. c \in Seats \X Nat /\ c[2] \in 1 .. h.committed[c[1]] BY <1>1 DEF Piles
  <2>2. c = <<c[1], c[2]>> /\ c[1] \in Seats /\ c[2] \in Nat \ {0} BY <2>1
  <2>3. h.committed[c[1]] \in Nat /\ c[2] <= h.committed[c[1]] BY <1>1, <2>1, <2>2
  <2> DEFINE Above == {l \in Levels(h) : c[2] <= l}
  <2>4. h.committed[c[1]] \in Above BY <2>2, <2>3 DEF Levels
  <2>5. PICK l \in Above : \A k \in Above : l <= k
    <3>1. Above \in SUBSET Nat /\ Above # {} BY <1>2, <2>4
    <3> HIDE DEF Above
    <3> QED BY <3>1, LeastNatural
  <2>6. l \in Levels(h) /\ l \in Nat /\ c[2] <= l /\ l <= h.committed[c[1]] BY <1>2, <2>4, <2>5
  <2>7. \A k \in Levels(h) : k < l => k < c[2]
    <3> SUFFICES ASSUME NEW k \in Levels(h), k < l, ~(k < c[2]) PROVE FALSE OBVIOUS
    <3>1. k \in Nat /\ c[2] <= k BY <1>2, <2>2
    <3>2. l <= k BY <2>5, <3>1
    <3> QED BY <2>6, <3>1, <3>2
  <2>8. c \in Seats \X (Nat \ {0}) BY <2>2
  <2>9. c \in PotChips(h, l) BY <2>2, <2>6, <2>7, <2>8, PotChipsType
  <2>10. <<l, c>> \in S BY <1>6, <2>6, <2>9
  <2>11. g[<<l, c>>] = c BY <2>10
  <2> QED BY <2>10, <2>11
<1>11. ExistsBijection(S, T)
  <2> HIDE DEF g, S, T
  <2> QED BY <1>9, <1>10 DEF ExistsBijection, Bijection
<1>12. Cardinality(S) = Cardinality(T)
  <2> HIDE DEF S, T
  <2> QED BY <1>4, <1>11, FS_Bijection
<1>13. [l \in Levels(h) |-> Cardinality(A[l])] = [l \in Levels(h) |-> Cardinality(PotChips(h, l))]
  OBVIOUS
<1> HIDE DEF A, S, T
<1> QED BY <1>4, <1>5, <1>12, <1>13

\* A player who is still in has put in as much as anybody.
Covered(h) == \E w \in Contenders(h) : \A r \in Seats : h.committed[r] <= h.committed[w]

Awards(h, rank) == [s \in Seats |-> Award(h, rank, s)]

\* A player who is left alone is paid everything.
LEMMA AloneTakesAll ==
    ASSUME NEW h \in HandType, NEW rank, Alone(h)
    PROVE  Total(Awards(h, rank)) = Total(h.committed)
<1> DEFINE all == Total(h.committed)
<1>1. h.committed \in [Seats -> Nat] BY DEF HandType
<1>2. all \in Nat BY <1>1, SeatsFinite, TotalType
<1>3. Contenders(h) \in SUBSET Seats BY DEF Contenders
<1>4. Cardinality(Contenders(h)) = 1 BY DEF Alone
<1>5. Awards(h, rank) = [s \in Seats |-> IF s \in Contenders(h) THEN all ELSE 0]
  BY DEF Awards, Award
<1> HIDE DEF all
<1>6. Total([s \in Seats |-> IF s \in Contenders(h) THEN all ELSE 0]) = 1 * all
  BY <1>2, <1>3, <1>4, SeatsFinite, TotalOfShares
<1> QED BY <1>2, <1>5, <1>6 DEF all

\* When hands are compared, the pots are paid out to the last chip if every pot has
\* somebody who can win it.
LEMMA ShowdownPaysAll ==
    ASSUME NEW h \in HandType, NEW rank \in Ranks, ~Alone(h), Covered(h)
    PROVE  Total(Awards(h, rank)) = Total(h.committed)
<1> DEFINE L == Levels(h)
           f == [s \in Seats |-> [l \in L |-> PotShare(h, rank, l, s)]]
           shares == [l \in L |-> [s \in Seats |-> PotShare(h, rank, l, s)]]
           chips == [l \in L |-> Cardinality(PotChips(h, l))]
<1>1. IsFiniteSet(L) /\ L \in SUBSET (Nat \ {0}) BY LevelsType
<1>2. f \in [Seats -> [L -> Nat]] BY <1>1, PotShareType
<1>3. Awards(h, rank) \in [Seats -> Nat] /\ \A s \in Seats : Awards(h, rank)[s] = Total(f[s])
  BY AwardType DEF Awards, Award
<1>4. chips \in [L -> Nat] BY <1>1, PotChipsType
<1>5. ASSUME NEW l \in L
      PROVE  chips[l] = Total(shares[l])
  <2>1. PICK w \in Contenders(h) : \A r \in Seats : h.committed[r] <= h.committed[w]
    BY DEF Covered
  <2>2. PICK r \in Seats : l = h.committed[r] BY DEF Levels
  <2>3. w \in Eligible(h, l) BY <2>1, <2>2 DEF Eligible, PaidInto, Contenders
  <2>4. Total([s \in Seats |-> PotShare(h, rank, l, s)]) = Cardinality(PotChips(h, l))
    BY <1>1, <2>3, PotsArePaidOut
  <2> QED BY <2>4
<1>6. shares \in [L -> [Seats -> Nat]] BY <1>1, PotShareType
<1>7. \A s \in Seats, l \in L : shares[l][s] = f[s][l] OBVIOUS
<1>8. Total(Awards(h, rank)) = Total(chips)
  <2>1. IsFiniteSet(L) /\ IsFiniteSet(Seats) BY <1>1, SeatsFinite
  <2> HIDE DEF f, L, chips, shares
  <2>2. RowTotals(Seats, L, f, Awards(h, rank)) BY <1>2, <1>3 DEF RowTotals
  <2>3. RowTotals(L, Seats, shares, chips) BY <1>4, <1>5, <1>6 DEF RowTotals
  <2>4. Transposed(Seats, L, f, shares) BY <1>7 DEF Transposed
  <2> QED BY <2>1, <2>2, <2>3, <2>4, TotalsExchange
<1> QED BY <1>8, PotsHoldAll

\* When hands are compared, nobody wins from another more than he has put in himself.
LEMMA ShowdownIsStaked ==
    ASSUME NEW h \in HandType, NEW rank, ~Alone(h), NEW s \in Seats
    PROVE  Award(h, rank, s)
              <= Total([r \in Seats |-> AtMost(h.committed[r], h.committed[s])])
<1> DEFINE L == Levels(h)
           f == [l \in L |-> PotShare(h, rank, l, s)]
           A == [l \in L |-> IF l <= h.committed[s] THEN PotChips(h, l) ELSE {}]
           sizes == [l \in L |-> Cardinality(A[l])]
           matched == [r \in Seats |-> AtMost(h.committed[r], h.committed[s])]
           S == Marked(L, A)
           T == Piles(matched)
           g == [m \in S |-> m[2]]
<1>1. h.committed \in [Seats -> Nat] BY DEF HandType
<1>2. IsFiniteSet(L) /\ L \in SUBSET (Nat \ {0}) BY LevelsType
<1>3. f \in [L -> Nat] BY <1>2, PotShareType
<1>4. \A l \in L : IsFiniteSet(A[l]) /\ Cardinality(A[l]) \in Nat
  BY <1>2, PotChipsType, FS_EmptySet
<1>5. \A l \in L : f[l] <= sizes[l]
  <2> SUFFICES ASSUME NEW l \in L PROVE PotShare(h, rank, l, s) <= Cardinality(A[l]) OBVIOUS
  <2> DEFINE winners == PotWinners(h, rank, l)
             amount == Cardinality(PotChips(h, l))
             n == Cardinality(winners)
  <2>1. amount \in Nat BY <1>2, PotChipsType
  <2>2. CASE s \in winners
    <3>1. s \in PaidInto(h, l) BY <2>2 DEF PotWinners, Eligible
    <3>2. A[l] = PotChips(h, l) BY <3>1 DEF PaidInto
    <3>3. winners \in SUBSET Seats BY DEF PotWinners, Eligible, PaidInto
    <3>4. n \in Nat \ {0} BY <2>2, <3>3, SeatsFinite, FS_Subset, FS_CardinalityType, FS_EmptySet
    <3>5. \/ PotShare(h, rank, l, s) = (amount \div n) + (amount % n)
          \/ PotShare(h, rank, l, s) = (amount \div n) + 0
      BY <2>2 DEF PotShare
    <3> HIDE DEF amount, n, winners, A
    <3>6. /\ amount \div n \in Nat /\ amount % n \in Nat
          /\ (amount \div n) + (amount % n) <= amount
      BY <2>1, <3>4, Division
    <3> QED BY <2>1, <3>2, <3>5, <3>6 DEF amount
  <2>3. CASE s \notin winners
    <3>1. PotShare(h, rank, l, s) = 0 BY <2>3 DEF PotShare
    <3> QED BY <1>4, <3>1
  <2> QED BY <2>2, <2>3
<1>6. sizes \in [L -> Nat] BY <1>4
<1>7. Total(f) <= Total(sizes)
  <2> HIDE DEF f, sizes, L
  <2> QED BY <1>2, <1>3, <1>5, <1>6, TotalsGrow
<1>8. Total(sizes) = Cardinality(S) /\ IsFiniteSet(S)
  <2>1. \A l \in L : IsFiniteSet(A[l]) /\ sizes[l] = Cardinality(A[l]) BY <1>4
  <2> HIDE DEF A, sizes, L
  <2> QED BY <1>2, <1>6, <2>1, TotalOfSizes
<1>9. matched \in [Seats -> Nat] BY <1>1 DEF AtMost
<1>10. Total(matched) = Cardinality(T) /\ IsFiniteSet(T)
  <2> HIDE DEF matched
  <2> QED BY <1>9, SeatsFinite, TotalCounts
<1>11. ASSUME NEW m \in S
       PROVE  \E l \in L : \E c \in PotChips(h, l) : m = <<l, c>> /\ l <= h.committed[s]
  <2>1. PICK l \in L : m \in {l} \X A[l] BY DEF Marked
  <2>2. m = <<l, m[2]>> /\ m[2] \in A[l] BY <2>1
  <2>3. l <= h.committed[s] /\ m[2] \in PotChips(h, l) BY <2>2
  <2> QED BY <2>2, <2>3
<1>12. ASSUME NEW l \in L, NEW c \in PotChips(h, l)
       PROVE  /\ l \in Nat /\ c \in Seats \X (Nat \ {0}) /\ c[1] \in Seats /\ c[2] \in Nat \ {0}
              /\ c[2] <= l /\ l <= h.committed[c[1]] /\ h.committed[c[1]] \in Nat
              /\ \A k \in L : k < l => k < c[2]
  BY <1>1, <1>2, PotChipsType
<1>13. g \in [S -> T]
  <2> SUFFICES ASSUME NEW m \in S PROVE m[2] \in T OBVIOUS
  <2>1. PICK l \in L : \E c \in PotChips(h, l) : m = <<l, c>> /\ l <= h.committed[s] BY <1>11
  <2>2. PICK c \in PotChips(h, l) : m = <<l, c>> /\ l <= h.committed[s] BY <2>1
  <2>3. h.committed[s] \in Nat BY <1>1
  <2>4. c[2] \in 1 .. AtMost(h.committed[c[1]], h.committed[s]) /\ c \in Seats \X Nat
    BY <1>12, <2>2, <2>3 DEF AtMost
  <2>5. c[2] \in 1 .. matched[c[1]] BY <1>12, <2>4
  <2>6. c \in T
    <3> HIDE DEF matched
    <3> QED BY <1>9, <2>4, <2>5 DEF Piles
  <2> QED BY <2>2, <2>6
<1>14. g \in Injection(S, T)
  <2> SUFFICES ASSUME NEW m \in S, NEW k \in S, g[m] = g[k] PROVE m = k
    BY <1>13 DEF Injection, IsInjective
  <2>1. PICK l \in L : \E c \in PotChips(h, l) : m = <<l, c>> /\ l <= h.committed[s] BY <1>11
  <2>2. PICK c \in PotChips(h, l) : m = <<l, c>> BY <2>1
  <2>3. PICK l2 \in L : \E d \in PotChips(h, l2) : k = <<l2, d>> /\ l2 <= h.committed[s] BY <1>11
  <2>4. PICK c2 \in PotChips(h, l2) : k = <<l2, c2>> BY <2>3
  <2>5. g[m] = c /\ g[k] = c2 BY <2>2, <2>4
  <2>6. c = c2 BY <2>5
  <2>7. l \in Nat /\ l2 \in Nat /\ c[2] \in Nat /\ c[2] <= l /\ c[2] <= l2
        /\ (l < l2 => l < c[2]) /\ (l2 < l => l2 < c[2])
    BY <1>12, <2>6
  <2>8. l = l2 BY <2>7
  <2> QED BY <2>2, <2>4, <2>6, <2>8
<1>15. Cardinality(S) <= Cardinality(T)
  <2> HIDE DEF g, S, T
  <2> QED BY <1>10, <1>14, FS_Injection
<1>16. Award(h, rank, s) = Total(f) BY DEF Award
<1>17. Total(f) \in Nat /\ Total(sizes) \in Nat /\ Total(matched) \in Nat
  <2> HIDE DEF f, sizes, matched, L
  <2> QED BY <1>2, <1>3, <1>6, <1>9, SeatsFinite, TotalType
<1> HIDE DEF f, sizes, S, T, matched
<1> QED BY <1>7, <1>8, <1>10, <1>15, <1>16, <1>17 DEF matched

-----------------------------------------------------------------------------
(* What an action does to the chips.                                        *)

\* Nothing changes but what s has.
OthersKeep(t, u, s) ==
    /\ \A r \in Seats \ {s} :
          /\ u.hand.stack[r] = t.hand.stack[r] /\ u.hand.bet[r] = t.hand.bet[r]
          /\ u.hand.committed[r] = t.hand.committed[r]
          /\ u.hand.status[r] = t.hand.status[r]
          /\ u.seatStack[r] = t.seatStack[r]
    /\ u.seatStatus = t.seatStatus
    /\ u.hand.turn = t.hand.turn /\ u.hand.phase = t.hand.phase
    /\ u.hand.waiting = t.hand.waiting /\ u.hand.street = t.hand.street

\* Player s, who is active, puts `pay` of his chips in the pot.
PutsIn(t, u, s, pay) ==
    /\ OthersKeep(t, u, s)
    /\ pay \in Int /\ pay <= t.hand.stack[s]
    /\ u.hand.stack[s] = t.hand.stack[s] - pay
    /\ u.hand.bet[s] = t.hand.bet[s] + pay
    /\ u.hand.committed[s] = t.hand.committed[s] + pay
    /\ u.hand.status[s] = IF t.hand.stack[s] = pay THEN "allIn" ELSE "active"
    /\ t.seatStack[s] = t.hand.stack[s] => u.seatStack[s] = t.seatStack[s] - pay

\* What the others have said stands.
OthersActedSame(t, u, s) == \A r \in Seats \ {s} : u.hand.acted[r] = t.hand.acted[r]

\* commitBet takes the chips from the two copies of one stack.
LEMMA CommitBetPays ==
    ASSUME NEW t \in TableType, NEW s \in Seats, NEW amount \in Int,
           t.hand.status[s] = "active"
    PROVE  LET u == CommitBet(t, s, amount)
           IN  /\ PutsIn(t, u, s, AtMost(amount, t.hand.stack[s]))
               /\ OthersActedSame(t, u, s)
               /\ u.hand.currentBet = t.hand.currentBet
               /\ u.hand.minRaise = t.hand.minRaise
<1> DEFINE h == t.hand
           pay == AtMost(amount, h.stack[s])
           allIn == h.stack[s] = pay /\ h.status[s] = "active"
           seat == IF t.seatStack[s] >= pay THEN t.seatStack[s] - pay ELSE 0
           stack == Put(h.stack, s, h.stack[s] - pay)
           bet == Put(h.bet, s, h.bet[s] + pay)
           committed == Put(h.committed, s, h.committed[s] + pay)
           status == Put(h.status, s, IF allIn THEN "allIn" ELSE h.status[s])
           acted == Put(h.acted, s, h.acted[s] \/ allIn)
           seatStack == Put(t.seatStack, s, seat)
           paid == [h EXCEPT !.stack = stack, !.bet = bet, !.committed = committed,
                             !.status = status, !.acted = acted]
           u == [t EXCEPT !.seatStack = seatStack, !.hand = paid]
<1>1. h \in HandType BY HandIsTyped
<1>2. CommitBet(t, s, amount) = u BY DEF CommitBet
<1>3. pay \in Int /\ pay <= h.stack[s] /\ h.stack[s] \in Nat
  BY <1>1 DEF HandType, AtMost
<1>4. t.seatStack[s] = h.stack[s] => seat = t.seatStack[s] - pay BY <1>3
<1> HIDE DEF pay, seat
<1>5. /\ stack[s] = h.stack[s] - pay /\ \A r \in Seats \ {s} : stack[r] = h.stack[r]
      /\ bet[s] = h.bet[s] + pay /\ \A r \in Seats \ {s} : bet[r] = h.bet[r]
      /\ committed[s] = h.committed[s] + pay
      /\ \A r \in Seats \ {s} : committed[r] = h.committed[r]
  BY <1>1 DEF HandType, Put
<1>6. /\ status[s] = IF h.stack[s] = pay THEN "allIn" ELSE "active"
      /\ \A r \in Seats \ {s} : status[r] = h.status[r]
  BY <1>1 DEF HandType, Put
<1>7. \A r \in Seats \ {s} : acted[r] = h.acted[r]
  <2> HIDE DEF allIn
  <2> QED BY <1>1 DEF HandType, Put
<1>8. /\ seatStack[s] = seat /\ \A r \in Seats \ {s} : seatStack[r] = t.seatStack[r]
  BY DEF TableType, Put
<1> HIDE DEF stack, bet, committed, status, acted, seatStack
<1>9. /\ paid.phase = h.phase /\ paid.street = h.street /\ paid.waiting = h.waiting
      /\ paid.turn = h.turn /\ paid.currentBet = h.currentBet /\ paid.minRaise = h.minRaise
      /\ paid.stack = stack /\ paid.bet = bet /\ paid.committed = committed
      /\ paid.status = status /\ paid.acted = acted
  BY <1>1 DEF HandType
<1> HIDE DEF paid
<1>10. u.hand = paid /\ u.seatStack = seatStack /\ u.seatStatus = t.seatStatus BY DEF TableType
<1> HIDE DEF u
<1>11. PutsIn(t, u, s, pay)
  BY <1>3, <1>4, <1>5, <1>6, <1>8, <1>9, <1>10 DEF PutsIn, OthersKeep
<1>12. OthersActedSame(t, u, s) BY <1>7, <1>9, <1>10 DEF OthersActedSame
<1> QED BY <1>2, <1>9, <1>10, <1>11, <1>12 DEF pay

\* The hand as it is, but for who has acted.
LEMMA ActsMarks ==
    ASSUME NEW t \in TableType, NEW s \in Seats
    PROVE  LET u == Acts(t, s)
           IN  /\ u.hand.stack = t.hand.stack /\ u.hand.bet = t.hand.bet
               /\ u.hand.committed = t.hand.committed /\ u.hand.status = t.hand.status
               /\ u.hand.turn = t.hand.turn /\ u.hand.phase = t.hand.phase
               /\ u.hand.waiting = t.hand.waiting /\ u.hand.street = t.hand.street
               /\ u.hand.currentBet = t.hand.currentBet
               /\ u.hand.acted[s]
               /\ \A r \in Seats \ {s} : u.hand.acted[r] = t.hand.acted[r]
               /\ u.seatStack = t.seatStack /\ u.seatStatus = t.seatStatus
<1> DEFINE acted == Put(t.hand.acted, s, TRUE)
           h == [t.hand EXCEPT !.acted = acted]
<1>1. t.hand \in HandType BY HandIsTyped
<1>2. /\ acted \in [Seats -> BOOLEAN] /\ acted[s]
      /\ \A r \in Seats \ {s} : acted[r] = t.hand.acted[r]
  BY <1>1 DEF HandType, Put
<1> HIDE DEF acted
<1>3. /\ h \in HandType /\ h.acted = acted
      /\ h.stack = t.hand.stack /\ h.bet = t.hand.bet
      /\ h.committed = t.hand.committed /\ h.status = t.hand.status
      /\ h.turn = t.hand.turn /\ h.phase = t.hand.phase
      /\ h.waiting = t.hand.waiting /\ h.street = t.hand.street
      /\ h.currentBet = t.hand.currentBet
  BY <1>1, <1>2 DEF HandType
<1>4. Acts(t, s) = WithHand(t, h) BY DEF Acts, acted
<1> HIDE DEF h
<1>5. /\ WithHand(t, h).hand = h /\ WithHand(t, h).seatStack = t.seatStack
      /\ WithHand(t, h).seatStatus = t.seatStatus
  BY <1>3, WithHandEffect
<1> QED BY <1>2, <1>3, <1>4, <1>5

\* No other player who can still bet has acted who had not acted before.
OthersOwe(t, u, s) ==
    \A r \in Seats \ {s} : u.hand.status[r] = "active" /\ u.hand.acted[r] => t.hand.acted[r]

\* A raise of s, who can pay it, to `total`.
LEMMA PlaceRaisePays ==
    ASSUME NEW t \in TableType, NEW s \in Seats, NEW total \in Nat, BetsAreCommitted(t.hand),
           t.hand.status[s] = "active", total <= AllChips(t.hand, s)
    PROVE  LET u == PlaceRaise(t, s, total)
           IN  /\ PutsIn(t, u, s, total - t.hand.bet[s])
               /\ u.hand.acted[s] /\ OthersOwe(t, u, s)
               /\ u.hand.currentBet = total
<1> DEFINE raiseBy == total - t.hand.currentBet
           full == raiseBy >= t.hand.minRaise
           v == CommitBet(t, s, total - t.hand.bet[s])
           minRaise == IF full THEN raiseBy ELSE v.hand.minRaise
           acted == [r \in Seats |-> r = s \/ (IF full THEN v.hand.status[r] # "active"
                                              ELSE v.hand.acted[r])]
           g == [v.hand EXCEPT !.currentBet = total, !.raises = @ + 1,
                               !.minRaise = minRaise, !.acted = acted]
<1>1. t.hand \in HandType BY HandIsTyped
<1>2. t.hand.bet[s] \in Nat /\ t.hand.stack[s] \in Nat BY <1>1 DEF HandType
<1>3. AtMost(total - t.hand.bet[s], t.hand.stack[s]) = total - t.hand.bet[s]
  BY <1>2 DEF AtMost, AllChips
<1>4. /\ v \in TableType /\ OthersActedSame(t, v, s)
      /\ PutsIn(t, v, s, total - t.hand.bet[s])
  <2>1. total - t.hand.bet[s] \in Int /\ 0 <= t.hand.bet[s] + (total - t.hand.bet[s])
    BY <1>2
  <2>2. /\ PutsIn(t, v, s, AtMost(total - t.hand.bet[s], t.hand.stack[s]))
        /\ OthersActedSame(t, v, s)
    BY <2>1, CommitBetPays
  <2> QED BY <1>3, <2>1, <2>2, CommitBetKeeps DEF Keeps
<1>5. PlaceRaise(t, s, total) = WithHand(v, g) BY DEF PlaceRaise
<1> HIDE DEF v
<1>6. v.hand \in HandType BY <1>4, HandIsTyped
<1>7. minRaise \in MinRaises
  <2>1. t.hand.minRaise \in MinRaises /\ t.hand.currentBet \in Nat /\ v.hand.minRaise \in MinRaises
    BY <1>1, <1>6 DEF HandType
  <2> QED BY <2>1, BlindsAssumption DEF MinRaises
<1>8. acted \in [Seats -> BOOLEAN] /\ acted[s] BY <1>6 DEF HandType
<1>13. \A r \in Seats \ {s} : v.hand.status[r] = "active" /\ acted[r] => t.hand.acted[r]
  BY <1>4 DEF OthersActedSame
<1>9. v.hand.raises + 1 \in Nat BY <1>6 DEF HandType
<1> HIDE DEF full, raiseBy, minRaise, acted
<1>10. /\ g \in HandType /\ g.acted = acted /\ g.currentBet = total
       /\ g.stack = v.hand.stack /\ g.bet = v.hand.bet
       /\ g.committed = v.hand.committed /\ g.status = v.hand.status
       /\ g.turn = v.hand.turn /\ g.phase = v.hand.phase
       /\ g.waiting = v.hand.waiting /\ g.street = v.hand.street
  BY <1>6, <1>7, <1>8, <1>9 DEF HandType
<1> HIDE DEF g
<1>11. /\ WithHand(v, g).hand = g /\ WithHand(v, g).seatStack = v.seatStack
       /\ WithHand(v, g).seatStatus = v.seatStatus
  BY <1>4, <1>10, WithHandEffect
<1>12. PutsIn(t, WithHand(v, g), s, total - t.hand.bet[s])
  BY <1>4, <1>10, <1>11 DEF PutsIn, OthersKeep
<1>14. OthersOwe(t, WithHand(v, g), s) BY <1>10, <1>11, <1>13 DEF OthersOwe
<1> QED BY <1>5, <1>8, <1>10, <1>11, <1>12, <1>14

\* s folds: the chips stay where they are.
Folds(t, u, s) ==
    /\ OthersKeep(t, u, s) /\ OthersActedSame(t, u, s)
    /\ u.hand.currentBet = t.hand.currentBet
    /\ u.hand.status[s] = "folded"
    /\ u.hand.stack[s] = t.hand.stack[s] /\ u.hand.bet[s] = t.hand.bet[s]
    /\ u.hand.committed[s] = t.hand.committed[s]
    /\ u.seatStack[s] = t.seatStack[s]

\* s pays `pay` without raising.
PaysUp(t, u, s, pay) ==
    /\ PutsIn(t, u, s, pay) /\ OthersActedSame(t, u, s)
    /\ u.hand.currentBet = t.hand.currentBet /\ t.hand.bet[s] + pay <= t.hand.currentBet
    /\ u.hand.acted[s]

\* s raises to u.hand.currentBet.
RaisesBy(t, u, s, pay) ==
    /\ PutsIn(t, u, s, pay)
    /\ u.hand.currentBet = u.hand.bet[s] /\ u.hand.currentBet > t.hand.currentBet
    /\ u.hand.acted[s] /\ OthersOwe(t, u, s)

\* An all-in that names an amount pays the call with it, or is of all the chips.
WholeShove(h, s, action) ==
    action.type = "allIn" /\ ToCall(h, s) # 0 =>
        AllInTotal(h, s, action.amount) >= AtMost(h.currentBet, AllChips(h, s))

\* Paying `pay`, s has called, or has no chips left to call with.
Settled(h, s, pay) ==
    \/ h.bet[s] + pay = h.currentBet
    \/ pay = h.stack[s] /\ h.bet[s] + pay <= h.currentBet

\* A fold.
LEMMA FoldPays ==
    ASSUME NEW t \in TableType, NEW s \in Seats
    PROVE  Folds(t, Fold(t, s), s)
<1> DEFINE status == Put(t.hand.status, s, "folded")
           acted == Put(t.hand.acted, s, TRUE)
           h == [t.hand EXCEPT !.status = status, !.acted = acted]
<1>1. t.hand \in HandType BY HandIsTyped
<1>2. /\ status \in [Seats -> PlayerStatuses] /\ status[s] = "folded"
      /\ \A r \in Seats \ {s} : status[r] = t.hand.status[r]
      /\ acted \in [Seats -> BOOLEAN]
      /\ \A r \in Seats \ {s} : acted[r] = t.hand.acted[r]
  BY <1>1 DEF HandType, Put, PlayerStatuses
<1> HIDE DEF status, acted
<1>3. /\ h \in HandType /\ h.acted = acted /\ h.status = status
      /\ h.stack = t.hand.stack /\ h.bet = t.hand.bet
      /\ h.committed = t.hand.committed
      /\ h.turn = t.hand.turn /\ h.phase = t.hand.phase
      /\ h.waiting = t.hand.waiting /\ h.street = t.hand.street
      /\ h.currentBet = t.hand.currentBet
  BY <1>1, <1>2 DEF HandType
<1>4. Fold(t, s) = WithHand(t, h) BY DEF Fold, status, acted
<1> HIDE DEF h
<1>5. /\ WithHand(t, h).hand = h /\ WithHand(t, h).seatStack = t.seatStack
      /\ WithHand(t, h).seatStatus = t.seatStatus
  BY <1>3, WithHandEffect
<1> QED BY <1>2, <1>3, <1>4, <1>5 DEF Folds, OthersKeep, OthersActedSame

\* An accepted action is a fold, a payment that leaves nothing to call or the player all-in
\* (but for an all-in that names too little), or a raise.
LEMMA MovePays ==
    ASSUME NEW t \in TableType, NEW s \in Seats, NEW action \in Actions,
           BetsAreCommitted(t.hand), Chipped(t.hand), Accepts(t.hand, s, action)
    PROVE  LET u == Move(t, s, action)
           IN  \/ Folds(t, u, s)
               \/ \E pay \in Int :
                    /\ PaysUp(t, u, s, pay)
                    /\ WholeShove(t.hand, s, action) => Settled(t.hand, s, pay)
               \/ \E pay \in Int : RaisesBy(t, u, s, pay)
<1> DEFINE h == t.hand
           u == Move(t, s, action)
           all == AllInTotal(h, s, action.amount)
           target == IF action.type = "allIn" THEN all ELSE action.amount
           Pays == \E pay \in Int :
                      /\ PaysUp(t, u, s, pay)
                      /\ WholeShove(h, s, action) => Settled(h, s, pay)
           Raises == \E pay \in Int : RaisesBy(t, u, s, pay)
<1>1. h \in HandType BY HandIsTyped
<1>2. /\ h.bet[s] \in Nat /\ h.stack[s] \in Nat /\ h.currentBet \in Nat
      /\ h.committed[s] \in Nat
      /\ ToCall(h, s) = h.currentBet - h.bet[s] /\ AllChips(h, s) = h.bet[s] + h.stack[s]
  BY <1>1 DEF HandType, ToCall, AllChips
<1>3. h.status[s] = "active" /\ h.stack[s] > 0 BY DEF Accepts, OnTurn, Chipped
<1>4. CASE action.type = "fold" BY <1>4, FoldPays DEF Move
<1>5. ASSUME action.type = "check" \/ (action.type = "allIn" /\ AllInIsCheck(h, s, action.amount))
      PROVE  Pays
  <2>1. u = Acts(t, s) BY <1>5 DEF Move, AllInIsCheck
  <2>2. ToCall(h, s) = 0 BY <1>5 DEF Accepts, AllInIsCheck
  <2> HIDE DEF u
  <2>3. /\ u.hand.stack = h.stack /\ u.hand.bet = h.bet
        /\ u.hand.committed = h.committed /\ u.hand.status = h.status
        /\ u.hand.turn = h.turn /\ u.hand.phase = h.phase
        /\ u.hand.waiting = h.waiting /\ u.hand.street = h.street
        /\ u.hand.currentBet = h.currentBet
        /\ u.hand.acted[s]
        /\ \A r \in Seats \ {s} : u.hand.acted[r] = h.acted[r]
        /\ u.seatStack = t.seatStack /\ u.seatStatus = t.seatStatus
    BY <2>1, ActsMarks
  <2>4. t.seatStack[s] \in Nat BY DEF TableType
  <2>5. PutsIn(t, u, s, 0) BY <1>2, <1>3, <2>3, <2>4 DEF PutsIn, OthersKeep
  <2>6. PaysUp(t, u, s, 0) BY <1>2, <2>2, <2>3, <2>5 DEF PaysUp, OthersActedSame
  <2>7. Settled(h, s, 0) BY <1>2, <2>2 DEF Settled
  <2> QED BY <2>6, <2>7
<1>6. ASSUME NEW amount \in Int, 0 <= h.bet[s] + amount, h.bet[s] + amount <= h.currentBet,
             u = Acts(CommitBet(t, s, amount), s),
             WholeShove(h, s, action) => Settled(h, s, AtMost(amount, h.stack[s]))
      PROVE  Pays
  <2> DEFINE v == CommitBet(t, s, amount)
             pay == AtMost(amount, h.stack[s])
  <2>1. /\ v \in TableType /\ PutsIn(t, v, s, pay) /\ OthersActedSame(t, v, s)
        /\ v.hand.currentBet = h.currentBet
    BY <1>3, <1>6, CommitBetKeeps, CommitBetPays DEF Keeps
  <2>2. u = Acts(v, s) BY <1>6
  <2> HIDE DEF u, v
  <2>3. /\ u.hand.stack = v.hand.stack /\ u.hand.bet = v.hand.bet
        /\ u.hand.committed = v.hand.committed /\ u.hand.status = v.hand.status
        /\ u.hand.turn = v.hand.turn /\ u.hand.phase = v.hand.phase
        /\ u.hand.waiting = v.hand.waiting /\ u.hand.street = v.hand.street
        /\ u.hand.currentBet = v.hand.currentBet
        /\ u.hand.acted[s]
        /\ \A r \in Seats \ {s} : u.hand.acted[r] = v.hand.acted[r]
        /\ u.seatStack = v.seatStack /\ u.seatStatus = v.seatStatus
    BY <2>1, <2>2, ActsMarks
  <2> HIDE DEF pay
  <2>4. PutsIn(t, u, s, pay) BY <2>1, <2>3 DEF PutsIn, OthersKeep
  <2>5. h.bet[s] + pay <= h.currentBet BY <1>2, <1>6 DEF pay, AtMost
  <2>6. PaysUp(t, u, s, pay) BY <2>1, <2>3, <2>4, <2>5 DEF PaysUp, OthersActedSame
  <2>7. pay \in Int BY <2>4 DEF PutsIn
  <2> QED BY <1>6, <2>7, <2>6 DEF pay
<1>7. ASSUME NEW total \in Nat, total <= AllChips(h, s), total > h.currentBet,
             u = PlaceRaise(t, s, total)
      PROVE  Raises
  <2> HIDE DEF u
  <2>1. /\ PutsIn(t, u, s, total - h.bet[s]) /\ u.hand.acted[s]
        /\ u.hand.currentBet = total /\ OthersOwe(t, u, s)
    BY <1>3, <1>7, PlaceRaisePays
  <2>2. u.hand.bet[s] = total BY <1>2, <1>7, <2>1 DEF PutsIn
  <2>3. RaisesBy(t, u, s, total - h.bet[s]) BY <1>7, <2>1, <2>2 DEF RaisesBy
  <2>4. total - h.bet[s] \in Int BY <1>2
  <2> QED BY <2>3, <2>4
<1>8. CASE action.type = "call"
  <2>1. u = Acts(CommitBet(t, s, ToCall(h, s)), s) BY <1>8 DEF Move
  <2>2. ToCall(h, s) > 0 BY <1>8 DEF Accepts
  <2>3. Settled(h, s, AtMost(ToCall(h, s), h.stack[s])) BY <1>2, <2>2 DEF Settled, AtMost
  <2> HIDE DEF u
  <2>4. /\ ToCall(h, s) \in Int /\ 0 <= h.bet[s] + ToCall(h, s)
        /\ h.bet[s] + ToCall(h, s) <= h.currentBet
    BY <1>2, <2>2
  <2>5. Pays BY <1>6, <2>1, <2>3, <2>4
  <2> QED BY <2>5 DEF u
<1>9. CASE action.type = "allIn" /\ ~AllInIsCheck(h, s, action.amount)
  <2>1. all \in Nat /\ h.bet[s] <= all /\ all <= AllChips(h, s)
    <3>1. action.amount # NoAmount => action.amount \in Nat /\ action.amount >= h.bet[s]
      BY <1>9, ActionsAreNamed DEF Accepts
    <3> QED BY <1>2, <3>1 DEF AllInTotal, AtMost
  <2>2. CASE all <= h.currentBet /\ ToCall(h, s) # 0
    <3>1. u = Acts(CommitBet(t, s, all - h.bet[s]), s) BY <1>9, <2>2 DEF Move
    <3>2. AtMost(all - h.bet[s], h.stack[s]) = all - h.bet[s]
      <4> HIDE DEF all
      <4> QED BY <1>2, <2>1 DEF AtMost
    <3>3. WholeShove(h, s, action) => all >= AtMost(h.currentBet, AllChips(h, s))
      BY <1>9, <2>2 DEF WholeShove
    <3> HIDE DEF all, u
    <3>4. all >= AtMost(h.currentBet, AllChips(h, s)) => Settled(h, s, all - h.bet[s])
      BY <1>2, <2>1, <2>2 DEF Settled, AtMost
    <3>5. /\ all - h.bet[s] \in Int /\ 0 <= h.bet[s] + (all - h.bet[s])
          /\ h.bet[s] + (all - h.bet[s]) <= h.currentBet
      BY <1>2, <2>1, <2>2
    <3>6. Pays BY <1>6, <3>1, <3>2, <3>3, <3>4, <3>5
    <3> QED BY <3>6 DEF u
  <2>3. CASE ~(all <= h.currentBet /\ ToCall(h, s) # 0)
    <3>1. u = PlaceRaise(t, s, all) BY <1>9, <2>3 DEF Move
    <3>2. all > h.currentBet
      <4>1. ToCall(h, s) = 0 => ~(all <= h.currentBet) BY <1>9 DEF AllInIsCheck
      <4> HIDE DEF all
      <4> QED BY <1>2, <2>1, <2>3, <4>1
    <3> HIDE DEF all, u
    <3>3. Raises BY <1>7, <2>1, <3>1, <3>2
    <3> QED BY <3>3 DEF u
  <2> QED BY <2>2, <2>3
<1>10. CASE action.type \in {"bet", "raise"}
  <2>1. u = PlaceRaise(t, s, action.amount) BY <1>10 DEF Move
  <2>2. action.amount \in Nat BY <1>10, ActionsAreNamed
  <2>3. action.amount <= AllChips(h, s) /\ action.amount > h.currentBet
    <3>1. CanRaiseTo(h, s, action.amount) BY <1>10 DEF Accepts
    <3>2. \/ h.currentBet = 0 /\ action.amount >= BigBlind
          \/ action.amount > h.currentBet
      BY <1>10 DEF Accepts
    <3> QED BY <2>2, <3>1, <3>2, BlindsAssumption DEF CanRaiseTo, Contestable
  <2> HIDE DEF u
  <2>4. Raises BY <1>7, <2>1, <2>2, <2>3
  <2> QED BY <2>4 DEF u
<1> QED BY <1>4, <1>5, <1>8, <1>9, <1>10, ActionsAreNamed

-----------------------------------------------------------------------------
(* Wealth: what a player has, with what he has put in.                      *)

\* Between t and u chips only went from stacks to the pot.
Wealth(t, u) ==
    /\ u.seatStatus = t.seatStatus
    /\ \A s \in Seats :
          /\ u.seatStack[s] + u.hand.committed[s] = t.seatStack[s] + t.hand.committed[s]
          /\ InHand(u, s) <=> InHand(t, s)
          /\ ~InHand(t, s) => u.hand.committed[s] = t.hand.committed[s]

\* All chips stay where they are, and so do the players.
Still(t, u) ==
    /\ u.seatStack = t.seatStack /\ u.hand.committed = t.hand.committed
    /\ u.hand.status = t.hand.status /\ u.seatStatus = t.seatStatus

\* A hand that goes on from t to u.
GoesOn(t, u) == Playing(u.hand) /\ Wealth(t, u)

\* The hand of t is won in u by the only player left.
WonAlone(t, u) ==
    \E v \in TableType : \E rank :
        /\ u = FinishHand(v, rank)
        /\ Wealth(t, v) /\ Alone(v.hand) /\ v.hand.street = t.hand.street

\* The hand of t is won in u at the showdown.
ShownDown(t, u) ==
    \E v \in TableType, rank \in Ranks :
        /\ u = FinishHand(v, rank)
        /\ Still(t, v) /\ v.hand.street = "showdown"

\* What an operation on a hand does to the chips.
Plays(t, u) == GoesOn(t, u) \/ WonAlone(t, u) \/ ShownDown(t, u)

\* Chips that stay are wealth that stays.
LEMMA StillIsWealth ==
    ASSUME NEW t, NEW u, Still(t, u)
    PROVE  Wealth(t, u)
BY DEF Still, Wealth, InHand

\* Wealth is kept by two steps if each keeps it.
LEMMA WealthThenWealth ==
    ASSUME NEW t, NEW u, NEW v, Wealth(t, u), Wealth(u, v)
    PROVE  Wealth(t, v)
BY DEF Wealth

\* After a move wealth is what it was.
LEMMA MoveKeepsWealth ==
    ASSUME NEW t \in TableType, NEW s \in Seats, NEW action \in Actions,
           BetsAreCommitted(t.hand), Chipped(t.hand), StacksAgree(t),
           Accepts(t.hand, s, action)
    PROVE  LET u == Move(t, s, action)
           IN  Wealth(t, u) /\ u.hand.street = t.hand.street /\ u.hand.phase = t.hand.phase
<1> DEFINE u == Move(t, s, action)
<1>1. t.hand \in HandType BY HandIsTyped
<1>2. t.hand.status[s] = "active" BY DEF Accepts, OnTurn
<1>3. t.seatStack[s] = t.hand.stack[s] /\ t.seatStack[s] \in Nat /\ t.hand.committed[s] \in Nat
  BY <1>1, <1>2 DEF StacksAgree, TableType, HandType
<1>4. \/ Folds(t, u, s)
      \/ \E pay \in Int : PutsIn(t, u, s, pay)
  BY MovePays DEF PaysUp, RaisesBy
<1> HIDE DEF u
<1>5. ASSUME Folds(t, u, s)
      PROVE  Wealth(t, u) /\ u.hand.street = t.hand.street /\ u.hand.phase = t.hand.phase
  BY <1>2, <1>5 DEF Folds, OthersKeep, Wealth, InHand
<1>6. ASSUME NEW pay \in Int, PutsIn(t, u, s, pay)
      PROVE  Wealth(t, u) /\ u.hand.street = t.hand.street /\ u.hand.phase = t.hand.phase
  <2>1. /\ u.seatStack[s] = t.seatStack[s] - pay
        /\ u.hand.committed[s] = t.hand.committed[s] + pay
        /\ u.hand.status[s] # "none"
        /\ OthersKeep(t, u, s)
    BY <1>3, <1>6 DEF PutsIn
  <2>2. u.seatStack[s] + u.hand.committed[s] = t.seatStack[s] + t.hand.committed[s]
    BY <1>3, <2>1
  <2> QED BY <1>2, <2>1, <2>2 DEF OthersKeep, Wealth, InHand
<1> QED BY <1>4, <1>5, <1>6 DEF u

\* WithHand changes the hand and nothing else.
LEMMA WithHandOnly ==
    ASSUME NEW t \in TableType, NEW h
    PROVE  /\ WithHand(t, h).hand = h /\ WithHand(t, h).seatStack = t.seatStack
           /\ WithHand(t, h).seatStatus = t.seatStatus
BY DEF WithHand, TableType

\* The bets of a street and the chips behind them are left alone.
SameBets(g, h) ==
    /\ h.bet = g.bet /\ h.currentBet = g.currentBet /\ h.stack = g.stack
    /\ h.committed = g.committed /\ h.status = g.status /\ h.acted = g.acted

\* queueBettingRoundAdvance moves no chips.
LEMMA QueueMarks ==
    ASSUME NEW t \in TableType
    PROVE  LET u == Queue(t)
           IN  /\ Still(t, u) /\ SameBets(t.hand, u.hand)
               /\ u.hand.phase = t.hand.phase /\ u.hand.street = t.hand.street
               /\ u.hand.waiting
<1> DEFINE h == [t.hand EXCEPT !.waiting = TRUE, !.turn = NoSeat, !.clock = FALSE]
<1>1. CASE t.hand.waiting BY <1>1 DEF Queue, Still, SameBets
<1>2. CASE ~t.hand.waiting
  <2>1. Queue(t) = WithHand(t, h) BY <1>2 DEF Queue
  <2>2. /\ SameBets(t.hand, h) /\ h.phase = t.hand.phase /\ h.street = t.hand.street
        /\ h.waiting
    BY HandIsTyped DEF HandType, SameBets
  <2> HIDE DEF h
  <2> QED BY <2>1, <2>2, WithHandOnly DEF Still, SameBets
<1> QED BY <1>1, <1>2

\* Passing the turn moves no chips.
LEMMA PassTurnMarks ==
    ASSUME NEW t \in TableType
    PROVE  LET u == PassTurn(t)
           IN  /\ Still(t, u) /\ SameBets(t.hand, u.hand)
               /\ u.hand.phase = t.hand.phase /\ u.hand.street = t.hand.street
               /\ u.hand.waiting = t.hand.waiting
               /\ u.hand.turn = NextToAct(t.hand)
<1> DEFINE h == [t.hand EXCEPT !.turn = NextToAct(t.hand), !.clock = TRUE]
<1>1. PassTurn(t) = WithHand(t, h) BY DEF PassTurn
<1>2. /\ SameBets(t.hand, h) /\ h.phase = t.hand.phase /\ h.street = t.hand.street
      /\ h.waiting = t.hand.waiting /\ h.turn = NextToAct(t.hand)
  BY HandIsTyped DEF HandType, SameBets
<1> HIDE DEF h
<1> QED BY <1>1, <1>2, WithHandOnly DEF Still, SameBets

\* A discard moves no chips.
LEMMA DiscardsMark ==
    ASSUME NEW t \in TableType
    PROVE  /\ LET u == OpenDiscard(t)
              IN  /\ Still(t, u) /\ SameBets(t.hand, u.hand)
                  /\ u.hand.phase = "discard" /\ u.hand.waiting = t.hand.waiting
           /\ \A s \in Seats :
                 LET u == Discarded(t, s)
                 IN  /\ Still(t, u) /\ SameBets(t.hand, u.hand)
                     /\ u.hand.phase = t.hand.phase /\ u.hand.waiting = t.hand.waiting
<1>1. t.hand \in HandType BY HandIsTyped
<1>2. ASSUME NEW h, SameBets(t.hand, h), NEW u, u = WithHand(t, h)
      PROVE  Still(t, u) /\ SameBets(t.hand, u.hand) /\ u.hand = h
  BY <1>2, WithHandOnly DEF Still, SameBets
<1>3. LET u == OpenDiscard(t)
      IN  /\ Still(t, u) /\ SameBets(t.hand, u.hand)
          /\ u.hand.phase = "discard" /\ u.hand.waiting = t.hand.waiting
  <2> DEFINE owing == {r \in Contenders(t.hand) : t.hand.cards[r] > KeptCards}
             absent == {r \in owing : t.sittingOut[r]}
             cards == [r \in Seats |-> IF r \in absent THEN t.hand.cards[r] - 1
                                       ELSE t.hand.cards[r]]
             pending == owing \ absent
             h == [t.hand EXCEPT !.phase = "discard", !.clock = FALSE, !.cards = cards,
                                 !.pending = pending, !.discardClock = TRUE]
  <2>1. OpenDiscard(t) = WithHand(t, h) BY DEF OpenDiscard
  <2> HIDE DEF cards, pending
  <2>2. SameBets(t.hand, h) /\ h.phase = "discard" /\ h.waiting = t.hand.waiting
    BY <1>1 DEF HandType, SameBets
  <2> HIDE DEF h
  <2> QED BY <1>2, <2>1, <2>2
<1>4. ASSUME NEW s \in Seats
      PROVE  LET u == Discarded(t, s)
             IN  /\ Still(t, u) /\ SameBets(t.hand, u.hand)
                 /\ u.hand.phase = t.hand.phase /\ u.hand.waiting = t.hand.waiting
  <2> DEFINE h == [t.hand EXCEPT !.cards = Put(@, s, @[s] - 1), !.pending = @ \ {s}]
  <2>1. Discarded(t, s) = WithHand(t, h) BY DEF Discarded
  <2>2. SameBets(t.hand, h) /\ h.phase = t.hand.phase /\ h.waiting = t.hand.waiting
    BY <1>1 DEF HandType, SameBets
  <2> HIDE DEF h
  <2> QED BY <1>2, <2>1, <2>2
<1> QED BY <1>3, <1>4

\* A new betting round starts from no bets.
LEMMA OpenBettingMarks ==
    ASSUME NEW t \in TableType, NEW street
    PROVE  LET u == OpenBetting(t, street)
           IN  /\ Still(t, u) /\ u.hand.stack = t.hand.stack
               /\ u.hand.phase = "betting" /\ ~u.hand.waiting
               /\ u.hand.currentBet = 0
               /\ \A s \in Seats : u.hand.bet[s] = 0
<1> DEFINE none == [s \in Seats |-> 0]
           acted == [s \in Seats |-> t.hand.status[s] # "active"]
           k == [t.hand EXCEPT !.street = street, !.phase = "betting",
                               !.currentBet = 0, !.minRaise = BigBlind, !.raises = 0,
                               !.waiting = FALSE, !.clock = TRUE, !.bet = none, !.acted = acted]
           turn == SeatAfterButton(k)
           h == [k EXCEPT !.turn = turn]
<1>1. OpenBetting(t, street) = WithHand(t, h) BY DEF OpenBetting
<1>2. \A s \in Seats : none[s] = 0 OBVIOUS
<1> HIDE DEF none, acted, turn
<1>3. /\ h.committed = t.hand.committed /\ h.status = t.hand.status /\ h.stack = t.hand.stack
      /\ h.phase = "betting" /\ ~h.waiting /\ h.currentBet = 0 /\ h.bet = none
  BY HandIsTyped DEF HandType
<1> HIDE DEF h
<1> QED BY <1>1, <1>2, <1>3, WithHandOnly DEF Still

-----------------------------------------------------------------------------
(* Every operation on a hand keeps the chips, or settles the hand.          *)

\* An accepted action.
LEMMA ApplyActionPlays ==
    ASSUME NEW t \in TableType, NEW s \in Seats, NEW action \in Actions,
           BetsAreCommitted(t.hand), Chipped(t.hand), StacksAgree(t),
           Accepts(t.hand, s, action)
    PROVE  Plays(t, ApplyAction(t, s, action))
<1> DEFINE v == Move(t, s, action)
           u == ApplyAction(t, s, action)
<1>1. v \in TableType /\ Wealth(t, v) /\ v.hand.street = t.hand.street /\ Playing(v.hand)
  BY MoveKeeps, MoveKeepsWealth DEF Keeps, Accepts, OnTurn, Playing
<1>2. u = IF Alone(v.hand) THEN FinishHand(v, NoRank)
          ELSE IF RoundComplete(v.hand) THEN Queue(v) ELSE PassTurn(v)
  BY DEF ApplyAction
<1> HIDE DEF u, v
<1>3. CASE Alone(v.hand)
  <2>1. WonAlone(t, u) BY <1>1, <1>2, <1>3 DEF WonAlone
  <2> QED BY <2>1 DEF Plays, u
<1>4. CASE ~Alone(v.hand)
  <2>1. Still(v, u) /\ u.hand.phase = v.hand.phase
    BY <1>1, <1>2, <1>4, QueueMarks, PassTurnMarks
  <2>2. GoesOn(t, u) BY <1>1, <2>1, StillIsWealth, WealthThenWealth DEF GoesOn, Playing
  <2> QED BY <2>2 DEF Plays, u
<1> QED BY <1>3, <1>4

\* The hand h is at the discard of g's bets, or begins a betting round that can still be won.
Reopened(g, h) ==
    \/ h.phase = "discard" /\ SameBets(g, h)
    \/ /\ h.phase = "betting" /\ ~h.waiting
       /\ h.stack = g.stack /\ h.committed = g.committed /\ h.status = g.status
       /\ h.currentBet = 0 /\ \A s \in Seats : h.bet[s] = 0
       /\ ~BettingLocked(g)

\* A street is opened with the chips where they are.
LEMMA OpenStreetReopens ==
    ASSUME NEW t \in TableType, NEW street \in Streets, NEW cards \in Nat
    PROVE  LET u == OpenStreet(t, street, cards)
           IN  Still(t, u) /\ Reopened(t.hand, u.hand)
<1> DEFINE h == [t.hand EXCEPT !.board = @ + cards]
           g == [h EXCEPT !.street = street]
           u == OpenStreet(t, street, cards)
<1>1. t.hand \in HandType BY HandIsTyped
<1>2. h \in HandType /\ SameBets(t.hand, h) BY <1>1 DEF HandType, SameBets
<1>3. u = IF BettingLocked(h) THEN OpenDiscard(WithHand(t, g))
          ELSE OpenBetting(WithHand(t, h), street)
  BY DEF OpenStreet
<1> HIDE DEF h, u
<1>4. g \in HandType /\ SameBets(t.hand, g) BY <1>2 DEF HandType, SameBets
<1> HIDE DEF g
<1>5. BettingLocked(h) <=> BettingLocked(t.hand)
  BY <1>2 DEF SameBets, BettingLocked, Contestable, AllChips, WithChips, Active
<1>6. ASSUME NEW k \in HandType, SameBets(t.hand, k)
      PROVE  WithHand(t, k) \in TableType /\ Still(t, WithHand(t, k)) /\ WithHand(t, k).hand = k
  BY <1>6, WithHandEffect DEF Still, SameBets
<1>7. CASE BettingLocked(h)
  <2> DEFINE v == WithHand(t, g)
  <2>1. v \in TableType /\ Still(t, v) /\ v.hand = g BY <1>4, <1>6
  <2>2. u = OpenDiscard(v) BY <1>3, <1>7
  <2> HIDE DEF v
  <2>3. Still(v, u) /\ SameBets(v.hand, u.hand) /\ u.hand.phase = "discard"
    BY <2>1, <2>2, DiscardsMark
  <2>4. Still(t, u) /\ SameBets(t.hand, u.hand) BY <1>4, <2>1, <2>3 DEF Still, SameBets
  <2>5. Still(t, u) /\ Reopened(t.hand, u.hand) BY <2>3, <2>4 DEF Reopened
  <2> QED BY <2>5 DEF u
<1>8. CASE ~BettingLocked(h)
  <2> DEFINE v == WithHand(t, h)
  <2>1. v \in TableType /\ Still(t, v) /\ v.hand = h BY <1>2, <1>6
  <2>2. u = OpenBetting(v, street) BY <1>3, <1>8
  <2> HIDE DEF v
  <2>3. /\ Still(v, u) /\ u.hand.stack = v.hand.stack
        /\ u.hand.phase = "betting" /\ ~u.hand.waiting
        /\ u.hand.currentBet = 0 /\ \A s \in Seats : u.hand.bet[s] = 0
    BY <2>1, <2>2, OpenBettingMarks
  <2>4. Still(t, u) BY <2>1, <2>3 DEF Still
  <2>5. Reopened(t.hand, u.hand)
    BY <1>2, <1>5, <1>8, <2>1, <2>3, <2>4 DEF Reopened, Still, SameBets
  <2> QED BY <2>4, <2>5 DEF u
<1> QED BY <1>7, <1>8

\* A reopened hand is played.
LEMMA ReopenedIsPlayed ==
    ASSUME NEW g, NEW h, Reopened(g, h)
    PROVE  Playing(h)
BY DEF Reopened, Playing

\* completeDiscardPhase does nothing, opens a street or shows down.
LEMMA CloseDiscardPlays ==
    ASSUME NEW t \in TableType, NEW u \in CloseDiscard(t)
    PROVE  \/ u = t
           \/ t.hand.phase = "discard" /\ Still(t, u) /\ Reopened(t.hand, u.hand)
           \/ t.hand.phase = "discard" /\ ShownDown(t, u)
<1> DEFINE h == [t.hand EXCEPT !.discardClock = FALSE]
           g == [h EXCEPT !.street = "showdown"]
           v == WithHand(t, h)
           over == WithHand(t, g)
<1> SUFFICES ASSUME u # t
             PROVE  \/ t.hand.phase = "discard" /\ Still(t, u) /\ Reopened(t.hand, u.hand)
                    \/ t.hand.phase = "discard" /\ ShownDown(t, u)
  OBVIOUS
<1>1. t.hand \in HandType BY HandIsTyped
<1>2. h \in HandType /\ SameBets(t.hand, h)
      /\ g \in HandType /\ SameBets(t.hand, g) /\ g.street = "showdown"
  BY <1>1 DEF HandType, Streets, SameBets
<1>3. /\ v \in TableType /\ v.hand = h /\ Still(t, v)
      /\ over \in TableType /\ over.hand = g /\ Still(t, over)
  <2> HIDE DEF h, g
  <2> QED BY <1>2, WithHandEffect DEF Still, SameBets
<1>4. /\ t.hand.phase = "discard"
      /\ \/ \E street \in {"turn", "river"} : u = OpenStreet(v, street, 1)
         \/ \E rank \in Ranks : u = FinishHand(over, rank)
  BY DEF CloseDiscard
<1> HIDE DEF h, g, v, over
<1>5. ASSUME NEW street \in {"turn", "river"}, u = OpenStreet(v, street, 1)
      PROVE  Still(t, u) /\ Reopened(t.hand, u.hand)
  <2>1. Still(v, u) /\ Reopened(v.hand, u.hand)
    BY <1>3, <1>5, OpenStreetReopens DEF Streets
  <2>2. BettingLocked(v.hand) <=> BettingLocked(t.hand)
    BY <1>2, <1>3 DEF SameBets, BettingLocked, Contestable, AllChips, WithChips, Active
  <2> QED BY <1>2, <1>3, <2>1, <2>2 DEF Still, SameBets, Reopened
<1>6. ASSUME NEW rank \in Ranks, u = FinishHand(over, rank) PROVE ShownDown(t, u)
  BY <1>2, <1>3, <1>6 DEF ShownDown
<1> QED BY <1>4, <1>5, <1>6

\* A settled hand is not played any more.
LEMMA ShownDownIsOver ==
    ASSUME NEW t, NEW u, ShownDown(t, u)
    PROVE  u.hand.phase = "showdown"
BY FinishHandKeeps DEF ShownDown

\* And all the streets that follow by themselves.
LEMMA RunDiscardsPlays ==
    ASSUME NEW t \in TableType, NEW u \in RunDiscards(t)
    PROVE  IF Playing(t.hand) THEN (Playing(u.hand) /\ Still(t, u)) \/ ShownDown(t, u) ELSE u = t
<1> DEFINE Ran(x) == x \in TableType /\ (IF Playing(t.hand)
                                         THEN (Playing(x.hand) /\ Still(t, x)) \/ ShownDown(t, x)
                                         ELSE x = t)
<1>1. PICK v \in CloseDiscard(t) : \E w \in CloseDiscard(v) : u \in CloseDiscard(w)
  BY DEF RunDiscards
<1>2. PICK w \in CloseDiscard(v) : u \in CloseDiscard(w) BY <1>1
<1>3. ASSUME NEW x, Ran(x), NEW y \in CloseDiscard(x) PROVE Ran(y)
  <2>1. y \in TableType BY <1>3, CloseDiscardKeeps DEF Keeps
  <2>2. \/ y = x
        \/ x.hand.phase = "discard" /\ Still(x, y) /\ Playing(y.hand)
        \/ x.hand.phase = "discard" /\ ShownDown(x, y)
    BY <1>3, CloseDiscardPlays, ReopenedIsPlayed
  <2>3. CASE y = x BY <1>3, <2>3
  <2>4. CASE y # x
    <3>1. x.hand.phase = "discard" BY <2>2, <2>4
    <3>2. Playing(t.hand) /\ Still(t, x) BY <1>3, <3>1, ShownDownIsOver DEF Playing
    <3>3. CASE Still(x, y) /\ Playing(y.hand) BY <2>1, <3>2, <3>3 DEF Still
    <3>4. CASE ShownDown(x, y)
      <4>1. PICK z \in TableType, rank \in Ranks :
               y = FinishHand(z, rank) /\ Still(x, z) /\ z.hand.street = "showdown"
        BY <3>4 DEF ShownDown
      <4>2. Still(t, z) BY <3>2, <4>1 DEF Still
      <4> QED BY <2>1, <3>2, <4>1, <4>2 DEF ShownDown
    <3> QED BY <2>2, <2>4, <3>3, <3>4
  <2> QED BY <2>3, <2>4
<1>4. Ran(t) BY DEF Still
<1> HIDE DEF Ran
<1>5. Ran(v) BY <1>3, <1>4
<1>6. Ran(w) BY <1>2, <1>3, <1>5
<1>7. Ran(u) BY <1>2, <1>3, <1>6
<1> QED BY <1>7 DEF Ran

\* The discards that follow an operation that moves no chips.
LEMMA StillThenRunDiscards ==
    ASSUME NEW t, NEW v \in TableType, Still(t, v), Playing(v.hand), NEW u \in RunDiscards(v)
    PROVE  Plays(t, u)
<1>1. CASE Playing(u.hand) /\ Still(v, u)
  <2>1. Still(t, u) BY <1>1 DEF Still
  <2> QED BY <1>1, <2>1, StillIsWealth DEF Plays, GoesOn
<1>2. CASE ShownDown(v, u)
  <2>1. PICK z \in TableType, rank \in Ranks :
           u = FinishHand(z, rank) /\ Still(v, z) /\ z.hand.street = "showdown"
    BY <1>2 DEF ShownDown
  <2>2. Still(t, z) BY <2>1 DEF Still
  <2> QED BY <2>1, <2>2 DEF Plays, ShownDown
<1> QED BY <1>1, <1>2, RunDiscardsPlays

\* advancePendingPhase, for a hand that is played.
LEMMA AdvancePendingPhasePlays ==
    ASSUME NEW t \in TableType, Playing(t.hand), NEW u \in AdvancePendingPhase(t)
    PROVE  Plays(t, u)
<1> DEFINE h == [t.hand EXCEPT !.waiting = FALSE]
           g == [h EXCEPT !.clock = FALSE]
           v == WithHand(t, g)
           w == WithHand(t, h)
<1>1. t.hand \in HandType BY HandIsTyped
<1>2. /\ h \in HandType /\ SameBets(t.hand, h) /\ h.phase = t.hand.phase
      /\ g \in HandType /\ SameBets(t.hand, g) /\ g.phase = t.hand.phase
  BY <1>1 DEF HandType, SameBets
<1>3. \/ u = w
      \/ u \in RunDiscards(OpenStreet(v, "flop", 3))
      \/ u \in RunDiscards(OpenDiscard(v))
  BY DEF AdvancePendingPhase
<1> HIDE DEF h, g
<1>4. /\ v \in TableType /\ Still(t, v) /\ v.hand = g
      /\ w \in TableType /\ Still(t, w) /\ w.hand = h
  BY <1>2, WithHandEffect DEF Still, SameBets
<1> HIDE DEF v, w
<1>5. CASE u = w
  BY <1>2, <1>4, <1>5, StillIsWealth DEF Plays, GoesOn, Playing
<1>6. CASE u \in RunDiscards(OpenStreet(v, "flop", 3))
  <2> DEFINE x == OpenStreet(v, "flop", 3)
  <2>1. Still(v, x) /\ Playing(x.hand) BY <1>4, OpenStreetReopens, ReopenedIsPlayed DEF Streets
  <2>2. x \in TableType
    <3>1. Playing(v.hand) BY <1>2, <1>4 DEF Playing
    <3> QED BY <1>4, <3>1, OpenStreetKeeps DEF Keeps, Streets
  <2> HIDE DEF x
  <2>3. Still(t, x) BY <1>4, <2>1 DEF Still
  <2> QED BY <1>6, <2>1, <2>2, <2>3, StillThenRunDiscards DEF x
<1>7. CASE u \in RunDiscards(OpenDiscard(v))
  <2> DEFINE x == OpenDiscard(v)
  <2>1. Still(v, x) BY <1>4, DiscardsMark
  <2>2. x \in TableType /\ Playing(x.hand)
    <3>1. Playing(v.hand) BY <1>2, <1>4 DEF Playing
    <3> QED BY <1>4, <3>1, OpenDiscardKeeps DEF Keeps
  <2> HIDE DEF x
  <2>3. Still(t, x) BY <1>4, <2>1 DEF Still
  <2> QED BY <1>7, <2>2, <2>3, StillThenRunDiscards DEF x
<1> QED BY <1>3, <1>5, <1>6, <1>7

\* applyDiscard.
LEMMA ApplyDiscardPlays ==
    ASSUME NEW t \in TableType, NEW s \in Seats, Playing(t.hand), NEW u \in ApplyDiscard(t, s)
    PROVE  Plays(t, u)
<1> DEFINE v == Discarded(t, s)
<1>1. v \in TableType BY DiscardedKeeps DEF Keeps
<1>2. Still(t, v) /\ v.hand.phase = t.hand.phase BY DiscardsMark
<1>3. u \in RunDiscards(v) BY DEF ApplyDiscard
<1> HIDE DEF v
<1> QED BY <1>1, <1>2, <1>3, StillThenRunDiscards DEF Playing

\* autoDiscard.
LEMMA AutoDiscardPlays ==
    ASSUME NEW t \in TableType, Playing(t.hand), NEW u \in AutoDiscard(t)
    PROVE  Plays(t, u)
<1> DEFINE cards == [s \in Seats |-> IF s \in t.hand.pending THEN t.hand.cards[s] - 1
                                     ELSE t.hand.cards[s]]
           h == [t.hand EXCEPT !.cards = cards, !.pending = {}]
           v == WithHand(t, h)
<1>1. t.hand \in HandType BY HandIsTyped
<1>2. cards \in [Seats -> Int] BY <1>1, CardsType
<1>3. u \in RunDiscards(v) BY DEF AutoDiscard
<1> HIDE DEF cards
<1>4. h \in HandType /\ SameBets(t.hand, h) /\ h.phase = t.hand.phase
  BY <1>1, <1>2 DEF HandType, SameBets
<1> HIDE DEF h
<1>5. v \in TableType /\ Still(t, v) /\ v.hand = h BY <1>4, WithHandEffect DEF Still, SameBets
<1> HIDE DEF v
<1>6. Playing(v.hand) BY <1>4, <1>5 DEF Playing
<1> QED BY <1>3, <1>5, <1>6, StillThenRunDiscards

-----------------------------------------------------------------------------
(* The way round the table.                                                 *)

\* Remainders of numbers that are off by less than the divisor.
LEMMA SmallRemainders ==
    ASSUME NEW n \in Nat \ {0}, NEW a \in Int, 0 - n <= a, a < n
    PROVE  a % n = IF a < 0 THEN a + n ELSE a
<1> DEFINE q == a \div n
           r == a % n
<1>1. a = n * q + r /\ r \in 0 .. n - 1 /\ q \in Int OBVIOUS
<1> HIDE DEF q, r
<1>2. q = IF a < 0 THEN -1 ELSE 0
  <2>1. CASE q >= 1
    <3>1. n * (q - 1) >= 0 /\ n * (q - 1) = n * q - n BY <1>1, <2>1
    <3> QED BY <1>1, <3>1
  <2>2. CASE q <= -2
    <3>1. n * (q + 2) <= 0 /\ n * (q + 2) = n * q + 2 * n BY <1>1, <2>2
    <3> QED BY <1>1, <3>1
  <2>3. CASE q = 0 BY <1>1, <2>3
  <2>4. CASE q = -1 BY <1>1, <2>4
  <2> QED BY <1>1, <2>1, <2>2, <2>3, <2>4
<1> QED BY <1>1, <1>2 DEF r

\* The distance from one seat to another.
LEMMA DistanceForm ==
    ASSUME NEW a \in Seats, NEW b \in Seats
    PROVE  Distance(a, b) = IF b > a THEN b - a - 1 ELSE b - a - 1 + NumSeats
<1>1. NumSeats \in Nat \ {0} BY NumSeatsAssumption
<1>2. a \in Int /\ b \in Int /\ 0 <= a /\ a < NumSeats /\ 0 <= b /\ b < NumSeats
  BY <1>1 DEF Seats
<1>3. b - a - 1 \in Int /\ 0 - NumSeats <= b - a - 1 /\ b - a - 1 < NumSeats BY <1>1, <1>2
<1>4. (b - a - 1) % NumSeats = IF b - a - 1 < 0 THEN b - a - 1 + NumSeats ELSE b - a - 1
  BY <1>1, <1>3, SmallRemainders
<1> QED BY <1>1, <1>2, <1>4 DEF Distance

\* Different seats are at different distances, a seat itself comes last, and what comes
\* after n on the way round from a comes in the same order from n.
LEMMA Distances ==
    ASSUME NEW a \in Seats, NEW n \in Seats, NEW x \in Seats
    PROVE  /\ Distance(a, x) \in Nat /\ Distance(a, n) \in Nat /\ Distance(n, x) \in Nat
           /\ Distance(a, x) = Distance(a, n) => x = n
           /\ Distance(a, x) <= Distance(a, a)
           /\ Distance(a, n) < Distance(a, x) =>
                 Distance(n, x) = Distance(a, x) - Distance(a, n) - 1
<1>1. NumSeats \in Nat \ {0} BY NumSeatsAssumption
<1>2. /\ a \in Int /\ 0 <= a /\ a < NumSeats
      /\ n \in Int /\ 0 <= n /\ n < NumSeats
      /\ x \in Int /\ 0 <= x /\ x < NumSeats
  BY <1>1 DEF Seats
<1>3. /\ Distance(a, x) = IF x > a THEN x - a - 1 ELSE x - a - 1 + NumSeats
      /\ Distance(a, n) = IF n > a THEN n - a - 1 ELSE n - a - 1 + NumSeats
      /\ Distance(n, x) = IF x > n THEN x - n - 1 ELSE x - n - 1 + NumSeats
      /\ Distance(a, a) = NumSeats - 1
  BY <1>1, <1>2, DistanceForm
<1> QED BY <1>1, <1>2, <1>3

\* The first of S after a is in S, and no seat of S comes before it.
LEMMA FirstAfterIsFirst ==
    ASSUME NEW a \in Seats, NEW S \in SUBSET Seats, S # {}
    PROVE  /\ FirstAfter(a, S) \in S
           /\ \A x \in S : x # FirstAfter(a, S) => Distance(a, FirstAfter(a, S)) < Distance(a, x)
<1> DEFINE D == {Distance(a, s) : s \in S}
           first == FirstAfter(a, S)
<1>1. D \in SUBSET Nat /\ D # {} BY Distances
<1>2. \E x \in D : \A y \in D : x <= y
  <2> HIDE DEF D
  <2> QED BY <1>1, LeastNatural
<1>3. \E s \in S : \A r \in S : Distance(a, s) <= Distance(a, r) BY <1>2
<1>4. first \in S /\ \A r \in S : Distance(a, first) <= Distance(a, r)
  BY <1>3 DEF FirstAfter
<1> HIDE DEF first
<1>5. ASSUME NEW x \in S, x # first PROVE Distance(a, first) < Distance(a, x)
  <2>1. Distance(a, first) \in Nat /\ Distance(a, x) \in Nat
        /\ (Distance(a, x) = Distance(a, first) => x = first)
    BY <1>4, Distances
  <2> QED BY <1>4, <1>5, <2>1
<1> QED BY <1>4, <1>5 DEF first

\* Who is first after a seat of S is another one, if there is another one.
LEMMA AnotherIsFirst ==
    ASSUME NEW a \in Seats, NEW S \in SUBSET Seats, NEW x \in S, x # a
    PROVE  FirstAfter(a, S) # a
<1>1. FirstAfter(a, S) \in S BY FirstAfterIsFirst
<1>2. FirstAfter(a, S) # x => Distance(a, FirstAfter(a, S)) < Distance(a, x)
  BY FirstAfterIsFirst
<1>3. Distance(a, x) \in Nat /\ Distance(a, a) \in Nat /\ Distance(a, x) <= Distance(a, a)
  BY Distances
<1> QED BY <1>1, <1>2, <1>3

-----------------------------------------------------------------------------
(* The deal.                                                                *)

\* In u a hand has been dealt to the ready seats of t, and the blinds are posted.
DealtOut(t, u, sb, bb) ==
    /\ sb \in Ready(t) /\ bb \in Ready(t) /\ sb # bb
    /\ u.seatStatus = t.seatStatus
    /\ u.hand.phase = "betting" /\ u.hand.street = "preflop" /\ ~u.hand.waiting
    /\ \A r \in Seats :
          /\ u.hand.bet[r] = IF r = sb THEN AtMost(SmallBlind, t.seatStack[r])
                             ELSE IF r = bb THEN AtMost(BigBlind, t.seatStack[r]) ELSE 0
          /\ u.hand.committed[r] = u.hand.bet[r]
          /\ u.seatStack[r] = t.seatStack[r] - u.hand.bet[r]
          /\ u.hand.status[r] = IF r \notin Ready(t) THEN "none"
                                ELSE IF u.hand.bet[r] = t.seatStack[r] THEN "allIn" ELSE "active"
    /\ u.hand.currentBet = u.hand.bet[bb]

\* The blinds u of a heads-up hand are the button's and the other's, and else the order
\* is button, small blind, big blind, first to act.
FirstToAct(t, u, sb, bb) ==
    /\ bb = FirstAfter(sb, Ready(t))
    /\ Active(u.hand) # {} =>
          u.hand.turn = IF Cardinality(Ready(t)) = 2 THEN sb ELSE FirstAfter(bb, Active(u.hand))

\* startHand deals, posts the blinds and gives the turn.
LEMMA StartHandDeals ==
    ASSUME NEW t \in TableType, ~(Cardinality(Ready(t)) < MinPlayers)
    PROVE  \E sb, bb \in Seats :
              DealtOut(t, StartHand(t), sb, bb) /\ FirstToAct(t, StartHand(t), sb, bb)
<1> DEFINE in == Ready(t)
           headsUp == Cardinality(in) = 2
           button == FirstAfter(t.button, in)
           sb == IF headsUp THEN button ELSE FirstAfter(button, in)
           bb == FirstAfter(sb, in)
           d == Deal(t, in, button)
           v == CommitBet(d, sb, SmallBlind)
           w == CommitBet(v, bb, BigBlind)
           k == [w.hand EXCEPT !.currentBet = AtMost(BigBlind, w.hand.bet[bb])]
           p == WithHand(w, k)
           first == IF headsUp \/ Active(p.hand) = {} THEN button
                    ELSE FirstAfter(bb, Active(p.hand))
           g == [p.hand EXCEPT !.turn = first]
           u == WithHand(p, g)
<1>1. StartHand(t) = u BY DEF StartHand, PostBlinds
<1>2. in \in SUBSET Seats /\ \A s \in in : t.seatStatus[s] # "empty" /\ t.seatStack[s] > 0
  BY DEF Ready
<1>3. in # {} BY FS_EmptySet DEF MinPlayers
<1>4. t.button \in Seats \cup {NoSeat} BY DEF TableType
<1>5. \A a \in Seats : \E x \in in : x # a
  <2> SUFFICES ASSUME NEW a \in Seats, in \subseteq {a} PROVE FALSE OBVIOUS
  <2>1. in = {a} BY <1>3
  <2>2. Cardinality(in) = 1
    <3> HIDE DEF in
    <3> QED BY <2>1, FS_Singleton
  <2> QED BY <2>2 DEF MinPlayers
<1>6. \A r \in Seats : t.seatStack[r] \in Nat BY DEF TableType
<1> HIDE DEF in
<1>7. button \in in /\ button \in Seats BY <1>2, <1>3, <1>4, FirstAfterIsOne
<1> HIDE DEF button
<1>8. sb \in in /\ sb \in Seats /\ (headsUp => sb = button) BY <1>2, <1>3, <1>7, FirstAfterIsOne
<1> HIDE DEF sb, headsUp
<1>9. bb \in in /\ bb \in Seats /\ bb # sb
  <2>1. bb \in in /\ bb \in Seats BY <1>2, <1>3, <1>8, FirstAfterIsOne
  <2>2. bb # sb BY <1>2, <1>5, <1>8, AnotherIsFirst
  <2> QED BY <2>1, <2>2
<1>10. bb = FirstAfter(sb, in) OBVIOUS
<1> HIDE DEF bb
<1>11. /\ d \in TableType /\ Playing(d.hand) /\ Fresh(d) /\ BetsAreCommitted(d.hand)
  BY <1>2, <1>7, DealFollows
<1>12. /\ d.seatStack = t.seatStack /\ d.seatStatus = t.seatStatus
       /\ d.hand.phase = "betting" /\ d.hand.street = "preflop" /\ ~d.hand.waiting
       /\ \A r \in Seats :
             /\ d.hand.bet[r] = 0 /\ d.hand.committed[r] = 0
             /\ d.hand.stack[r] = IF r \in in THEN t.seatStack[r] ELSE 0
             /\ d.hand.status[r] = IF r \in in THEN "active" ELSE "none"
  <2> DEFINE status == [s \in Seats |-> IF s \in in THEN "active" ELSE "none"]
             stack == [s \in Seats |-> IF s \in in THEN t.seatStack[s] ELSE 0]
             cards == [s \in Seats |-> IF s \in in THEN HoleCards ELSE 0]
             none == [s \in Seats |-> 0]
             h == [NullHand EXCEPT !.phase = "betting", !.button = button, !.status = status,
                                   !.stack = stack, !.cards = cards, !.clock = TRUE]
             dealt == [t EXCEPT !.gateOpen = FALSE, !.gateReady = {}, !.button = button, !.hand = h]
  <2>1. d = dealt BY DEF Deal, NewHand
  <2>2. \A r \in Seats : /\ status[r] = IF r \in in THEN "active" ELSE "none"
                         /\ stack[r] = IF r \in in THEN t.seatStack[r] ELSE 0
                         /\ none[r] = 0
    OBVIOUS
  <2>3. NullHand.bet = none /\ NullHand.committed = none BY DEF NullHand
  <2> HIDE DEF status, stack, cards, none
  <2>4. /\ h.status = status /\ h.stack = stack /\ h.bet = none /\ h.committed = none
        /\ h.phase = "betting" /\ h.street = "preflop" /\ ~h.waiting
    BY <2>3 DEF NullHand
  <2> HIDE DEF h
  <2>5. /\ dealt.hand = h /\ dealt.seatStatus = t.seatStatus
        /\ dealt.seatStack = t.seatStack
    BY DEF TableType
  <2> QED BY <2>1, <2>2, <2>4, <2>5
<1> HIDE DEF d
<1>13. v \in TableType /\ Playing(v.hand) /\ Fresh(v) /\ BetsAreCommitted(v.hand)
  BY <1>8, <1>11, BlindsAssumption, CommitBetFresh
<1>14. PutsIn(d, v, sb, AtMost(SmallBlind, t.seatStack[sb]))
  <2>1. d.hand.stack[sb] = t.seatStack[sb] /\ d.hand.status[sb] = "active" BY <1>8, <1>12
  <2>2. SmallBlind \in Int BY BlindsAssumption
  <2> QED BY <1>8, <1>11, <2>1, <2>2, CommitBetPays
<1> HIDE DEF v
<1>15. w \in TableType BY <1>9, <1>13, BlindsAssumption, CommitBetFresh
<1>16. PutsIn(v, w, bb, AtMost(BigBlind, t.seatStack[bb]))
  <2>1. v.hand.stack[bb] = t.seatStack[bb] /\ v.hand.status[bb] = "active"
    BY <1>9, <1>12, <1>14 DEF PutsIn, OthersKeep
  <2>2. BigBlind \in Int BY BlindsAssumption
  <2> QED BY <1>9, <1>13, <2>1, <2>2, CommitBetPays
<1> HIDE DEF w
<1>17. w.hand \in HandType BY <1>15, HandIsTyped
<1>18. /\ k \in HandType /\ k.currentBet = AtMost(BigBlind, w.hand.bet[bb])
       /\ k.bet = w.hand.bet /\ k.stack = w.hand.stack /\ k.committed = w.hand.committed
       /\ k.status = w.hand.status /\ k.phase = w.hand.phase /\ k.street = w.hand.street
       /\ k.waiting = w.hand.waiting
  <2>1. AtMost(BigBlind, w.hand.bet[bb]) \in Nat
    BY <1>9, <1>17, BlindsAssumption DEF HandType, AtMost
  <2> QED BY <1>17, <2>1 DEF HandType
<1> HIDE DEF k
<1>19. /\ p \in TableType /\ p.hand = k /\ p.seatStack = w.seatStack
       /\ p.seatStatus = w.seatStatus
  BY <1>15, <1>18, WithHandEffect
<1> HIDE DEF p, first
<1>20. /\ g.turn = first /\ g.currentBet = k.currentBet /\ g.bet = k.bet
       /\ g.stack = k.stack /\ g.committed = k.committed /\ g.status = k.status
       /\ g.phase = k.phase /\ g.street = k.street /\ g.waiting = k.waiting
  BY <1>18, <1>19 DEF HandType
<1> HIDE DEF g
<1>21. u.hand = g /\ u.seatStack = p.seatStack /\ u.seatStatus = p.seatStatus
  BY <1>19, WithHandOnly
<1> HIDE DEF u
<1>22. /\ u.seatStatus = t.seatStatus
       /\ u.hand.phase = "betting" /\ u.hand.street = "preflop" /\ ~u.hand.waiting
       /\ u.hand.bet = w.hand.bet /\ u.hand.committed = w.hand.committed
       /\ u.hand.status = w.hand.status /\ u.seatStack = w.seatStack
       /\ u.hand.currentBet = AtMost(BigBlind, w.hand.bet[bb]) /\ u.hand.turn = first
  BY <1>12, <1>14, <1>16, <1>18, <1>19, <1>20, <1>21 DEF PutsIn, OthersKeep
<1>23. /\ t.seatStack[sb] \in Nat /\ t.seatStack[sb] > 0
       /\ t.seatStack[bb] \in Nat /\ t.seatStack[bb] > 0
       /\ SmallBlind \in Nat /\ BigBlind \in Nat
  BY <1>2, <1>6, <1>8, <1>9, BlindsAssumption
<1>24. /\ d.hand.bet[sb] = 0 /\ d.hand.committed[sb] = 0
       /\ d.hand.stack[sb] = t.seatStack[sb] /\ d.seatStack[sb] = t.seatStack[sb]
       /\ d.hand.bet[bb] = 0 /\ d.hand.committed[bb] = 0
       /\ d.hand.stack[bb] = t.seatStack[bb] /\ d.seatStack[bb] = t.seatStack[bb]
  BY <1>8, <1>9, <1>12
<1>25. LET pay == AtMost(SmallBlind, t.seatStack[sb])
       IN  /\ w.hand.bet[sb] = pay /\ w.hand.committed[sb] = pay
           /\ w.seatStack[sb] = t.seatStack[sb] - pay
           /\ w.hand.status[sb] = IF pay = t.seatStack[sb] THEN "allIn" ELSE "active"
  <2> DEFINE pay == AtMost(SmallBlind, t.seatStack[sb])
  <2>1. pay \in Nat BY <1>23 DEF AtMost
  <2>2. /\ v.hand.bet[sb] = 0 + pay /\ v.hand.committed[sb] = 0 + pay
        /\ v.seatStack[sb] = t.seatStack[sb] - pay
        /\ v.hand.status[sb] = IF t.seatStack[sb] = pay THEN "allIn" ELSE "active"
    BY <1>14, <1>24 DEF PutsIn
  <2>3. /\ w.hand.bet[sb] = v.hand.bet[sb] /\ w.hand.committed[sb] = v.hand.committed[sb]
        /\ w.seatStack[sb] = v.seatStack[sb] /\ w.hand.status[sb] = v.hand.status[sb]
    BY <1>8, <1>9, <1>16 DEF PutsIn, OthersKeep
  <2> HIDE DEF pay
  <2>4. /\ w.hand.bet[sb] = pay /\ w.hand.committed[sb] = pay
        /\ w.seatStack[sb] = t.seatStack[sb] - pay
        /\ w.hand.status[sb] = IF pay = t.seatStack[sb] THEN "allIn" ELSE "active"
    BY <2>1, <2>2, <2>3
  <2> QED BY <2>4 DEF pay
<1>26. LET pay == AtMost(BigBlind, t.seatStack[bb])
       IN  /\ w.hand.bet[bb] = pay /\ w.hand.committed[bb] = pay
           /\ w.seatStack[bb] = t.seatStack[bb] - pay
           /\ w.hand.status[bb] = IF pay = t.seatStack[bb] THEN "allIn" ELSE "active"
           /\ u.hand.currentBet = pay
  <2> DEFINE pay == AtMost(BigBlind, t.seatStack[bb])
  <2>1. pay \in Nat /\ pay <= BigBlind BY <1>23 DEF AtMost
  <2>2. /\ v.hand.bet[bb] = 0 /\ v.hand.committed[bb] = 0
        /\ v.seatStack[bb] = t.seatStack[bb] /\ v.hand.stack[bb] = t.seatStack[bb]
    BY <1>9, <1>14, <1>24 DEF PutsIn, OthersKeep
  <2>3. /\ w.hand.bet[bb] = 0 + pay /\ w.hand.committed[bb] = 0 + pay
        /\ w.seatStack[bb] = t.seatStack[bb] - pay
        /\ w.hand.status[bb] = IF t.seatStack[bb] = pay THEN "allIn" ELSE "active"
    BY <1>16, <2>2 DEF PutsIn
  <2> HIDE DEF pay
  <2>4. w.hand.bet[bb] = pay BY <2>1, <2>3
  <2>5. AtMost(BigBlind, w.hand.bet[bb]) = pay BY <1>23, <2>1, <2>4 DEF AtMost
  <2>6. /\ w.hand.bet[bb] = pay /\ w.hand.committed[bb] = pay
        /\ w.seatStack[bb] = t.seatStack[bb] - pay
        /\ w.hand.status[bb] = IF pay = t.seatStack[bb] THEN "allIn" ELSE "active"
        /\ u.hand.currentBet = pay
    BY <1>22, <2>1, <2>3, <2>4, <2>5
  <2> QED BY <2>6 DEF pay
<1>27. ASSUME NEW r \in Seats, r # sb, r # bb
       PROVE  /\ w.hand.bet[r] = 0 /\ w.hand.committed[r] = 0
              /\ w.seatStack[r] = t.seatStack[r]
              /\ w.hand.status[r] = IF r \in in THEN "active" ELSE "none"
  <2>1. /\ v.hand.bet[r] = 0 /\ v.hand.committed[r] = 0 /\ v.seatStack[r] = t.seatStack[r]
        /\ v.hand.status[r] = IF r \in in THEN "active" ELSE "none"
    BY <1>12, <1>14, <1>27 DEF PutsIn, OthersKeep
  <2>2. /\ w.hand.bet[r] = v.hand.bet[r] /\ w.hand.committed[r] = v.hand.committed[r]
        /\ w.seatStack[r] = v.seatStack[r] /\ w.hand.status[r] = v.hand.status[r]
    BY <1>16, <1>27 DEF PutsIn, OthersKeep
  <2> QED BY <2>1, <2>2
<1>28. DealtOut(t, u, sb, bb)
  <2>1. ASSUME NEW r \in Seats
        PROVE  /\ u.hand.bet[r] = IF r = sb THEN AtMost(SmallBlind, t.seatStack[r])
                                  ELSE IF r = bb THEN AtMost(BigBlind, t.seatStack[r]) ELSE 0
               /\ u.hand.committed[r] = u.hand.bet[r]
               /\ u.seatStack[r] = t.seatStack[r] - u.hand.bet[r]
               /\ u.hand.status[r] = IF r \notin in THEN "none"
                                     ELSE IF u.hand.bet[r] = t.seatStack[r] THEN "allIn"
                                          ELSE "active"
    <3>1. CASE r = sb BY <1>8, <1>22, <1>25, <3>1
    <3>2. CASE r = bb BY <1>9, <1>22, <1>26, <3>2
    <3>3. CASE r # sb /\ r # bb
      <4>1. /\ u.hand.bet[r] = 0 /\ u.hand.committed[r] = 0
            /\ u.seatStack[r] = t.seatStack[r]
            /\ u.hand.status[r] = IF r \in in THEN "active" ELSE "none"
        BY <1>22, <1>27, <3>3
      <4>2. t.seatStack[r] \in Nat /\ (r \in in => t.seatStack[r] > 0) BY <1>2, <1>6
      <4> QED BY <3>3, <4>1, <4>2
    <3> QED BY <3>1, <3>2, <3>3
  <2>2. u.hand.currentBet = u.hand.bet[bb] BY <1>22, <1>26
  <2>3. sb \in Ready(t) /\ bb \in Ready(t) BY <1>8, <1>9 DEF in
  <2>4. \A r \in Seats : r \in in <=> r \in Ready(t) BY DEF in
  <2> QED BY <1>9, <1>22, <2>1, <2>2, <2>3, <2>4 DEF DealtOut
<1>29. FirstToAct(t, u, sb, bb)
  <2>1. Active(u.hand) = Active(p.hand) BY <1>19, <1>20, <1>21 DEF Active
  <2>2. headsUp <=> Cardinality(Ready(t)) = 2 BY DEF headsUp, in
  <2>3. Active(u.hand) # {} => u.hand.turn = IF headsUp THEN sb ELSE FirstAfter(bb, Active(u.hand))
    BY <1>8, <1>22, <2>1 DEF first
  <2>4. bb = FirstAfter(sb, Ready(t)) BY <1>10 DEF in
  <2> QED BY <2>2, <2>3, <2>4 DEF FirstToAct
<1> QED BY <1>1, <1>8, <1>9, <1>28, <1>29 DEF u

-----------------------------------------------------------------------------
(* The settlement.                                                          *)

\* finishHand pays the awards to the seats, and shows them in the hand.
LEMMA FinishHandPays ==
    ASSUME NEW t \in TableType, NEW rank
    PROVE  LET u == FinishHand(t, rank)
           IN  /\ u.hand.phase = "showdown" /\ u.hand.street = t.hand.street
               /\ u.hand.committed = t.hand.committed
               /\ \A s \in Seats :
                     /\ u.seatStack[s] = t.seatStack[s] + Award(t.hand, rank, s)
                     /\ u.hand.stack[s] = IF InHand(t, s) THEN u.seatStack[s] ELSE 0
                     /\ u.hand.status[s] = "none" <=> t.hand.status[s] = "none"
<1> DEFINE h == t.hand
           stack == [r \in Seats |-> t.seatStack[r] + Award(h, rank, r)]
           broke == {r \in Dealt(h) : stack[r] = 0}
           stay == {r \in Dealt(h) : stack[r] > 0 /\ ~t.sittingOut[r]
                                     /\ t.seatStatus[r] # "sitting_out"}
           handStack == [r \in Seats |-> IF r \in Dealt(h) THEN stack[r] ELSE 0]
           status == [r \in Seats |-> IF r \in broke THEN "busted" ELSE h.status[r]]
           acted == [r \in Seats |-> r \in broke \/ h.acted[r]]
           settled == [h EXCEPT !.phase = "showdown", !.clock = FALSE, !.stack = handStack,
                                !.status = status, !.acted = acted]
           seatStatus == [r \in Seats |-> IF r \in broke THEN "busted"
                                          ELSE IF r \in stay THEN "active" ELSE t.seatStatus[r]]
           sittingOut == [r \in Seats |-> r \in broke \/ t.sittingOut[r]]
           u == [t EXCEPT !.seatStack = stack, !.seatStatus = seatStatus,
                          !.sittingOut = sittingOut, !.hand = settled]
<1>1. FinishHand(t, rank) = u BY DEF FinishHand
<1>2. h \in HandType BY HandIsTyped
<1>3. \A s \in Seats : stack[s] = t.seatStack[s] + Award(h, rank, s) OBVIOUS
<1> HIDE DEF stack
<1>4. \A s \in Seats : /\ handStack[s] = IF InHand(t, s) THEN stack[s] ELSE 0
                       /\ status[s] = "none" <=> h.status[s] = "none"
  BY DEF Dealt, InHand
<1> HIDE DEF status, seatStatus, sittingOut, handStack, acted, broke, stay
<1>5. /\ settled.phase = "showdown" /\ settled.status = status /\ settled.street = h.street
      /\ settled.committed = h.committed /\ settled.stack = handStack
  BY <1>2 DEF HandType
<1> HIDE DEF settled
<1>6. u.seatStack = stack /\ u.hand = settled BY DEF TableType
<1> HIDE DEF u
<1> QED BY <1>1, <1>3, <1>4, <1>5, <1>6

\* What there is at each seat, with what its player has in the pot of a hand that is played.
Worth(t) == [s \in Seats |-> t.seatStack[s] + (IF Playing(t.hand) THEN t.hand.committed[s] ELSE 0)]

\* Chips on the table are those of the stacks and those of the pot.
LEMMA WorthCounts ==
    ASSUME NEW t \in TableType
    PROVE  /\ Worth(t) \in [Seats -> Nat]
           /\ Total(Worth(t)) = Total(t.seatStack)
                                + (IF Playing(t.hand) THEN Total(t.hand.committed) ELSE 0)
<1>1. t.hand \in HandType BY HandIsTyped
<1>2. t.seatStack \in [Seats -> Nat] /\ t.hand.committed \in [Seats -> Nat]
  BY <1>1 DEF TableType, HandType
<1>3. Worth(t) \in [Seats -> Nat] BY <1>2 DEF Worth
<1>4. CASE Playing(t.hand)
  <2>1. Worth(t) = [s \in Seats |-> t.seatStack[s] + t.hand.committed[s]] BY <1>4 DEF Worth
  <2> QED BY <1>2, <1>3, <1>4, <2>1, SeatsFinite, TotalsAdd
<1>5. CASE ~Playing(t.hand)
  <2>1. Worth(t) = [s \in Seats |-> t.seatStack[s]] BY <1>2, <1>5 DEF Worth
  <2>2. Worth(t) = t.seatStack BY <1>2, <2>1
  <2>3. Total(t.seatStack) \in Nat BY <1>2, SeatsFinite, TotalType
  <2> QED BY <1>3, <1>5, <2>2, <2>3
<1> QED BY <1>4, <1>5

\* A hand whose pot is all awarded is settled without a loss.
LEMMA SettledWhole ==
    ASSUME NEW t \in TableType, Playing(t.hand), NEW v \in TableType, NEW rank, Wealth(t, v),
           Total(Awards(v.hand, rank)) = Total(v.hand.committed)
    PROVE  Total(Worth(FinishHand(v, rank))) = Total(Worth(t))
<1> DEFINE u == FinishHand(v, rank)
           paid == Awards(v.hand, rank)
<1>1. v.hand \in HandType /\ t.hand \in HandType BY HandIsTyped
<1>2. /\ v.seatStack \in [Seats -> Nat] /\ v.hand.committed \in [Seats -> Nat]
  BY <1>1 DEF TableType, HandType
<1>3. paid \in [Seats -> Nat] BY <1>1, AwardType DEF Awards
<1>4. u.hand.phase = "showdown" /\ \A s \in Seats : u.seatStack[s] = v.seatStack[s] + paid[s]
  BY FinishHandPays DEF Awards
<1> HIDE DEF paid, u
<1>5. Worth(u) = [s \in Seats |-> v.seatStack[s] + paid[s]]
  <2>1. \A s \in Seats : v.seatStack[s] + paid[s] + 0 = v.seatStack[s] + paid[s] BY <1>2, <1>3
  <2> QED BY <1>4, <2>1 DEF Worth, Playing
<1>6. Worth(t) = [s \in Seats |-> v.seatStack[s] + v.hand.committed[s]]
  BY DEF Worth, Wealth
<1>7. /\ Total(Worth(u)) = Total(v.seatStack) + Total(paid)
      /\ Total(Worth(t)) = Total(v.seatStack) + Total(v.hand.committed)
  BY <1>2, <1>3, <1>5, <1>6, SeatsFinite, TotalsAdd
<1> QED BY <1>7 DEF u, paid

\* Whoever shows down is not alone.
LEMMA PromisingIsNotAlone ==
    ASSUME NEW t, Playing(t.hand), Promising(t)
    PROVE  ~Alone(t.hand)
BY DEF Promising, Alone

\* An operation on a hand neither makes nor loses chips, if the pots are covered.
LEMMA PlaysKeepsWorth ==
    ASSUME NEW t \in TableType, NEW u, Playing(t.hand), Promising(t), Covered(t.hand), Plays(t, u)
    PROVE  Total(Worth(u)) = Total(Worth(t))
<1>1. ASSUME GoesOn(t, u) PROVE Total(Worth(u)) = Total(Worth(t))
  BY <1>1 DEF GoesOn, Wealth, Worth
<1>2. ASSUME WonAlone(t, u) PROVE Total(Worth(u)) = Total(Worth(t))
  <2>1. PICK v \in TableType : \E rank : /\ u = FinishHand(v, rank)
                                        /\ Wealth(t, v) /\ Alone(v.hand)
    BY <1>2 DEF WonAlone
  <2>2. PICK rank : u = FinishHand(v, rank) /\ Wealth(t, v) /\ Alone(v.hand) BY <2>1
  <2>3. Total(Awards(v.hand, rank)) = Total(v.hand.committed)
    BY <2>2, HandIsTyped, AloneTakesAll
  <2> QED BY <2>2, <2>3, SettledWhole
<1>3. ASSUME ShownDown(t, u) PROVE Total(Worth(u)) = Total(Worth(t))
  <2>1. PICK v \in TableType, rank \in Ranks : u = FinishHand(v, rank) /\ Still(t, v)
    BY <1>3 DEF ShownDown
  <2>2. ~Alone(v.hand) /\ Covered(v.hand)
    BY <2>1, PromisingIsNotAlone DEF Still, Alone, Covered, Contenders
  <2>3. Total(Awards(v.hand, rank)) = Total(v.hand.committed)
    BY <2>1, <2>2, HandIsTyped, ShowdownPaysAll
  <2> QED BY <2>1, <2>3, StillIsWealth, SettledWhole
<1> QED BY <1>1, <1>2, <1>3 DEF Plays

-----------------------------------------------------------------------------
(* What the actions do.                                                     *)

\* A step on the hand that is played: an action, the end of a pause or a discard.
HandGoes ==
    \/ \E s \in Seats, action \in Actions :
          /\ Act(s, action) \/ action.type # "allIn"
          /\ Accepts(Hand, s, action) /\ table' = ApplyAction(table, s, action)
    \/ Playing(Hand) /\ Hand.waiting /\ table' \in AdvancePendingPhase(table)
    \/ /\ Hand.phase = "discard"
       /\ table' \in AutoDiscard(table) \/ \E s \in Seats : table' \in ApplyDiscard(table, s)

SameSeating(t, u) == \A s \in Seats : Seated(u, s) <=> Seated(t, s)

\* v is t with what somebody brings to the table, if anything, and without a hand that is over.
Brings(t, v, brought) ==
    /\ v \in TableType
    /\ v.hand = t.hand \/ (~Playing(t.hand) /\ v.hand = NullHand)
    /\ \/ brought = 0 /\ v.seatStack = t.seatStack /\ SameSeating(t, v)
       \/ \E s \in Seats :
             /\ t.seatStack[s] = 0 /\ v.seatStack[s] = brought /\ Seated(v, s)
             /\ ~(Playing(t.hand) /\ InHand(t, s))
             /\ \A r \in Seats \ {s} : /\ v.seatStack[r] = t.seatStack[r]
                                       /\ Seated(v, r) <=> Seated(t, r)

\* Nothing happens to the chips.
Rests(v, u) ==
    /\ u.seatStack = v.seatStack /\ SameSeating(v, u)
    /\ \/ u.hand = v.hand
       \/ /\ ~Playing(v.hand) /\ u.hand.phase = v.hand.phase /\ u.hand.street = v.hand.street
          /\ u.hand.stack = v.hand.stack /\ u.hand.committed = v.hand.committed
          /\ u.hand.status = v.hand.status

\* A hand is dealt, of the stacks of v.
Deals(v, u) ==
    /\ ~Playing(v.hand)
    /\ \E g \in TableType :
          /\ g.seatStack = v.seatStack /\ g.seatStatus = v.seatStatus
          /\ ~(Cardinality(Ready(g)) < MinPlayers) /\ u = StartHand(g)

\* Who comes brings his chips, and then a hand may be dealt.
TableGoes(t, u, brought) == \E v : Brings(t, v, brought) /\ (Rests(v, u) \/ Deals(v, u))

\* An empty seat has no chips.
EmptyIsBare(t) == \A s \in Seats : ~Seated(t, s) => t.seatStack[s] = 0

\* beginNextHandIfReady.
LEMMA BeginNextHandDeals ==
    ASSUME NEW t \in TableType
    PROVE  LET u == BeginNextHandIfReady(t) IN Rests(t, u) \/ Deals(t, u)
<1> DEFINE u == BeginNextHandIfReady(t)
<1>1. CASE u = t BY <1>1 DEF Rests, SameSeating
<1>2. CASE u = EnsureStartGate(t)
  BY <1>2, EnsureStartGateSeats DEF Rests, SameSeating, Seated
<1>3. CASE u # t /\ u # EnsureStartGate(t)
  <2>1. u = StartHand(t) /\ NoHand(t) /\ Cardinality(Ready(t)) >= MinPlayers
    BY <1>3 DEF BeginNextHandIfReady
  <2>2. ~(Cardinality(Ready(t)) < MinPlayers)
    <3>1. IsFiniteSet(Ready(t))
      <4>1. Ready(t) \in SUBSET Seats BY DEF Ready
      <4> QED BY <4>1, SeatsFinite, FS_Subset
    <3>2. Cardinality(Ready(t)) \in Nat BY <3>1, FS_CardinalityType
    <3> QED BY <2>1, <3>2 DEF MinPlayers
  <2> HIDE DEF u
  <2>3. ~Playing(t.hand) BY <2>1 DEF NoHand, Playing
  <2>4. Deals(t, u) BY <2>1, <2>2, <2>3 DEF Deals
  <2> QED BY <2>4 DEF u
<1> QED BY <1>1, <1>2, <1>3

\* advanceStartGate.
LEMMA AdvanceStartGateDeals ==
    ASSUME NEW t \in TableType, NEW elapsed \in BOOLEAN
    PROVE  LET u == AdvanceStartGate(t, elapsed) IN Rests(t, u) \/ Deals(t, u)
<1> DEFINE g == EnsureStartGate(t)
           u == AdvanceStartGate(t, elapsed)
<1>1. /\ g \in TableType /\ g.hand = t.hand /\ g.seatStatus = t.seatStatus
      /\ g.seatStack = t.seatStack /\ Ready(g) = Ready(t)
  BY EnsureStartGateSeats
<1>2. CASE u = g BY <1>1, <1>2 DEF Rests, SameSeating, Seated
<1>3. CASE u # g
  <2>1. u = StartHand(g) /\ g.gateOpen BY <1>3 DEF AdvanceStartGate
  <2>2. NoHand(t) /\ ~(Cardinality(Ready(g)) < MinPlayers)
    BY <2>1, EnsureStartGateKeeps
  <2> HIDE DEF g, u
  <2>3. ~Playing(t.hand) BY <2>2 DEF NoHand, Playing
  <2>4. Deals(t, u) BY <1>1, <2>1, <2>2, <2>3 DEF Deals
  <2> QED BY <2>4 DEF u
<1> QED BY <1>2, <1>3

\* Every action, while no player is lost, is a step on the hand or one on the seats.
LEMMA NextDoes ==
    ASSUME Departures = "never", HonestInv, away = {}, EmptyIsBare(table), [Next]_vars
    PROVE  /\ away' = {}
           /\ \/ HandGoes /\ bank' = bank
              \/ \E brought \in Nat : TableGoes(table, table', brought) /\ bank' = bank + brought
<1> DEFINE Goal == /\ away' = {}
                   /\ \/ HandGoes /\ bank' = bank
                      \/ \E brought \in Nat :
                            TableGoes(table, table', brought) /\ bank' = bank + brought
<1>1. /\ table \in TableType /\ table.hand \in HandType
      /\ bank \in Int /\ bank + 0 = bank
      /\ \A s \in Seats : /\ Playing(table.hand) /\ InHand(table, s) => Seated(table, s)
                          /\ table.seatStatus[s] = "busted" /\ ~Playing(table.hand)
                                => table.seatStack[s] = 0
      /\ \A s \in Seats : Playing(table.hand) /\ table.hand.status[s] # "none" =>
            table.seatStatus[s] # "empty"
  BY HandIsTyped
     DEF HonestInv, IInv, TableInv, PlayersSeated, Sound, Honest, Truth, Hand, Seated, InHand
<1>2. ASSUME NEW v, NEW u, NEW brought \in Nat, Brings(table, v, brought), Becomes(u),
             Rests(v, u) \/ Deals(v, u)
      PROVE  TableGoes(table, table', brought)
  <2>1. table' = u BY <1>2 DEF Becomes, BecomesOneOf
  <2> QED BY <1>2, <2>1 DEF TableGoes
<1>3. ASSUME NEW v, NEW brought \in Nat, Brings(table, v, brought),
             Becomes(BeginNextHandIfReady(v))
      PROVE  TableGoes(table, table', brought)
  <2>1. v \in TableType BY <1>3 DEF Brings
  <2> QED BY <1>2, <1>3, <2>1, BeginNextHandDeals
<1>4. ASSUME NEW v \in TableType, v.hand = table.hand, v.seatStack = table.seatStack,
             SameSeating(table, v)
      PROVE  Brings(table, v, 0)
  BY <1>4 DEF Brings
<1>5. ASSUME TableGoes(table, table', 0), UNCHANGED <<away, bank>> PROVE Goal
  BY <1>1, <1>5
<1>6. ASSUME HandGoes, UNCHANGED <<away, bank>> PROVE Goal BY <1>6
<1>7. ASSUME NEW s \in Seats, NEW stack \in BuyIns, Join(s, stack) PROVE Goal
  <2> DEFINE v == SeatPlayer(table, s, stack)
  <2>1. stack \in Nat /\ stack > 0 BY StacksAssumption
  <2>2. /\ v \in TableType /\ v.hand = table.hand
        /\ v.seatStack[s] = stack /\ Seated(v, s)
        /\ \A r \in Seats \ {s} : /\ v.seatStack[r] = table.seatStack[r]
                                  /\ Seated(v, r) <=> Seated(table, r)
    BY <1>1, <2>1 DEF SeatPlayer, TableType, SeatStatuses, Seated
  <2> HIDE DEF v
  <2>3. ~Seated(table, s) BY <1>7 DEF Join, CanSeat
  <2>4. table.seatStack[s] = 0 BY <2>3 DEF EmptyIsBare
  <2>5. ~(Playing(table.hand) /\ InHand(table, s)) BY <1>1, <2>3
  <2>6. Brings(table, v, stack) BY <2>1, <2>2, <2>4, <2>5 DEF Brings
  <2>7. TableGoes(table, table', stack) BY <1>3, <1>7, <2>1, <2>6 DEF Join, v
  <2> QED BY <1>7, <2>1, <2>7 DEF Join
<1>8. ASSUME NEW s \in Seats, NEW action \in Actions, Act(s, action) PROVE Goal
  <2>1. table' = ApplyAction(table, s, action)
    BY <1>8 DEF Act, Becomes, BecomesOneOf
  <2>2. HandGoes BY <1>8, <2>1 DEF HandGoes, Act
  <2> QED BY <1>6, <1>8, <2>2 DEF Act
<1>9. ASSUME NEW s \in Seats, Discard(s) PROVE Goal
  <2>1. table' \in ApplyDiscard(table, s) BY <1>9 DEF Discard, BecomesOneOf
  <2>2. HandGoes BY <1>9, <2>1 DEF HandGoes, Discard
  <2> QED BY <1>6, <1>9, <2>2 DEF Discard
<1>10. ASSUME NEW s \in Seats, NEW ready \in BOOLEAN, ReadyForHand(s, ready) PROVE Goal
  <2> DEFINE g == EnsureStartGate(table)
             v == SetReadyForHand(table, s, ready)
  <2>1. v \in TableType /\ v.hand = table.hand BY <1>1, SetReadyForHandKeeps DEF Keeps
  <2>2. /\ g \in TableType /\ g.seatStatus = table.seatStatus
        /\ g.seatStack = table.seatStack
    BY <1>1, EnsureStartGateSeats
  <2>3. v.seatStatus = g.seatStatus /\ v.seatStack = g.seatStack
    <3> HIDE DEF g
    <3>1. \/ v = g
          \/ v = [g EXCEPT !.gateReady = IF ready THEN @ \cup {s} ELSE @ \ {s}]
      BY DEF SetReadyForHand, g
    <3> QED BY <2>2, <3>1 DEF TableType
  <2>4. Becomes(AdvanceStartGate(v, FALSE)) BY <1>10 DEF ReadyForHand
  <2> HIDE DEF v, g
  <2>5. Brings(table, v, 0) BY <1>4, <2>1, <2>2, <2>3 DEF SameSeating, Seated
  <2>6. TableGoes(table, table', 0) BY <1>2, <2>1, <2>4, <2>5, AdvanceStartGateDeals
  <2> QED BY <1>5, <1>10, <2>6 DEF ReadyForHand
<1>11. ASSUME NEW s \in Seats, LeaveSeat(s) PROVE Goal
  <2> DEFINE v == SitOut(table, s)
  <2>1. Seated(table, s) BY <1>11 DEF LeaveSeat, Present
  <2>2. /\ v \in TableType /\ v.hand = table.hand /\ v.seatStack = table.seatStack
        /\ SameSeating(table, v)
    BY <1>1, <2>1 DEF SitOut, TableType, SeatStatuses, SameSeating, Seated
  <2>3. Becomes(v) BY <1>11 DEF LeaveSeat
  <2> HIDE DEF v
  <2>4. Brings(table, v, 0) BY <1>4, <2>2
  <2>5. Rests(v, v) BY DEF Rests, SameSeating
  <2>6. TableGoes(table, table', 0) BY <1>2, <2>3, <2>4, <2>5
  <2> QED BY <1>5, <1>11, <2>6 DEF LeaveSeat
<1>12. ASSUME NEW s \in Seats, NEW amount \in BuyIns, BuyBackIn(s, amount) PROVE Goal
  <2> DEFINE v == Rebuy(table, s, amount)
  <2>1. amount \in Nat BY StacksAssumption
  <2>2. ~Playing(table.hand) /\ table.seatStack[s] = 0
    BY <1>1, <1>12 DEF BuyBackIn, CanRebuy, BetweenHands, InPlay, Playing
  <2>3. /\ v \in TableType /\ v.hand = table.hand
        /\ v.seatStack[s] = amount /\ Seated(v, s)
        /\ \A r \in Seats \ {s} : /\ v.seatStack[r] = table.seatStack[r]
                                  /\ Seated(v, r) <=> Seated(table, r)
    BY <1>1, <2>1 DEF Rebuy, TableType, SeatStatuses, Seated
  <2>4. Becomes(v) BY <1>12 DEF BuyBackIn
  <2> HIDE DEF v
  <2>5. Brings(table, v, amount) BY <2>1, <2>2, <2>3 DEF Brings
  <2>6. Rests(v, v) BY DEF Rests, SameSeating
  <2>7. TableGoes(table, table', amount) BY <1>2, <2>1, <2>4, <2>5, <2>6
  <2> QED BY <1>12, <2>1, <2>7 DEF BuyBackIn
<1>13. CASE NextHand
  <2> DEFINE v == WithHand(table, NullHand)
  <2>1. /\ v \in TableType /\ v.hand = NullHand /\ v.seatStack = table.seatStack
        /\ v.seatStatus = table.seatStatus
    BY <1>1, NullHandType, WithHandEffect
  <2>2. Becomes(BeginNextHandIfReady(v)) BY <1>13 DEF NextHand, AdvanceToNextHand, WithHand
  <2>3. ~Playing(table.hand) BY <1>13 DEF NextHand, CanAdvanceToNextHand, InPlay, Playing
  <2> HIDE DEF v
  <2>4. Brings(table, v, 0) BY <2>1, <2>3 DEF Brings, SameSeating, Seated
  <2>5. TableGoes(table, table', 0) BY <1>3, <2>2, <2>4
  <2> QED BY <1>5, <1>13, <2>5 DEF NextHand
<1>14. ASSUME NEW s \in Seats PROVE ~Disconnect(s) BY DEF Disconnect
<1>15. ASSUME NEW s \in Seats, Return(s) PROVE Goal
  <2> DEFINE v == SetSittingOut(table, s, FALSE)
  <2>1. v \in TableType /\ v.hand = table.hand BY <1>1, SetSittingOutKeeps DEF Keeps
  <2>2. Seated(table, s) BY <1>15 DEF Return
  <2>3. v.seatStack = table.seatStack /\ SameSeating(table, v)
    BY <1>1, <2>2 DEF SetSittingOut, TableType, SameSeating, Seated
  <2>4. Becomes(BeginNextHandIfReady(v)) BY <1>15 DEF Return
  <2> HIDE DEF v
  <2>5. TableGoes(table, table', 0) BY <1>3, <1>4, <2>1, <2>3, <2>4
  <2>6. away' = {} /\ bank' = bank BY <1>15 DEF Return
  <2> QED BY <1>1, <2>5, <2>6
<1>16. ASSUME NEW s \in Seats PROVE ~Release(s) BY DEF Release
<1>17. CASE StartCountdownEnds
  <2>1. Brings(table, table, 0) BY <1>1, <1>4 DEF SameSeating
  <2>2. Becomes(AdvanceStartGate(table, TRUE)) BY <1>17 DEF StartCountdownEnds
  <2>3. TableGoes(table, table', 0) BY <1>1, <1>2, <2>1, <2>2, AdvanceStartGateDeals
  <2> QED BY <1>5, <1>17, <2>3 DEF StartCountdownEnds
<1>18. CASE PauseEnds
  <2>1. table' \in AdvancePendingPhase(table) BY <1>18 DEF PauseEnds, BecomesOneOf
  <2>2. CASE Playing(table.hand)
    <3>1. HandGoes BY <1>18, <2>1, <2>2 DEF HandGoes, PauseEnds, Hand
    <3> QED BY <1>6, <1>18, <3>1 DEF PauseEnds
  <2>3. CASE ~Playing(table.hand)
    <3> DEFINE h == [table.hand EXCEPT !.waiting = FALSE]
               u == WithHand(table, h)
    <3>1. /\ h \in HandType /\ h.phase = table.hand.phase /\ h.status = table.hand.status
          /\ h.street = table.hand.street /\ h.stack = table.hand.stack
          /\ h.committed = table.hand.committed
      BY <1>1 DEF HandType
    <3>2. AdvancePendingPhase(table) = {u} BY <2>3, <3>1 DEF AdvancePendingPhase, Playing
    <3> HIDE DEF h
    <3>3. /\ u.hand = h /\ u.seatStack = table.seatStack
          /\ u.seatStatus = table.seatStatus
      BY <1>1, <3>1, WithHandEffect
    <3> HIDE DEF u
    <3>4. Rests(table, u) BY <2>3, <3>1, <3>3 DEF Rests, SameSeating, Seated
    <3>5. Brings(table, table, 0) BY <1>1, <1>4 DEF SameSeating
    <3>6. TableGoes(table, table', 0) BY <2>1, <3>2, <3>4, <3>5 DEF TableGoes
    <3> QED BY <1>5, <1>18, <3>6 DEF PauseEnds
  <2> QED BY <2>2, <2>3
<1>19. ASSUME table' = table, UNCHANGED <<away, bank>> PROVE Goal
  <2>1. Brings(table, table, 0) BY <1>1, <1>4 DEF SameSeating
  <2>2. Rests(table, table') BY <1>19 DEF Rests, SameSeating
  <2>3. TableGoes(table, table', 0) BY <2>1, <2>2 DEF TableGoes
  <2> QED BY <1>5, <1>19, <2>3
<1>20. CASE ActionTimeout
  <2>1. table' = AutoAction(table) BY <1>20 DEF ActionTimeout, Becomes, BecomesOneOf
  <2>2. CASE AutoAction(table) = table BY <1>19, <1>20, <2>1, <2>2 DEF ActionTimeout
  <2>3. CASE AutoAction(table) # table
    <3>1. HandGoes
      BY <1>1, <1>20, <2>1, <2>3, AutoActionIsAction DEF HandGoes, ActionTimeout, Hand
    <3> QED BY <1>6, <1>20, <3>1 DEF ActionTimeout
  <2> QED BY <2>2, <2>3
<1>21. CASE DiscardTimeout
  <2>1. table' \in AutoDiscard(table) BY <1>21 DEF DiscardTimeout, BecomesOneOf
  <2>2. HandGoes BY <1>21, <2>1 DEF HandGoes, DiscardTimeout
  <2> QED BY <1>6, <1>21, <2>2 DEF DiscardTimeout
<1>22. CASE UNCHANGED vars BY <1>19, <1>22 DEF vars
<1> QED
  BY <1>7, <1>8, <1>9, <1>10, <1>11, <1>12, <1>13, <1>14, <1>15, <1>16, <1>17, <1>18, <1>20,
     <1>21, <1>22 DEF Next, Deadlines

-----------------------------------------------------------------------------
(* The books.                                                               *)

\* Who is not dealt in has nothing in the pot.
Idle(t) == Playing(t.hand) => \A s \in Seats : ~InHand(t, s) => t.hand.committed[s] = 0

\* The chips brought to the table are those of the stacks and the pot.
Books(t, b) == EmptyIsBare(t) /\ Idle(t) /\ Total(Worth(t)) = b

\* A step on the hand plays it.
LEMMA HandGoesPlays ==
    ASSUME HandInv, HandGoes
    PROVE  Playing(table.hand) /\ Plays(table, table')
<1>1. /\ table \in TableType /\ BetsAreCommitted(table.hand)
      /\ Playing(table.hand) => Chipped(table.hand) /\ StacksAgree(table)
  BY DEF HandInv, IInv, TableInv, Accounts, StacksAgree, Hand, Rules, ChipRules
<1>2. ASSUME NEW s \in Seats, NEW action \in Actions,
             Accepts(Hand, s, action), table' = ApplyAction(table, s, action)
      PROVE  Playing(table.hand) /\ Plays(table, table')
  <2>1. Playing(table.hand) BY <1>2 DEF Accepts, OnTurn, Playing, Hand
  <2> QED BY <1>1, <1>2, <2>1, ApplyActionPlays DEF Hand
<1>3. ASSUME Playing(Hand), table' \in AdvancePendingPhase(table)
      PROVE  Playing(table.hand) /\ Plays(table, table')
  BY <1>1, <1>3, AdvancePendingPhasePlays DEF Hand
<1>4. ASSUME Hand.phase = "discard",
             table' \in AutoDiscard(table) \/ \E s \in Seats : table' \in ApplyDiscard(table, s)
      PROVE  Playing(table.hand) /\ Plays(table, table')
  <2>1. Playing(table.hand) BY <1>4 DEF Playing, Hand
  <2> QED BY <1>1, <1>4, <2>1, AutoDiscardPlays, ApplyDiscardPlays
<1> QED BY <1>2, <1>3, <1>4 DEF HandGoes

\* The seats of a hand that is played stay taken, and the others as they are.
LEMMA PlaysKeepsSeats ==
    ASSUME NEW t \in TableType, Playing(t.hand), NEW u \in TableType, Plays(t, u),
           \A s \in Seats : InHand(t, s) => Seated(t, s),
           EmptyIsBare(t), Idle(t)
    PROVE  EmptyIsBare(u) /\ Idle(u)
<1>1. ASSUME NEW v \in TableType, Wealth(t, v)
      PROVE  /\ \A s \in Seats : ~Seated(v, s) => v.seatStack[s] = 0 /\ ~InHand(v, s)
             /\ Idle(v)
  <2>1. Idle(v) BY <1>1 DEF Idle, Wealth
  <2>2. ASSUME NEW s \in Seats, ~Seated(v, s) PROVE v.seatStack[s] = 0 /\ ~InHand(v, s)
    <3>1. ~Seated(t, s) BY <1>1, <2>2 DEF Wealth, Seated
    <3>2. ~InHand(t, s) /\ t.seatStack[s] = 0 BY <3>1 DEF EmptyIsBare
    <3>3. /\ v.seatStack[s] + v.hand.committed[s] = 0 + t.hand.committed[s]
          /\ ~InHand(v, s) /\ v.hand.committed[s] = t.hand.committed[s]
      BY <1>1, <3>2 DEF Wealth
    <3>4. v.seatStack[s] \in Nat /\ t.hand.committed[s] \in Nat
      BY HandIsTyped DEF TableType, HandType
    <3> QED BY <3>3, <3>4
  <2> QED BY <2>1, <2>2
<1>2. ASSUME NEW v \in TableType, NEW rank, Wealth(t, v), u = FinishHand(v, rank)
      PROVE  EmptyIsBare(u) /\ Idle(u)
  <2>1. u.hand.phase = "showdown" BY <1>2, FinishHandPays
  <2>2. ASSUME NEW s \in Seats, ~Seated(u, s) PROVE u.seatStack[s] = 0
    <3> HIDE <1>2
    <3>1. /\ ~InHand(v, s) => SameSeat(v, u, s) /\ s \notin Contenders(v.hand)
          /\ s \notin Contenders(v.hand) => u.seatStack[s] = v.seatStack[s]
          /\ u.seatStack[s] \in Nat
          /\ InHand(v, s) /\ u.seatStack[s] = 0 => u.seatStatus[s] = "busted"
          /\ InHand(v, s) /\ u.seatStack[s] > 0 =>
                u.seatStatus[s] = IF ~v.sittingOut[s] /\ v.seatStatus[s] # "sitting_out"
                                  THEN "active" ELSE v.seatStatus[s]
      BY <1>2, FinishHandSeats DEF InHand, Contenders
    <3>2. CASE InHand(v, s)
      <4>1. Seated(v, s) BY <1>1, <1>2, <3>2
      <4> QED BY <2>2, <3>1, <3>2, <4>1 DEF Seated
    <3>3. CASE ~InHand(v, s)
      <4>1. ~Seated(v, s) BY <2>2, <3>1, <3>3 DEF Seated, SameSeat
      <4> QED BY <1>1, <1>2, <3>1, <3>3, <4>1
    <3> QED BY <3>2, <3>3
  <2> QED BY <2>1, <2>2 DEF EmptyIsBare, Idle, Playing
<1>3. ASSUME GoesOn(t, u) PROVE EmptyIsBare(u) /\ Idle(u)
  BY <1>1, <1>3 DEF GoesOn, EmptyIsBare
<1>4. ASSUME WonAlone(t, u) PROVE EmptyIsBare(u) /\ Idle(u)
  BY <1>2, <1>4 DEF WonAlone
<1>5. ASSUME ShownDown(t, u) PROVE EmptyIsBare(u) /\ Idle(u)
  BY <1>2, <1>5, StillIsWealth DEF ShownDown
<1> QED BY <1>3, <1>4, <1>5 DEF Plays

\* What is brought is on the table.
LEMMA BringsCounts ==
    ASSUME NEW t \in TableType, NEW v, NEW b \in Int, NEW brought \in Nat,
           Books(t, b), Brings(t, v, brought)
    PROVE  Books(v, b + brought)
<1>1. v \in TableType BY DEF Brings
<1>2. Worth(t) \in [Seats -> Nat] /\ Worth(v) \in [Seats -> Nat]
      /\ t.seatStack \in [Seats -> Nat] /\ v.seatStack \in [Seats -> Nat]
  BY <1>1, WorthCounts DEF TableType
<1>3. /\ \A s \in Seats : InHand(v, s) /\ Playing(v.hand) => InHand(t, s)
      /\ Playing(v.hand) => v.hand = t.hand
      /\ Playing(v.hand) <=> Playing(t.hand)
      /\ Idle(v)
  BY DEF Brings, InHand, NullHand, Playing, Idle, Books
<1>4. ASSUME brought = 0, v.seatStack = t.seatStack, SameSeating(t, v)
      PROVE  Books(v, b + brought)
  <2>1. Worth(v) = Worth(t) BY <1>3, <1>4 DEF Worth
  <2>2. EmptyIsBare(v) BY <1>4 DEF Books, EmptyIsBare, SameSeating
  <2> QED BY <1>3, <1>4, <2>1, <2>2 DEF Books
<1>5. ASSUME NEW s \in Seats,
             t.seatStack[s] = 0, v.seatStack[s] = brought, Seated(v, s),
             ~(Playing(t.hand) /\ InHand(t, s)),
             \A r \in Seats \ {s} : /\ v.seatStack[r] = t.seatStack[r]
                                    /\ Seated(v, r) <=> Seated(t, r)
      PROVE  Books(v, b + brought)
  <2>1. \A r \in Seats \ {s} : Worth(v)[r] = Worth(t)[r] BY <1>3, <1>5 DEF Worth
  <2>2. Worth(t)[s] = 0 /\ Worth(v)[s] = brought
    <3>1. Playing(t.hand) => t.hand.committed[s] = 0 /\ v.hand.committed[s] = 0
      BY <1>3, <1>5 DEF Books, Idle
    <3> QED BY <1>3, <1>5, <3>1 DEF Worth
  <2>3. Total(Worth(v)) = b + brought
    BY <1>2, <2>1, <2>2, SeatsFinite, TotalWithNew DEF Books
  <2>4. EmptyIsBare(v) BY <1>5 DEF Books, EmptyIsBare
  <2> QED BY <1>3, <2>3, <2>4 DEF Books
<1> QED BY <1>4, <1>5 DEF Brings

\* Who deals takes the blinds from the stacks.
LEMMA DealsCounts ==
    ASSUME NEW v \in TableType, NEW u, NEW b, Books(v, b), Deals(v, u)
    PROVE  Books(u, b)
<1>1. PICK g \in TableType :
         /\ g.seatStack = v.seatStack /\ g.seatStatus = v.seatStatus
         /\ ~(Cardinality(Ready(g)) < MinPlayers) /\ u = StartHand(g)
  BY DEF Deals
<1>2. PICK sb, bb \in Seats : DealtOut(g, u, sb, bb) BY <1>1, StartHandDeals
<1>3. u \in TableType BY <1>1, StartHandFresh
<1>4. Playing(u.hand) /\ ~Playing(v.hand) BY <1>2 DEF DealtOut, Playing, Deals
<1>5. ASSUME NEW s \in Seats
      PROVE  /\ u.seatStack[s] + u.hand.committed[s] = v.seatStack[s]
             /\ ~InHand(u, s) => u.hand.committed[s] = 0
             /\ v.seatStack[s] \in Nat /\ u.seatStack[s] \in Nat
  <2>1. /\ u.hand.bet[s] = IF s = sb THEN AtMost(SmallBlind, g.seatStack[s])
                           ELSE IF s = bb THEN AtMost(BigBlind, g.seatStack[s]) ELSE 0
        /\ u.hand.committed[s] = u.hand.bet[s]
        /\ u.seatStack[s] = g.seatStack[s] - u.hand.bet[s]
        /\ u.hand.status[s] = "none" => s # sb /\ s # bb
    BY <1>2 DEF DealtOut
  <2>2. v.seatStack[s] \in Nat /\ u.seatStack[s] \in Nat /\ u.hand.bet[s] \in Nat
    BY <1>3, HandIsTyped DEF TableType, HandType
  <2> QED BY <1>1, <2>1, <2>2 DEF InHand
<1>6. Worth(u) = Worth(v)
  <2>1. \A s \in Seats : v.seatStack[s] + 0 = v.seatStack[s] BY <1>5
  <2> QED BY <1>4, <1>5, <2>1 DEF Worth
<1>7. EmptyIsBare(u)
  <2> SUFFICES ASSUME NEW s \in Seats, ~Seated(u, s) PROVE u.seatStack[s] = 0
    BY DEF EmptyIsBare
  <2>1. ~Seated(v, s) BY <1>1, <1>2 DEF Seated, DealtOut
  <2>2. v.seatStack[s] = 0 BY <2>1 DEF Books, EmptyIsBare
  <2>3. s # sb /\ s # bb BY <1>1, <1>2, <2>2 DEF DealtOut, Ready
  <2>4. u.hand.bet[s] = 0 /\ u.seatStack[s] = g.seatStack[s] - u.hand.bet[s]
    BY <1>2, <2>3 DEF DealtOut
  <2> QED BY <1>1, <2>2, <2>4
<1> QED BY <1>5, <1>6, <1>7 DEF Books, Idle

\* What changes nothing of the chips keeps the books.
LEMMA RestsCounts ==
    ASSUME NEW v \in TableType, NEW u, NEW b, Books(v, b), Rests(v, u)
    PROVE  Books(u, b)
<1>1. /\ u.seatStack = v.seatStack /\ SameSeating(v, u)
      /\ Playing(u.hand) <=> Playing(v.hand)
      /\ Playing(u.hand) => u.hand = v.hand
  BY DEF Rests, Playing
<1>2. Worth(u) = Worth(v) BY <1>1 DEF Worth
<1>3. EmptyIsBare(u) /\ Idle(u)
  BY <1>1 DEF Books, EmptyIsBare, SameSeating, Idle, InHand
<1> QED BY <1>2, <1>3 DEF Books

-----------------------------------------------------------------------------
(* The theorems.                                                            *)

\* What is known of the table while no player is lost.
WholeInv == HonestInv /\ PromiseInv /\ away = {} /\ EmptyIsBare(table) /\ Idle(table)

\* The pots of a hand are covered: some player left in it has put in as much as anybody.
PotsCovered == InPlay(table) => Covered(Hand)

\* Books that balance are the conservation of chips.
LEMMA BooksAreConserved ==
    ASSUME table \in TableType, Books(table, bank)
    PROVE  ChipsConserved
<1>1. Playing(table.hand) <=> InPlay(table) BY DEF Playing, InPlay
<1> QED BY <1>1, WorthCounts DEF Books, ChipsConserved, Hand

\* The books balance when the first players have sat down.
LEMMA InitBooks == Init => away = {} /\ Books(table, bank)
<1> SUFFICES ASSUME NEW f \in [Seats -> InitialStacks], table = SeatedTable(f), away = {},
                    bank = Total(f)
             PROVE  away = {} /\ Books(table, bank)
  BY DEF Init
<1>1. f \in [Seats -> Nat] BY StacksAssumption
<1>2. /\ table.hand = NullHand /\ table.seatStack = f
      /\ \A s \in Seats : Seated(table, s) <=> f[s] > 0
  BY DEF SeatedTable, EmptyTable, Seated
<1>3. ~Playing(table.hand) BY <1>2 DEF NullHand, Playing
<1>4. Worth(table) = f
  <2>1. \A s \in Seats : f[s] + 0 = f[s] BY <1>1
  <2> QED BY <1>1, <1>2, <1>3, <2>1 DEF Worth
<1>5. EmptyIsBare(table)
  <2>1. \A s \in Seats : f[s] \in Nat BY <1>1
  <2> QED BY <1>2, <2>1 DEF EmptyIsBare
<1> QED BY <1>3, <1>4, <1>5 DEF Books, Idle

\* The seats of HandPromise are those of HonestInv.
LEMMA WholeFacts ==
    ASSUME WholeInv
    PROVE  /\ table \in TableType /\ IInv /\ HandInv /\ Promising(table)
           /\ Books(table, Total(Worth(table))) /\ Total(Worth(table)) \in Nat
           /\ bank \in Int
           /\ Playing(table.hand) => \A s \in Seats : InHand(table, s) => Seated(table, s)
<1>1. table \in TableType /\ HandInv /\ Promising(table) /\ IInv /\ bank \in Int
  BY DEF WholeInv, PromiseInv, HandInv, HonestInv, IInv, TableInv
<1>2. Total(Worth(table)) \in Nat BY <1>1, WorthCounts, SeatsFinite, TotalType
<1>3. Books(table, Total(Worth(table))) BY DEF WholeInv, Books
<1>4. Playing(table.hand) => \A s \in Seats : InHand(table, s) => Seated(table, s)
  BY <1>1 DEF IInv, TableInv, PlayersSeated, InHand, Seated, Hand
<1> QED BY <1>1, <1>2, <1>3, <1>4

\* The chips of a table change by what is brought, or with the hand that is played.
LEMMA NextCounts ==
    ASSUME Departures = "never", WholeInv, [Next]_vars
    PROVE  \/ /\ HandGoes /\ bank' = bank
              /\ Playing(table.hand) /\ Plays(table, table')
              /\ EmptyIsBare(table') /\ Idle(table')
           \/ \E brought \in Nat :
                 /\ bank' = bank + brought /\ TableGoes(table, table', brought)
                 /\ Books(table', Total(Worth(table)) + brought)
<1>1. /\ table \in TableType /\ IInv /\ HandInv /\ Promising(table)
      /\ Books(table, Total(Worth(table))) /\ Total(Worth(table)) \in Nat
      /\ Playing(table.hand) => \A s \in Seats : InHand(table, s) => Seated(table, s)
  BY WholeFacts
<1>2. table' \in TableType BY <1>1, NextKeepsInvariant DEF IInv, TableInv
<1>3. ASSUME HandGoes, bank' = bank
      PROVE  /\ Playing(table.hand) /\ Plays(table, table')
             /\ EmptyIsBare(table') /\ Idle(table')
  <2>1. Playing(table.hand) /\ Plays(table, table') BY <1>1, <1>3, HandGoesPlays
  <2>2. EmptyIsBare(table) /\ Idle(table) BY DEF WholeInv
  <2> QED BY <1>1, <1>2, <2>1, <2>2, PlaysKeepsSeats
<1>4. ASSUME NEW brought \in Nat, TableGoes(table, table', brought)
      PROVE  Books(table', Total(Worth(table)) + brought)
  <2>1. PICK v : Brings(table, v, brought) /\ (Rests(v, table') \/ Deals(v, table'))
    BY <1>4 DEF TableGoes
  <2>2. v \in TableType BY <2>1 DEF Brings
  <2>3. Books(v, Total(Worth(table)) + brought) BY <1>1, <2>1, BringsCounts
  <2> QED BY <2>1, <2>2, <2>3, RestsCounts, DealsCounts
<1>5. \/ HandGoes /\ bank' = bank
      \/ \E brought \in Nat : TableGoes(table, table', brought) /\ bank' = bank + brought
  BY NextDoes DEF WholeInv
<1> QED BY <1>3, <1>4, <1>5

\* The table stays whole.
LEMMA NextKeepsWhole ==
    ASSUME Departures = "never", WholeInv, [Next]_vars
    PROVE  WholeInv'
<1>1. HonestInv /\ PromiseInv /\ away = {} /\ EmptyIsBare(table) BY DEF WholeInv
<1>2. IInv' /\ Sound(table, away)' BY <1>1, NextKeepsInvariant, NextSound DEF HonestInv
<1>3. Rules(Hand)' /\ Promising(table)'
  BY <1>1, NextKeepsRules, NextPerforms DEF PromiseInv
<1>4. away' = {} BY <1>1, NextDoes
<1>5. EmptyIsBare(table') /\ Idle(table') BY NextCounts DEF Books
<1> QED
  BY <1>2, <1>3, <1>4, <1>5
     DEF WholeInv, HonestInv, PromiseInv, HandInv, EmptyIsBare, Idle, InHand, Seated

\* The table is whole at the beginning.
LEMMA InitWhole == Init => WholeInv /\ Total(Worth(table)) = bank
<1> SUFFICES ASSUME Init PROVE WholeInv /\ Total(Worth(table)) = bank OBVIOUS
<1>1. IInv /\ Rules(Hand) /\ Promising(table) /\ Sound(table, away)
  BY InitKeepsInvariant, InitRules, InitPromises, InitSound
<1>2. away = {} /\ Books(table, bank) BY InitBooks
<1> QED BY <1>1, <1>2 DEF WholeInv, HonestInv, PromiseInv, HandInv, Books

\* While no player is lost, the table is whole.
LEMMA TablesAreWhole ==
    ASSUME Departures = "never"
    PROVE  Spec => []WholeInv
<1>1. Init => WholeInv BY InitWhole
<1>2. WholeInv /\ [Next]_vars => WholeInv' BY NextKeepsWhole
<1> QED BY <1>1, <1>2, PTL DEF Spec

\* Chips are neither made nor lost by a step on pots that are covered.
LEMMA NextConserves ==
    ASSUME Departures = "never", WholeInv, Total(Worth(table)) = bank, PotsCovered, [Next]_vars
    PROVE  Total(Worth(table))' = bank'
<1>1. /\ table \in TableType /\ IInv /\ HandInv /\ Promising(table)
      /\ Total(Worth(table)) \in Nat
  BY WholeFacts
<1>2. ASSUME Playing(table.hand), Plays(table, table'), bank' = bank
      PROVE  Total(Worth(table')) = bank'
  <2>1. Covered(table.hand) BY <1>2 DEF PotsCovered, InPlay, Playing, Hand
  <2> QED BY <1>1, <1>2, <2>1, PlaysKeepsWorth
<1>3. Total(Worth(table')) = bank' BY <1>2, NextCounts DEF Books
<1> QED BY <1>3 DEF Worth, Playing

\* Chips are neither made nor lost, for any number of seats, blinds, stacks and amounts,
\* as long as the pots are covered: finishHand (table.ts) pays out, whatever the ranking,
\* the splits and the odd chips, all that the players have put in.
THEOREM CoveredPotsConserve ==
    ASSUME Departures = "never"
    PROVE  Spec /\ []PotsCovered => []ChipsConserved
<1> DEFINE Inv == WholeInv /\ Total(Worth(table)) = bank
<1>1. Init => Inv BY InitWhole
<1>2. Inv /\ PotsCovered /\ [Next]_vars => Inv'
  <2> SUFFICES ASSUME Inv, PotsCovered, [Next]_vars PROVE Inv' OBVIOUS
  <2> QED BY NextKeepsWhole, NextConserves
<1>3. Inv => ChipsConserved BY WholeFacts, BooksAreConserved DEF Books
<1> QED BY <1>1, <1>2, <1>3, PTL DEF Spec

-----------------------------------------------------------------------------
(* Table stakes.                                                            *)

\* A step on the hand leaves the stakes.
LEMMA NextNotesStakes ==
    ASSUME [Next]_vars
    PROVE  stake' = stake \/ Playing(table'.hand)
BY DEF Next, Deadlines, vars, Join, Act, Discard, ReadyForHand, LeaveSeat, BuyBackIn, NextHand,
       Disconnect, Return, Release, StartCountdownEnds, PauseEnds, ActionTimeout,
       DiscardTimeout, Becomes, BecomesOneOf, InPlay, Playing

\* Who wins at the showdown wins from each opponent at most what he had put in himself.
LEMMA ShownDownIsStaked ==
    ASSUME NEW t \in TableType, Playing(t.hand), Promising(t), NEW u, ShownDown(t, u),
           StacksAgree(t), NEW s \in Seats, InHand(t, s)
    PROVE  /\ u.hand.committed = t.hand.committed
           /\ u.hand.stack[s] <= t.hand.stack[s]
                 + Total([r \in Seats |-> AtMost(u.hand.committed[r], u.hand.committed[s])])
<1>1. PICK v \in TableType, rank \in Ranks : u = FinishHand(v, rank) /\ Still(t, v)
  BY DEF ShownDown
<1>2. ~Alone(v.hand) /\ InHand(v, s)
  BY <1>1, PromisingIsNotAlone DEF Still, Alone, Contenders, InHand
<1>3. Award(v.hand, rank, s)
         <= Total([r \in Seats |-> AtMost(v.hand.committed[r], v.hand.committed[s])])
  BY <1>1, <1>2, HandIsTyped, ShowdownIsStaked
<1>4. /\ u.hand.committed = v.hand.committed
      /\ u.hand.stack[s] = v.seatStack[s] + Award(v.hand, rank, s)
  BY <1>1, <1>2, FinishHandPays
<1>5. v.seatStack = t.seatStack /\ v.hand.committed = t.hand.committed BY <1>1 DEF Still
<1>6. t.seatStack[s] = t.hand.stack[s] /\ t.hand.stack[s] \in Nat
  BY HandIsTyped DEF StacksAgree, InHand, HandType
<1>7. Award(v.hand, rank, s) \in Nat BY HandIsTyped, AwardType
<1>8. Total([r \in Seats |-> AtMost(v.hand.committed[r], v.hand.committed[s])]) \in Nat
  <2> DEFINE f == [r \in Seats |-> AtMost(v.hand.committed[r], v.hand.committed[s])]
  <2>1. f \in [Seats -> Nat] BY HandIsTyped DEF HandType, AtMost
  <2> HIDE DEF f
  <2>2. Total(f) \in Nat BY <2>1, SeatsFinite, TotalType
  <2> QED BY <2>2 DEF f
<1> QED BY <1>3, <1>4, <1>5, <1>6, <1>7, <1>8

\* A hand in which nothing is won keeps its table stakes, and one that is shown down has them.
LEMMA NextIsStaked ==
    ASSUME Departures = "never", WholeInv, TableStakes, [Next]_vars
    PROVE  TableStakes'
<1> SUFFICES ASSUME Hand'.street = "showdown", NEW s \in Dealt(Hand)'
             PROVE  Hand'.stack[s] <= stake'[s] - Hand'.committed[s]
                       + Total([r \in Seats |->
                                  AtMost(Hand'.committed[r], Hand'.committed[s])])
  BY DEF TableStakes, Dealt, AtMost, Total
<1>1. /\ table \in TableType /\ IInv /\ HandInv /\ Promising(table)
  BY WholeFacts
<1>2. HandInv' BY <1>1, NextKeepsInvariant, NextKeepsRules DEF HandInv
<1>3. ~Playing(table'.hand) /\ s \in Seats /\ table'.hand.status[s] # "none"
  BY <1>2 DEF HandInv, Rules, CardRules, Hand, Playing, Dealt
<1>4. stake' = stake BY <1>3, NextNotesStakes
<1>5. ASSUME table'.hand.street = table.hand.street, table'.hand.stack = table.hand.stack,
             table'.hand.committed = table.hand.committed,
             table'.hand.status = table.hand.status
      PROVE  Hand'.stack[s] <= stake'[s] - Hand'.committed[s]
                + Total([r \in Seats |-> AtMost(Hand'.committed[r], Hand'.committed[s])])
  BY <1>3, <1>4, <1>5 DEF TableStakes, Hand, Dealt
<1>6. ASSUME Playing(table.hand), Plays(table, table')
      PROVE  Hand'.stack[s] <= stake'[s] - Hand'.committed[s]
                + Total([r \in Seats |-> AtMost(Hand'.committed[r], Hand'.committed[s])])
  <2>1. ~GoesOn(table, table') BY <1>3 DEF GoesOn
  <2>2. ~WonAlone(table, table')
    <3>1. table.hand.street # "showdown" BY <1>1, <1>6 DEF HandInv, Rules, CardRules, Hand, Playing
    <3>2. WonAlone(table, table') => table'.hand.street = table.hand.street
      BY FinishHandPays DEF WonAlone
    <3> QED BY <3>1, <3>2 DEF Hand
  <2>3. ShownDown(table, table') BY <1>6, <2>1, <2>2 DEF Plays
  <2>4. InHand(table, s)
    <3>1. PICK v \in TableType, rank \in Ranks : table' = FinishHand(v, rank) /\ Still(table, v)
      BY <2>3 DEF ShownDown
    <3>2. v.hand.status[s] # "none" BY <1>3, <3>1, FinishHandPays
    <3> QED BY <3>1, <3>2 DEF Still, InHand
  <2>5. /\ StacksAgree(table)
        /\ table.hand.stack[s] + table.hand.committed[s] = stake[s]
    BY <1>1, <1>3, <1>6, <2>4 DEF IInv, TableInv, Accounts, StacksAgree, Hand, InHand
  <2>6. /\ table'.hand.committed = table.hand.committed
        /\ table'.hand.stack[s] <= table.hand.stack[s]
              + Total([r \in Seats |->
                         AtMost(table'.hand.committed[r], table'.hand.committed[s])])
    BY <1>1, <1>3, <1>6, <2>3, <2>4, <2>5, ShownDownIsStaked
  <2>7. table.hand.stack[s] \in Nat /\ table.hand.committed[s] \in Nat /\ stake[s] \in Nat
    BY <1>1, <1>3, HandIsTyped DEF HandType, IInv, TableInv
  <2>8. table.hand.stack[s] = stake[s] - table'.hand.committed[s] BY <2>5, <2>6, <2>7
  <2> QED BY <1>4, <2>6, <2>8 DEF Hand
<1>7. ASSUME NEW v, NEW brought \in Nat, Brings(table, v, brought),
             Rests(v, table') \/ Deals(v, table')
      PROVE  Hand'.stack[s] <= stake'[s] - Hand'.committed[s]
                + Total([r \in Seats |-> AtMost(Hand'.committed[r], Hand'.committed[s])])
  <2>1. ~Deals(v, table')
    <3> SUFFICES ASSUME Deals(v, table') PROVE FALSE OBVIOUS
    <3>1. PICK g \in TableType :
             ~(Cardinality(Ready(g)) < MinPlayers) /\ table' = StartHand(g)
      BY DEF Deals
    <3>2. PICK sb, bb \in Seats : DealtOut(g, table', sb, bb) BY <3>1, StartHandDeals
    <3> QED BY <1>3, <3>2 DEF DealtOut, Playing
  <2>2. Rests(v, table') BY <1>7, <2>1
  <2>3. v.hand = table.hand
    <3>1. NullHand.street # "showdown" BY DEF NullHand
    <3> QED BY <1>7, <2>2, <3>1 DEF Brings, Rests, Hand
  <2>4. table'.hand.street = table.hand.street /\ table'.hand.stack = table.hand.stack
        /\ table'.hand.committed = table.hand.committed
        /\ table'.hand.status = table.hand.status
    BY <2>2, <2>3 DEF Rests
  <2> QED BY <1>5, <2>4
<1> QED BY <1>6, <1>7, NextCounts DEF TableGoes

\* While no player is lost, and for any number of seats, blinds, stacks and rankings, the
\* settlement of finishHand (table.ts) lets no player win more from an opponent than he
\* had put in himself.
THEOREM StakesAreTableStakes ==
    ASSUME Departures = "never"
    PROVE  Spec => []TableStakes
<1>1. Init => TableStakes BY DEF Init, SeatedTable, EmptyTable, NullHand, TableStakes, Hand
<1>2. WholeInv /\ TableStakes /\ [Next]_vars => TableStakes' BY NextIsStaked
<1>3. Spec => []WholeInv BY TablesAreWhole
<1> QED BY <1>1, <1>2, <1>3, PTL DEF Spec

-----------------------------------------------------------------------------
(* Who covers the pots.                                                     *)

\* What s has put in on earlier streets, and: nobody has put in more there.
Base(h, s) == h.committed[s] - h.bet[s]
Deepest(h, s) == \A r \in Seats : Base(h, r) <= Base(h, s)

\* w has put in as much as anybody, and is in the hand for it.
Backs(h, w) == w \in Contenders(h) /\ h.bet[w] = h.currentBet /\ Deepest(h, w)

\* Who has called but not spoken speaks after those who still owe.
LineUp(h, turn) ==
    \A b, r \in Active(h) :
        h.bet[b] = h.currentBet /\ ~h.acted[b] /\ h.bet[r] < h.currentBet =>
            turn # b /\ (r = turn \/ Distance(turn, r) < Distance(turn, b))

\* Nobody has bet more than there is to call.
NoneOver(h) == \A s \in Seats : h.bet[s] <= h.currentBet

\* Somebody backs the bets of h, also when the player who is to act folds.
Backed(h) ==
    /\ NoneOver(h)
    /\ \A s \in Active(h) : Deepest(h, s)
    /\ \E w \in Seats : Backs(h, w)
    /\ \A s \in Seats : OnTurn(h, s) => \E w \in Seats \ {s} : Backs(h, w)
    /\ h.phase = "betting" /\ ~h.waiting => LineUp(h, h.turn)

\* Whoever backs the bets covers the pots.
LEMMA BackedIsCovered ==
    ASSUME NEW h \in HandType, Backed(h)
    PROVE  Covered(h)
<1>1. PICK w \in Seats : Backs(h, w) BY DEF Backed
<1>2. ASSUME NEW r \in Seats PROVE h.committed[r] <= h.committed[w]
  <2>1. /\ h.committed[r] \in Nat /\ h.bet[r] \in Nat /\ h.committed[w] \in Nat
        /\ h.bet[w] \in Nat /\ h.currentBet \in Nat
    BY DEF HandType
  <2>2. /\ h.bet[r] <= h.bet[w]
        /\ h.committed[r] - h.bet[r] <= h.committed[w] - h.bet[w]
    BY <1>1 DEF Backed, NoneOver, Backs, Deepest, Base
  <2> QED BY <2>1, <2>2
<1> QED BY <1>1, <1>2 DEF Covered, Backs

\* A hand that is stopped is backed as it was.
LEMMA SameBetsBacked ==
    ASSUME NEW g, NEW h, Backed(g), SameBets(g, h), h.phase # "betting" \/ h.waiting
    PROVE  Backed(h)
<1>1. NoneOver(h) BY DEF Backed, NoneOver, SameBets
<1>2. /\ Contenders(h) = Contenders(g) /\ Active(h) = Active(g)
      /\ \A s \in Seats : Base(h, s) = Base(g, s)
  BY DEF Contenders, Active, SameBets, Base
<1>3. \A s \in Seats : Deepest(h, s) <=> Deepest(g, s) BY <1>2 DEF Deepest
<1>4. \A s \in Active(h) : Deepest(h, s) BY <1>2, <1>3 DEF Backed, Active
<1>5. \E w \in Seats : Backs(h, w) BY <1>2, <1>3 DEF Backed, Backs, SameBets
<1>6. \A s \in Seats : ~OnTurn(h, s) BY DEF OnTurn
<1> QED BY <1>1, <1>4, <1>5, <1>6 DEF Backed

\* Two players with chips, when a hand can still be won by betting.
LEMMA TwoCanBet ==
    ASSUME NEW h \in HandType, Paid(h), ~BettingLocked(h)
    PROVE  \E s, o \in Active(h) : s # o
<1>1. PICK s \in WithChips(h) : h.bet[s] < h.currentBet \/ Contestable(h, s, h.currentBet + 1)
  <2>1. \A s \in WithChips(h) : h.bet[s] \in Nat /\ h.currentBet \in Nat
    BY DEF WithChips, Active, HandType
  <2> QED BY <2>1 DEF BettingLocked
<1>2. s \in Active(h) /\ s \in Seats BY DEF WithChips, Active
<1>3. Contestable(h, s, h.currentBet + 1)
  <2>1. h.bet[s] \in Nat /\ h.currentBet \in Nat BY <1>2 DEF HandType
  <2> QED BY <1>1, <1>2, <2>1 DEF Paid
<1>4. WithChips(h) \ {s} # {}
  <2>1. ~(h.currentBet + 1 <= h.currentBet) BY DEF HandType
  <2> QED BY <1>3, <2>1 DEF Contestable
<1> QED BY <1>2, <1>4 DEF WithChips

\* The next street begins backed, since who is active had called.
LEMMA ReopenedIsBacked ==
    ASSUME NEW g \in HandType, NEW h \in HandType, Backed(g), Paid(g), Reopened(g, h)
    PROVE  Backed(h) /\ (h.phase = "discard" => Paid(h))
<1>1. ASSUME h.phase = "discard", SameBets(g, h) PROVE Backed(h) /\ Paid(h)
  <2>1. Paid(h) BY <1>1 DEF Paid, SameBets, Active
  <2> QED BY <1>1, <2>1, SameBetsBacked
<1>2. ASSUME h.phase = "betting", h.committed = g.committed, h.status = g.status,
             h.currentBet = 0, \A s \in Seats : h.bet[s] = 0, ~BettingLocked(g)
      PROVE  Backed(h)
  <2>1. Contenders(h) = Contenders(g) /\ Active(h) = Active(g) BY <1>2 DEF Contenders, Active
  <2>2. \A s \in Seats : /\ g.bet[s] \in Nat /\ g.currentBet \in Nat /\ g.committed[s] \in Nat
                         /\ g.bet[s] <= g.currentBet
                         /\ Base(h, s) = g.committed[s] /\ Base(g, s) = g.committed[s] - g.bet[s]
    BY <1>2 DEF HandType, Base, Backed, NoneOver
  <2>3. ASSUME NEW w \in Seats, g.bet[w] = g.currentBet, Deepest(g, w)
        PROVE  Deepest(h, w)
    BY <2>2, <2>3 DEF Deepest
  <2>4. ASSUME NEW s \in Active(h) PROVE Backs(h, s) /\ s \in Seats
    <3>1. s \in Seats /\ s \in Active(g) /\ s \in Contenders(h) BY <2>1 DEF Active, Contenders
    <3>2. g.bet[s] = g.currentBet BY <2>2, <3>1 DEF Paid
    <3>3. Deepest(h, s) BY <2>3, <3>1, <3>2 DEF Backed
    <3> QED BY <1>2, <3>1, <3>3 DEF Backs
  <2>5. \E w \in Seats : Backs(h, w)
    <3>1. PICK w \in Seats : Backs(g, w) BY DEF Backed
    <3> QED BY <1>2, <2>1, <2>3, <3>1 DEF Backs
  <2>6. ASSUME NEW s \in Seats, OnTurn(h, s) PROVE \E w \in Seats \ {s} : Backs(h, w)
    <3>1. PICK a, o \in Active(h) : a # o BY <1>2, <2>1, TwoCanBet
    <3> QED BY <2>4, <3>1
  <2>7. LineUp(h, h.turn)
    <3>1. \A r \in Active(h) : ~(h.bet[r] < h.currentBet) BY <1>2 DEF Active
    <3> QED BY <3>1 DEF LineUp
  <2>8. NoneOver(h) BY <1>2 DEF NoneOver
  <2>9. \A s \in Active(h) : Deepest(h, s) BY <2>4 DEF Backs
  <2> QED BY <2>5, <2>6, <2>7, <2>8, <2>9 DEF Backed
<1> QED BY <1>1, <1>2 DEF Reopened

\* A hand that is played is backed, and paid when it stops for the discards.
Steady(h) == Playing(h) => Backed(h) /\ (h.phase = "discard" => Paid(h))

\* The discards of a street, and what follows by itself.
LEMMA RunDiscardsSteady ==
    ASSUME NEW t \in TableType, Steady(t.hand), NEW u \in RunDiscards(t)
    PROVE  Steady(u.hand)
<1> DEFINE Ran(x) == x \in TableType /\ Steady(x.hand)
<1>1. PICK v \in CloseDiscard(t) : \E w \in CloseDiscard(v) : u \in CloseDiscard(w)
  BY DEF RunDiscards
<1>2. PICK w \in CloseDiscard(v) : u \in CloseDiscard(w) BY <1>1
<1>3. ASSUME NEW x, Ran(x), NEW y \in CloseDiscard(x) PROVE Ran(y)
  <2>1. y \in TableType BY <1>3, CloseDiscardKeeps DEF Keeps
  <2>2. ASSUME x.hand.phase = "discard", Reopened(x.hand, y.hand) PROVE Steady(y.hand)
    <3>1. Backed(x.hand) /\ Paid(x.hand) BY <1>3, <2>2 DEF Steady, Playing
    <3> QED BY <1>3, <2>1, <2>2, <3>1, HandIsTyped, ReopenedIsBacked DEF Steady
  <2>3. ASSUME ShownDown(x, y) PROVE Steady(y.hand)
    BY <2>3, ShownDownIsOver DEF Steady, Playing
  <2> QED BY <1>3, <2>1, <2>2, <2>3, CloseDiscardPlays
<1>4. Ran(t) OBVIOUS
<1> HIDE DEF Ran
<1>5. Ran(v) BY <1>3, <1>4
<1>6. Ran(w) BY <1>2, <1>3, <1>5
<1>7. Ran(u) BY <1>2, <1>3, <1>6
<1> QED BY <1>7 DEF Ran

\* advancePendingPhase, of a round that has been paid.
LEMMA AdvancePendingPhaseSteady ==
    ASSUME NEW t \in TableType, Playing(t.hand), Backed(t.hand), Paid(t.hand),
           NEW u \in AdvancePendingPhase(t)
    PROVE  Steady(u.hand)
<1> DEFINE h == [t.hand EXCEPT !.waiting = FALSE]
           g == [h EXCEPT !.clock = FALSE]
           v == WithHand(t, g)
           w == WithHand(t, h)
<1>1. t.hand \in HandType BY HandIsTyped
<1>2. /\ h \in HandType /\ SameBets(t.hand, h) /\ h.phase = t.hand.phase
      /\ g \in HandType /\ SameBets(t.hand, g) /\ g.phase = t.hand.phase
  BY <1>1 DEF HandType, SameBets
<1>3. \/ u = w /\ t.hand.phase = "discard"
      \/ u \in RunDiscards(OpenStreet(v, "flop", 3))
      \/ u \in RunDiscards(OpenDiscard(v))
  BY <1>2 DEF AdvancePendingPhase, Playing
<1> HIDE DEF h, g
<1>4. /\ v \in TableType /\ v.hand = g /\ w \in TableType /\ w.hand = h /\ Playing(v.hand)
  BY <1>2, WithHandEffect DEF Playing
<1> HIDE DEF v, w
<1>5. ASSUME NEW x \in TableType, Reopened(t.hand, x.hand) PROVE Steady(x.hand)
  BY <1>1, <1>5, HandIsTyped, ReopenedIsBacked DEF Steady
<1>6. CASE u = w /\ t.hand.phase = "discard"
  <2>1. Reopened(t.hand, w.hand) BY <1>2, <1>4, <1>6 DEF Reopened
  <2> QED BY <1>4, <1>5, <1>6, <2>1
<1>7. CASE u \in RunDiscards(OpenStreet(v, "flop", 3))
  <2> DEFINE x == OpenStreet(v, "flop", 3)
  <2>1. Reopened(v.hand, x.hand) BY <1>4, OpenStreetReopens DEF Streets
  <2>2. x \in TableType BY <1>4, OpenStreetKeeps DEF Keeps, Streets
  <2> HIDE DEF x
  <2>3. BettingLocked(v.hand) <=> BettingLocked(t.hand)
    BY <1>2, <1>4 DEF SameBets, BettingLocked, Contestable, AllChips, WithChips, Active
  <2>4. Reopened(t.hand, x.hand) BY <1>2, <1>4, <2>1, <2>3 DEF Reopened, SameBets
  <2> QED BY <1>5, <1>7, <2>2, <2>4, RunDiscardsSteady DEF x
<1>8. CASE u \in RunDiscards(OpenDiscard(v))
  <2> DEFINE x == OpenDiscard(v)
  <2>1. SameBets(v.hand, x.hand) /\ x.hand.phase = "discard" BY <1>4, DiscardsMark
  <2>2. x \in TableType BY <1>4, OpenDiscardKeeps DEF Keeps
  <2> HIDE DEF x
  <2>3. Reopened(t.hand, x.hand) BY <1>2, <1>4, <2>1 DEF Reopened, SameBets
  <2> QED BY <1>5, <1>8, <2>2, <2>3, RunDiscardsSteady DEF x
<1> QED BY <1>3, <1>6, <1>7, <1>8

\* applyDiscard.
LEMMA ApplyDiscardSteady ==
    ASSUME NEW t \in TableType, NEW s \in Seats, Steady(t.hand), t.hand.phase = "discard",
           NEW u \in ApplyDiscard(t, s)
    PROVE  Steady(u.hand)
<1> DEFINE v == Discarded(t, s)
<1>1. v \in TableType BY DiscardedKeeps DEF Keeps
<1>2. SameBets(t.hand, v.hand) /\ v.hand.phase = "discard" BY DiscardsMark
<1>3. u \in RunDiscards(v) BY DEF ApplyDiscard
<1> HIDE DEF v
<1>4. Backed(t.hand) /\ Paid(t.hand) BY DEF Steady, Playing
<1>5. Steady(v.hand)
  BY <1>1, <1>2, <1>4, HandIsTyped, ReopenedIsBacked DEF Reopened, Steady
<1> QED BY <1>1, <1>3, <1>5, RunDiscardsSteady

\* autoDiscard.
LEMMA AutoDiscardSteady ==
    ASSUME NEW t \in TableType, Steady(t.hand), t.hand.phase = "discard",
           NEW u \in AutoDiscard(t)
    PROVE  Steady(u.hand)
<1> DEFINE cards == [s \in Seats |-> IF s \in t.hand.pending THEN t.hand.cards[s] - 1
                                     ELSE t.hand.cards[s]]
           h == [t.hand EXCEPT !.cards = cards, !.pending = {}]
           v == WithHand(t, h)
<1>1. t.hand \in HandType BY HandIsTyped
<1>2. cards \in [Seats -> Int] BY <1>1, CardsType
<1>3. u \in RunDiscards(v) BY DEF AutoDiscard
<1> HIDE DEF cards
<1>4. h \in HandType /\ SameBets(t.hand, h) /\ h.phase = t.hand.phase
  BY <1>1, <1>2 DEF HandType, SameBets
<1> HIDE DEF h
<1>5. v \in TableType /\ v.hand = h BY <1>4, WithHandEffect
<1> HIDE DEF v
<1>6. Backed(t.hand) /\ Paid(t.hand) BY DEF Steady, Playing
<1>7. Steady(v.hand)
  BY <1>1, <1>4, <1>5, <1>6, ReopenedIsBacked DEF Reopened, Steady
<1> QED BY <1>3, <1>5, <1>7, RunDiscardsSteady

\* After a move somebody backs the bets, and who has not spoken is in line after the mover.
Moved(h, s) ==
    /\ NoneOver(h)
    /\ \A r \in Active(h) : Deepest(h, r)
    /\ \E w \in Seats : Backs(h, w)
    /\ LineUp(h, s)
    /\ s \in Active(h) => h.bet[s] = h.currentBet

\* What s has put in on earlier streets is not touched by a payment of this one.
LEMMA PutsInKeepsBase ==
    ASSUME NEW t \in TableType, NEW u, NEW s \in Seats, NEW pay \in Int, PutsIn(t, u, s, pay),
           t.hand.status[s] = "active"
    PROVE  /\ \A r \in Seats : Base(u.hand, r) = Base(t.hand, r)
           /\ \A r \in Seats : Deepest(t.hand, r) => Deepest(u.hand, r)
           /\ Active(u.hand) \subseteq Active(t.hand)
           /\ Contenders(u.hand) = Contenders(t.hand)
<1>1. /\ t.hand.bet[s] \in Nat /\ t.hand.committed[s] \in Nat BY HandIsTyped DEF HandType
<1>2. Base(u.hand, s) = Base(t.hand, s) BY <1>1 DEF PutsIn, Base
<1>3. \A r \in Seats : Base(u.hand, r) = Base(t.hand, r)
  BY <1>2 DEF PutsIn, OthersKeep, Base
<1>4. \A r \in Seats : Deepest(t.hand, r) => Deepest(u.hand, r) BY <1>3 DEF Deepest
<1>5. /\ u.hand.status[s] \in {"active", "allIn"}
      /\ \A r \in Seats \ {s} : u.hand.status[r] = t.hand.status[r]
  BY DEF PutsIn, OthersKeep
<1> QED BY <1>3, <1>4, <1>5 DEF Active, Contenders

\* A fold: another player backs the bets.
LEMMA FoldMoves ==
    ASSUME NEW t \in TableType, NEW u, NEW s \in Seats, Backed(t.hand), OnTurn(t.hand, s),
           Folds(t, u, s)
    PROVE  Moved(u.hand, s)
<1>1. /\ \A r \in Seats : /\ u.hand.bet[r] = t.hand.bet[r]
                          /\ u.hand.committed[r] = t.hand.committed[r]
      /\ u.hand.currentBet = t.hand.currentBet
      /\ Active(u.hand) \subseteq Active(t.hand) \ {s}
      /\ Contenders(t.hand) \ {s} \subseteq Contenders(u.hand)
      /\ \A r \in Seats \ {s} : u.hand.acted[r] = t.hand.acted[r]
      /\ t.hand.turn = s
  BY DEF Folds, OthersKeep, OthersActedSame, Active, Contenders, OnTurn
<1>2. \A r \in Seats : Deepest(t.hand, r) => Deepest(u.hand, r) BY <1>1 DEF Deepest, Base
<1>3. NoneOver(u.hand) BY <1>1 DEF Backed, NoneOver
<1>4. \A r \in Active(u.hand) : Deepest(u.hand, r) BY <1>1, <1>2 DEF Backed, Active
<1>5. \E w \in Seats : Backs(u.hand, w)
  <2>1. PICK w \in Seats \ {s} : Backs(t.hand, w) BY DEF Backed
  <2> QED BY <1>1, <1>2, <2>1 DEF Backs
<1>6. LineUp(u.hand, s)
  <2>1. LineUp(t.hand, s) BY <1>1 DEF Backed, OnTurn
  <2> QED BY <1>1, <2>1 DEF LineUp, Active
<1> QED BY <1>1, <1>3, <1>4, <1>5, <1>6 DEF Moved

\* A payment that settles what there is to call.
LEMMA PaymentMoves ==
    ASSUME NEW t \in TableType, NEW u, NEW s \in Seats, NEW pay \in Int,
           Backed(t.hand), OnTurn(t.hand, s), PaysUp(t, u, s, pay), Settled(t.hand, s, pay)
    PROVE  Moved(u.hand, s)
<1>1. /\ PutsIn(t, u, s, pay) /\ u.hand.currentBet = t.hand.currentBet
      /\ u.hand.acted[s] /\ \A r \in Seats \ {s} : u.hand.acted[r] = t.hand.acted[r]
      /\ t.hand.turn = s /\ t.hand.status[s] = "active"
  BY DEF PaysUp, OthersActedSame, OnTurn
<1>2. /\ \A r \in Seats : Base(u.hand, r) = Base(t.hand, r)
      /\ \A r \in Seats : Deepest(t.hand, r) => Deepest(u.hand, r)
      /\ Active(u.hand) \subseteq Active(t.hand)
      /\ Contenders(u.hand) = Contenders(t.hand)
  BY <1>1, PutsInKeepsBase
<1>3. /\ \A r \in Seats \ {s} : u.hand.bet[r] = t.hand.bet[r]
      /\ u.hand.bet[s] = t.hand.bet[s] + pay
  BY <1>1 DEF PutsIn, OthersKeep
<1>4. /\ t.hand.bet[s] \in Nat /\ t.hand.currentBet \in Nat /\ t.hand.stack[s] \in Nat
  BY HandIsTyped DEF HandType
<1>5. u.hand.bet[s] <= u.hand.currentBet BY <1>1, <1>3, <1>4 DEF Settled
<1>6. NoneOver(u.hand) BY <1>1, <1>3, <1>5 DEF Backed, NoneOver
<1>7. s \in Active(u.hand) => u.hand.bet[s] = u.hand.currentBet
  <2>1. t.hand.stack[s] = pay => u.hand.status[s] = "allIn" BY <1>1 DEF PutsIn
  <2> QED BY <1>1, <1>3, <2>1 DEF Settled, Active
<1>8. \A r \in Active(u.hand) : Deepest(u.hand, r) BY <1>2 DEF Backed, Active
<1>9. \E w \in Seats : Backs(u.hand, w)
  <2>1. PICK w \in Seats \ {s} : Backs(t.hand, w) BY DEF Backed
  <2> QED BY <1>1, <1>2, <1>3, <2>1 DEF Backs
<1>10. LineUp(u.hand, s)
  <2> SUFFICES ASSUME NEW b \in Active(u.hand), NEW r \in Active(u.hand),
                      u.hand.bet[b] = u.hand.currentBet, ~u.hand.acted[b],
                      u.hand.bet[r] < u.hand.currentBet
               PROVE  s # b /\ (r = s \/ Distance(s, r) < Distance(s, b))
    BY DEF LineUp
  <2>1. b # s BY <1>1
  <2>2. r # s BY <1>1, <1>4, <1>7
  <2>3. b \in Seats /\ r \in Seats BY DEF Active
  <2>4. LineUp(t.hand, s) BY <1>1 DEF Backed, OnTurn
  <2> QED BY <1>1, <1>2, <1>3, <2>1, <2>2, <2>3, <2>4 DEF LineUp
<1> QED BY <1>6, <1>7, <1>8, <1>9, <1>10 DEF Moved

\* A raise: who raises backs his bet.
LEMMA RaiseMoves ==
    ASSUME NEW t \in TableType, NEW u, u.hand \in HandType, NEW s \in Seats, NEW pay \in Int,
           Backed(t.hand), OnTurn(t.hand, s), RaisesBy(t, u, s, pay)
    PROVE  Moved(u.hand, s)
<1>1. /\ PutsIn(t, u, s, pay)
      /\ u.hand.currentBet = u.hand.bet[s] /\ u.hand.currentBet > t.hand.currentBet
      /\ u.hand.acted[s] /\ t.hand.status[s] = "active"
  BY DEF RaisesBy, OnTurn
<1>2. /\ \A r \in Seats : Deepest(t.hand, r) => Deepest(u.hand, r)
      /\ Active(u.hand) \subseteq Active(t.hand)
      /\ Contenders(u.hand) = Contenders(t.hand)
  BY <1>1, PutsInKeepsBase
<1>3. \A r \in Seats \ {s} : u.hand.bet[r] < u.hand.currentBet
  <2> SUFFICES ASSUME NEW r \in Seats \ {s} PROVE u.hand.bet[r] < u.hand.currentBet OBVIOUS
  <2>1. u.hand.bet[r] = t.hand.bet[r] /\ t.hand.bet[r] <= t.hand.currentBet
    BY <1>1 DEF PutsIn, OthersKeep, Backed, NoneOver
  <2>2. /\ t.hand.bet[r] \in Nat /\ t.hand.currentBet \in Nat /\ u.hand.currentBet \in Nat
    BY HandIsTyped DEF HandType
  <2> QED BY <1>1, <2>1, <2>2
<1>4. u.hand.currentBet \in Nat /\ \A r \in Seats : u.hand.bet[r] \in Nat BY DEF HandType
<1>5. NoneOver(u.hand) BY <1>1, <1>3, <1>4 DEF NoneOver
<1>6. \A r \in Active(u.hand) : Deepest(u.hand, r) BY <1>2 DEF Backed, Active
<1>7. Backs(u.hand, s)
  <2>1. s \in Active(t.hand) /\ s \in Contenders(t.hand) BY <1>1 DEF Active, Contenders
  <2> QED BY <1>1, <1>2, <2>1 DEF Backed, Backs
<1>8. LineUp(u.hand, s)
  <2>1. \A b \in Active(u.hand) : u.hand.bet[b] = u.hand.currentBet => b = s
    BY <1>3, <1>4 DEF Active
  <2> QED BY <1>1, <2>1 DEF LineUp
<1> QED BY <1>1, <1>5, <1>6, <1>7, <1>8 DEF Moved

\* The turn passes to the next in line, who may fold without uncovering the pots.
LEMMA PassTurnBacked ==
    ASSUME NEW t \in TableType, NEW s \in Seats, t.hand.turn = s, Moved(t.hand, s),
           ~RoundComplete(t.hand)
    PROVE  Backed(PassTurn(t).hand)
<1> DEFINE h == t.hand
           W == {r \in Active(h) : h.bet[r] < h.currentBet \/ ~h.acted[r]}
           n == FirstAfter(s, W)
           k == PassTurn(t).hand
<1>1. h \in HandType BY HandIsTyped
<1>2. SameBets(h, k) /\ k.turn = NextToAct(h) BY PassTurnMarks
<1>3. /\ Contenders(k) = Contenders(h) /\ Active(k) = Active(h)
      /\ \A r \in Seats : Backs(k, r) <=> Backs(h, r)
      /\ \A r \in Seats : Deepest(k, r) <=> Deepest(h, r)
  BY <1>2 DEF SameBets, Contenders, Active, Backs, Deepest, Base
<1>4. W \in SUBSET Seats /\ W # {}
  <2>1. PICK r \in WithChips(h) : ~(h.bet[r] = h.currentBet /\ h.acted[r]) BY DEF RoundComplete
  <2>2. r \in Active(h) /\ r \in Seats BY <2>1 DEF WithChips, Active
  <2>3. h.bet[r] \in Nat /\ h.currentBet \in Nat /\ h.bet[r] <= h.currentBet
    BY <1>1, <2>2 DEF HandType, Moved, NoneOver
  <2>4. r \in W BY <2>1, <2>2, <2>3
  <2> QED BY <2>4 DEF Active
<1>5. k.turn = n BY <1>2, <1>4 DEF NextToAct
<1>6. n \in W /\ \A x \in W : x # n => Distance(s, n) < Distance(s, x)
  BY <1>4, FirstAfterIsFirst
<1> HIDE DEF k, n
<1>7. LineUp(h, n)
  <2> SUFFICES ASSUME NEW b \in Active(h), NEW r \in Active(h),
                      h.bet[b] = h.currentBet, ~h.acted[b], h.bet[r] < h.currentBet
               PROVE  n # b /\ (r = n \/ Distance(n, r) < Distance(n, b))
    BY DEF LineUp
  <2>1. b \in W /\ r \in W /\ b \in Seats /\ r \in Seats /\ n \in Seats BY <1>4, <1>6
  <2>2. h.bet[r] \in Nat /\ h.currentBet \in Nat BY <1>1, <2>1 DEF HandType
  <2>3. r # s /\ r # b BY <2>2 DEF Moved
  <2>4. s # b /\ Distance(s, r) < Distance(s, b) BY <2>3 DEF Moved, LineUp
  <2>5. /\ Distance(s, n) \in Nat /\ Distance(s, r) \in Nat /\ Distance(s, b) \in Nat
        /\ Distance(s, n) < Distance(s, r) =>
              Distance(n, r) = Distance(s, r) - Distance(s, n) - 1
        /\ Distance(s, n) < Distance(s, b) =>
              Distance(n, b) = Distance(s, b) - Distance(s, n) - 1
        /\ Distance(s, b) <= Distance(s, s) /\ (Distance(s, b) = Distance(s, s) => b = s)
    BY <2>1, Distances
  <2>6. r # n => Distance(s, n) < Distance(s, r) BY <1>6, <2>1
  <2>7. b # n => Distance(s, n) < Distance(s, b) BY <1>6, <2>1
  <2>8. CASE r = n BY <2>3, <2>8
  <2>9. CASE r # n BY <2>4, <2>5, <2>6, <2>9
  <2> QED BY <2>8, <2>9
<1>8. \E w \in Seats \ {n} : Backs(h, w)
  <2>1. PICK w \in Seats : Backs(h, w) BY DEF Moved
  <2>2. CASE w # n BY <2>1, <2>2
  <2>3. CASE w = n
    <3>1. h.bet[n] = h.currentBet BY <2>1, <2>3 DEF Backs
    <3>2. h.bet[n] \in Nat /\ n \in Active(h) BY <1>1, <1>4, <1>6 DEF HandType
    <3>3. ~h.acted[n] BY <1>6, <3>1, <3>2
    <3>4. ASSUME NEW r \in Active(h) PROVE Backs(h, r) /\ r \in Seats
      <4>1. ~(h.bet[r] < h.currentBet) BY <1>7, <3>1, <3>2, <3>3 DEF LineUp
      <4>2. r \in Seats /\ r \in Contenders(h) BY DEF Active, Contenders
      <4>3. h.bet[r] = h.currentBet
        BY <1>1, <4>1, <4>2 DEF HandType, Moved, NoneOver
      <4> QED BY <4>2, <4>3 DEF Backs, Moved
    <3>5. Paid(h)
      <4>1. \A r \in Active(h) : h.bet[r] = h.currentBet /\ r \in Seats BY <3>4 DEF Backs
      <4> QED BY <1>1, <4>1 DEF Paid, HandType
    <3>6. ~BettingLocked(h) BY DEF RoundComplete
    <3>7. PICK a, o \in Active(h) : a # o BY <1>1, <3>5, <3>6, TwoCanBet
    <3> QED BY <3>4, <3>7
  <2> QED BY <2>2, <2>3
<1>9. \A r \in Seats : OnTurn(k, r) => \E w \in Seats \ {r} : Backs(k, w)
  BY <1>3, <1>5, <1>8 DEF OnTurn
<1>10. LineUp(k, k.turn) BY <1>2, <1>3, <1>5, <1>7 DEF LineUp, SameBets
<1>11. NoneOver(k) BY <1>2 DEF NoneOver, SameBets, Moved
<1>12. (\A r \in Active(k) : Deepest(k, r)) /\ \E w \in Seats : Backs(k, w)
  BY <1>3 DEF Moved, Active
<1> QED BY <1>9, <1>10, <1>11, <1>12 DEF Backed, k

\* applyAction, of a player who shoves all his chips when he shoves.
LEMMA ApplyActionSteady ==
    ASSUME NEW t \in TableType, NEW s \in Seats, NEW action \in Actions,
           BetsAreCommitted(t.hand), Chipped(t.hand), Accepts(t.hand, s, action),
           Backed(t.hand), WholeShove(t.hand, s, action)
    PROVE  Steady(ApplyAction(t, s, action).hand)
<1> DEFINE v == Move(t, s, action)
           u == ApplyAction(t, s, action)
<1>1. v \in TableType BY MoveKeeps DEF Keeps
<1>2. OnTurn(t.hand, s) BY DEF Accepts
<1>3. \/ Folds(t, v, s)
      \/ \E pay \in Int : PaysUp(t, v, s, pay) /\ Settled(t.hand, s, pay)
      \/ \E pay \in Int : RaisesBy(t, v, s, pay)
  BY MovePays
<1>4. u = IF Alone(v.hand) THEN FinishHand(v, NoRank)
          ELSE IF RoundComplete(v.hand) THEN Queue(v) ELSE PassTurn(v)
  BY DEF ApplyAction
<1> HIDE DEF v, u
<1>5. Moved(v.hand, s)
  <2>1. v.hand \in HandType BY <1>1, HandIsTyped
  <2> QED BY <1>2, <1>3, <2>1, FoldMoves, PaymentMoves, RaiseMoves
<1>6. v.hand.turn = s /\ v.hand.phase = "betting"
  <2>1. OthersKeep(t, v, s) BY <1>3 DEF Folds, PaysUp, RaisesBy, PutsIn
  <2> QED BY <1>2, <2>1 DEF OthersKeep, OnTurn
<1>7. CASE Alone(v.hand)
  <2>1. u.hand.phase = "showdown" BY <1>1, <1>4, <1>7, FinishHandPays
  <2> QED BY <2>1 DEF Steady, Playing, u
<1>8. CASE ~Alone(v.hand) /\ RoundComplete(v.hand)
  <2>1. /\ SameBets(v.hand, u.hand) /\ u.hand.phase = "betting" /\ u.hand.waiting
    BY <1>1, <1>4, <1>6, <1>8, QueueMarks
  <2>2. /\ Contenders(u.hand) = Contenders(v.hand) /\ Active(u.hand) = Active(v.hand)
        /\ \A r \in Seats : Deepest(u.hand, r) <=> Deepest(v.hand, r)
        /\ \A r \in Seats : Backs(u.hand, r) <=> Backs(v.hand, r)
    BY <2>1 DEF SameBets, Contenders, Active, Deepest, Base, Backs
  <2>3. /\ NoneOver(u.hand) /\ \A r \in Active(u.hand) : Deepest(u.hand, r)
        /\ \E w \in Seats : Backs(u.hand, w)
    BY <1>5, <2>1, <2>2 DEF Moved, NoneOver, SameBets, Active
  <2>4. Backed(u.hand) BY <2>1, <2>3 DEF Backed, OnTurn
  <2> QED BY <2>1, <2>4 DEF Steady, u
<1>9. CASE ~Alone(v.hand) /\ ~RoundComplete(v.hand)
  <2>1. Backed(u.hand) BY <1>1, <1>4, <1>5, <1>6, <1>9, PassTurnBacked
  <2>2. u.hand.phase = "betting" BY <1>1, <1>4, <1>6, <1>9, PassTurnMarks
  <2> QED BY <2>1, <2>2 DEF Steady, u
<1> QED BY <1>7, <1>8, <1>9

\* Of two players no more, and of more a third.
LEMMA TwoOrMore ==
    ASSUME NEW S \in SUBSET Seats, NEW a \in S, NEW b \in S, a # b
    PROVE  IF Cardinality(S) = 2 THEN S = {a, b} ELSE \E c \in S : c # a /\ c # b
<1>1. IsFiniteSet(S) /\ IsFiniteSet({b})
  <2>1. IsFiniteSet(Seats) BY SeatsFinite
  <2> QED BY <2>1, FS_Subset, FS_Singleton
<1>2. Cardinality({b}) = 1 /\ a \notin {b} BY FS_Singleton
<1>3. IsFiniteSet({a, b}) /\ Cardinality({a, b}) = 2
  <2>1. /\ IsFiniteSet({b} \cup {a})
        /\ Cardinality({b} \cup {a}) = IF a \in {b} THEN Cardinality({b}) ELSE Cardinality({b}) + 1
    BY <1>1, FS_AddElement, Zenon
  <2>2. Cardinality({b} \cup {a}) = 2 BY <1>2, <2>1
  <2>3. {a, b} = {b} \cup {a} OBVIOUS
  <2> QED BY <2>1, <2>2, <2>3
<1>4. {a, b} \in SUBSET S OBVIOUS
<1>5. Cardinality(S) = 2 => S = {a, b} BY <1>1, <1>3, <1>4, FS_Subset
<1>6. ASSUME ~(\E c \in S : c # a /\ c # b) PROVE Cardinality(S) = 2
  <2>1. S = {a, b} BY <1>6
  <2> QED BY <1>3, <2>1
<1> QED BY <1>5, <1>6

\* The blinds are backed by the big blind, unless the small blind is the bigger bet.
LEMMA BlindsAreBacked ==
    ASSUME NEW t \in TableType, NEW u \in TableType, NEW sb \in Seats, NEW bb \in Seats,
           DealtOut(t, u, sb, bb), FirstToAct(t, u, sb, bb), NoneOver(u.hand)
    PROVE  Backed(u.hand)
<1> DEFINE h == u.hand
           A == Active(h)
<1>1. h \in HandType BY HandIsTyped
<1>2. \A r \in Seats : /\ h.bet[r] \in Nat /\ h.committed[r] = h.bet[r] /\ h.currentBet \in Nat
                       /\ t.seatStack[r] \in Nat
  BY <1>1 DEF HandType, DealtOut, TableType
<1>3. \A r \in Seats : Deepest(h, r) BY <1>2 DEF Deepest, Base
<1>4. /\ sb \in Ready(t) /\ bb \in Ready(t) /\ sb # bb /\ Ready(t) \in SUBSET Seats
      /\ \A r \in Ready(t) : t.seatStack[r] > 0
      /\ h.currentBet = h.bet[bb] /\ h.phase = "betting"
  BY DEF DealtOut, Ready
<1>5. \A r \in Seats : h.status[r] = IF r \notin Ready(t) THEN "none"
                                     ELSE IF h.bet[r] = t.seatStack[r] THEN "allIn" ELSE "active"
  BY DEF DealtOut
<1>6. \A r \in Seats : r # sb /\ r # bb => h.bet[r] = 0 BY DEF DealtOut
<1>7. A \in SUBSET Seats /\ A \in SUBSET Ready(t) BY <1>5 DEF Active
<1>8. Backs(h, bb) BY <1>3, <1>4, <1>5 DEF Backs, Contenders
<1>9. h.currentBet > 0
  <2>1. h.bet[bb] = AtMost(BigBlind, t.seatStack[bb]) BY <1>4 DEF DealtOut
  <2> QED BY <1>2, <1>4, <2>1, BlindsAssumption DEF AtMost
<1>10. A # {} => h.turn = IF Cardinality(Ready(t)) = 2 THEN sb ELSE FirstAfter(bb, A)
  BY DEF FirstToAct
<1>11. bb = FirstAfter(sb, Ready(t)) BY DEF FirstToAct
<1>12. IF Cardinality(Ready(t)) = 2 THEN Ready(t) = {sb, bb}
       ELSE \E c \in A : c # sb /\ c # bb
  <2>1. CASE Cardinality(Ready(t)) = 2 BY <1>4, <2>1, TwoOrMore
  <2>2. CASE Cardinality(Ready(t)) # 2
    <3>1. PICK c \in Ready(t) : c # sb /\ c # bb BY <1>4, <2>2, TwoOrMore
    <3>2. c \in Seats /\ h.bet[c] = 0 /\ t.seatStack[c] > 0 BY <1>4, <1>6, <3>1
    <3>3. h.status[c] = "active" BY <1>2, <1>5, <3>1, <3>2
    <3> QED BY <2>2, <3>1, <3>2, <3>3 DEF Active
  <2> QED BY <2>1, <2>2
<1> HIDE DEF A
<1>13. A # {} => h.turn # bb
  <2>1. CASE Cardinality(Ready(t)) = 2 BY <1>4, <1>10, <2>1
  <2>2. CASE Cardinality(Ready(t)) # 2 BY <1>7, <1>10, <1>12, <2>2, AnotherIsFirst
  <2> QED BY <2>1, <2>2
<1>14. LineUp(h, h.turn)
  <2> SUFFICES ASSUME NEW b \in A, NEW r \in A,
                      h.bet[b] = h.currentBet, ~h.acted[b], h.bet[r] < h.currentBet
               PROVE  h.turn # b /\ (r = h.turn \/ Distance(h.turn, r) < Distance(h.turn, b))
    BY DEF LineUp, A
  <2>1. b \in Seats /\ r \in Seats /\ b # r /\ r # bb BY <1>2, <1>4, <1>7
  <2>2. b = sb \/ b = bb BY <1>6, <1>9, <2>1
  <2>3. CASE Cardinality(Ready(t)) = 2
    <3>1. r = sb /\ b = bb BY <1>7, <1>12, <2>1, <2>2, <2>3
    <3> QED BY <1>4, <1>10, <2>3, <3>1
  <2>4. CASE Cardinality(Ready(t)) # 2
    <3>1. h.turn = FirstAfter(bb, A) BY <1>10, <2>4
    <3> DEFINE n == FirstAfter(bb, A)
    <3>2. n \in A /\ \A x \in A : x # n => Distance(bb, n) < Distance(bb, x)
      BY <1>7, FirstAfterIsFirst
    <3> HIDE DEF n
    <3>3. n \in Seats /\ n # bb BY <1>7, <1>13, <3>1, <3>2 DEF n
    <3>4. /\ Distance(bb, n) \in Nat /\ Distance(bb, r) \in Nat /\ Distance(bb, b) \in Nat
          /\ Distance(bb, n) < Distance(bb, r) =>
                Distance(n, r) = Distance(bb, r) - Distance(bb, n) - 1
          /\ Distance(bb, n) < Distance(bb, b) =>
                Distance(n, b) = Distance(bb, b) - Distance(bb, n) - 1
      BY <2>1, <3>3, Distances
    <3>5. Distance(bb, r) < Distance(bb, b)
      <4>1. CASE b = bb
        <5>1. Distance(bb, r) <= Distance(bb, bb) /\ (Distance(bb, r) = Distance(bb, bb) => r = bb)
          BY <2>1, Distances
        <5>2. Distance(bb, r) \in Nat /\ Distance(bb, bb) \in Nat BY <2>1, Distances
        <5> QED BY <2>1, <4>1, <5>1, <5>2
      <4>2. CASE b = sb
        <5>1. /\ Distance(sb, sb) \in Nat /\ Distance(sb, bb) \in Nat /\ Distance(sb, r) \in Nat
              /\ Distance(sb, r) <= Distance(sb, sb)
              /\ (Distance(sb, r) = Distance(sb, sb) => r = sb)
              /\ Distance(sb, bb) < Distance(sb, r) =>
                    Distance(bb, r) = Distance(sb, r) - Distance(sb, bb) - 1
              /\ Distance(sb, bb) < Distance(sb, sb) =>
                    Distance(bb, sb) = Distance(sb, sb) - Distance(sb, bb) - 1
          BY <2>1, Distances
        <5>2. r # bb => Distance(sb, bb) < Distance(sb, r)
          BY <1>4, <1>7, <1>11, FirstAfterIsFirst
        <5>3. Distance(sb, bb) < Distance(sb, sb)
          BY <1>4, <1>11, FirstAfterIsFirst
        <5> QED BY <2>1, <4>2, <5>1, <5>2, <5>3
      <4> QED BY <2>2, <4>1, <4>2
    <3>6. r # n => Distance(bb, n) < Distance(bb, r) BY <3>2
    <3>7. h.turn = n BY <3>1 DEF n
    <3> HIDE DEF h
    <3>8. CASE r = n BY <2>1, <3>7, <3>8
    <3>9. CASE r # n
      <4>1. n # b BY <3>4, <3>5, <3>6, <3>9
      <4>2. Distance(n, r) < Distance(n, b) BY <3>4, <3>5, <3>6, <3>9
      <4> QED BY <3>7, <4>1, <4>2
    <3> QED BY <3>8, <3>9
  <2> QED BY <2>3, <2>4
<1>15. ASSUME NEW s \in Seats, OnTurn(h, s) PROVE s # bb
  <2>1. s \in A BY <1>15 DEF OnTurn, Active, A
  <2> QED BY <1>13, <1>15, <2>1 DEF OnTurn
<1> QED BY <1>3, <1>8, <1>14, <1>15 DEF Backed, Active

\* Nobody has bet more than there is to call.
NobodyOverpays == InPlay(table) => NoneOver(Hand)

\* Who shoves less than all his chips pays at least the call.
WholeShoves == \A s \in Seats, action \in Actions : Act(s, action) => WholeShove(Hand, s, action)

\* A step on the hand keeps it backed.
LEMMA HandGoesSteady ==
    ASSUME HandInv, HandGoes, Steady(table.hand), WholeShoves
    PROVE  Steady(table'.hand)
<1>1. /\ table \in TableType /\ BetsAreCommitted(table.hand)
      /\ Playing(table.hand) => Chipped(table.hand)
      /\ Playing(table.hand) /\ table.hand.waiting => Paid(table.hand)
  BY DEF HandInv, IInv, TableInv, Accounts, Hand, Rules, ChipRules
<1>2. ASSUME NEW s \in Seats, NEW action \in Actions, Act(s, action) \/ action.type # "allIn",
             Accepts(Hand, s, action), table' = ApplyAction(table, s, action)
      PROVE  Steady(table'.hand)
  <2>1. Playing(table.hand) BY <1>2 DEF Accepts, OnTurn, Playing, Hand
  <2>2. WholeShove(table.hand, s, action) BY <1>2 DEF WholeShoves, WholeShove, Hand
  <2>3. Backed(table.hand) BY <2>1 DEF Steady
  <2> QED BY <1>1, <1>2, <2>1, <2>2, <2>3, ApplyActionSteady DEF Hand
<1>3. ASSUME Playing(Hand), Hand.waiting, table' \in AdvancePendingPhase(table)
      PROVE  Steady(table'.hand)
  <2>1. Backed(table.hand) /\ Paid(table.hand) BY <1>1, <1>3 DEF Steady, Hand
  <2> QED BY <1>1, <1>3, <2>1, AdvancePendingPhaseSteady DEF Hand
<1>4. ASSUME Hand.phase = "discard",
             table' \in AutoDiscard(table) \/ \E s \in Seats : table' \in ApplyDiscard(table, s)
      PROVE  Steady(table'.hand)
  BY <1>1, <1>4, AutoDiscardSteady, ApplyDiscardSteady DEF Hand
<1> QED BY <1>2, <1>3, <1>4 DEF HandGoes

\* What is dealt is backed, unless the small blind is the bigger bet.
LEMMA TableGoesSteady ==
    ASSUME NEW t, NEW u \in TableType, NEW brought, TableGoes(t, u, brought), Steady(t.hand),
           Playing(u.hand) => NoneOver(u.hand)
    PROVE  Steady(u.hand)
<1>1. PICK v : Brings(t, v, brought) /\ (Rests(v, u) \/ Deals(v, u)) BY DEF TableGoes
<1>2. ~Playing(NullHand) BY DEF NullHand, Playing
<1>3. Steady(v.hand) BY <1>1, <1>2 DEF Brings, Steady
<1>4. CASE Rests(v, u)
  <2>1. u.hand = v.hand \/ ~Playing(u.hand) BY <1>4 DEF Rests, Playing
  <2> QED BY <1>3, <2>1 DEF Steady
<1>5. CASE Deals(v, u)
  <2>1. PICK g \in TableType : ~(Cardinality(Ready(g)) < MinPlayers) /\ u = StartHand(g)
    BY <1>5 DEF Deals
  <2>2. PICK sb, bb \in Seats : DealtOut(g, u, sb, bb) /\ FirstToAct(g, u, sb, bb)
    BY <2>1, StartHandDeals
  <2>3. u.hand.phase = "betting" /\ Playing(u.hand) BY <2>2 DEF DealtOut, Playing
  <2>4. Backed(u.hand) BY <2>2, <2>3, BlindsAreBacked
  <2> QED BY <2>3, <2>4 DEF Steady
<1> QED BY <1>1, <1>4, <1>5

\* Every step keeps the hand backed.
LEMMA NextIsSteady ==
    ASSUME Departures = "never", WholeInv, Steady(table.hand), NobodyOverpays',
           [WholeShoves]_vars, [Next]_vars
    PROVE  Steady(table.hand)'
<1>1. HandInv /\ table \in TableType BY WholeFacts
<1>2. table' \in TableType BY NextKeepsWhole, WholeFacts, NextKeepsInvariant DEF IInv, TableInv
<1>3. Playing(table'.hand) => NoneOver(table'.hand)
  BY DEF NobodyOverpays, Playing, InPlay, Hand
<1>4. CASE vars' = vars BY <1>4 DEF vars
<1>5. CASE vars' # vars /\ HandGoes BY <1>1, <1>5, HandGoesSteady
<1>6. CASE \E brought \in Nat : TableGoes(table, table', brought)
  BY <1>2, <1>3, <1>6, TableGoesSteady
<1> QED BY <1>4, <1>5, <1>6, NextCounts

\* When every bet can be called and every shove pays its call or is of all the chips,
\* some player left in the hand always covers its pots.
THEOREM BackedPotsAreCovered ==
    ASSUME Departures = "never"
    PROVE  Spec /\ []NobodyOverpays /\ [][WholeShoves]_vars => []PotsCovered
<1> DEFINE Inv == WholeInv /\ Steady(table.hand)
<1>1. Init => Inv
  <2>1. Init => ~Playing(table.hand)
    BY DEF Init, SeatedTable, EmptyTable, NullHand, Playing
  <2> QED BY <2>1, InitWhole DEF Steady
<1>2. Inv /\ NobodyOverpays' /\ [WholeShoves]_vars /\ [Next]_vars => Inv'
  <2> SUFFICES ASSUME Inv, NobodyOverpays', [WholeShoves]_vars, [Next]_vars PROVE Inv' OBVIOUS
  <2> QED BY NextKeepsWhole, NextIsSteady
<1>3. Inv => PotsCovered
  <2> SUFFICES ASSUME Inv, InPlay(table) PROVE Covered(Hand) BY DEF PotsCovered
  <2>1. Playing(table.hand) BY DEF InPlay, Playing
  <2> QED BY <2>1, WholeFacts, HandIsTyped, BackedIsCovered DEF Steady, Hand
<1> QED BY <1>1, <1>2, <1>3, PTL DEF Spec

\* While a hand is played nobody has bet more than there is to call.
Callable(h) == Playing(h) => NoneOver(h)

\* A street that opens, or stops for its discards, stays callable.
LEMMA ReopenedIsCallable ==
    ASSUME NEW g, NEW h, Reopened(g, h), NoneOver(g)
    PROVE  NoneOver(h)
BY DEF Reopened, SameBets, NoneOver

\* The discards of a street keep the bets callable.
LEMMA RunDiscardsCallable ==
    ASSUME NEW t \in TableType, Callable(t.hand), NEW u \in RunDiscards(t)
    PROVE  Callable(u.hand)
<1> DEFINE Ran(x) == x \in TableType /\ Callable(x.hand)
<1>1. PICK v \in CloseDiscard(t) : \E w \in CloseDiscard(v) : u \in CloseDiscard(w)
  BY DEF RunDiscards
<1>2. PICK w \in CloseDiscard(v) : u \in CloseDiscard(w) BY <1>1
<1>3. ASSUME NEW x, Ran(x), NEW y \in CloseDiscard(x) PROVE Ran(y)
  <2>1. y \in TableType BY <1>3, CloseDiscardKeeps DEF Keeps
  <2>2. ASSUME x.hand.phase = "discard", Reopened(x.hand, y.hand) PROVE Callable(y.hand)
    BY <1>3, <2>2, ReopenedIsCallable DEF Callable, Playing
  <2>3. ASSUME ShownDown(x, y) PROVE Callable(y.hand)
    BY <2>3, ShownDownIsOver DEF Callable, Playing
  <2> QED BY <1>3, <2>1, <2>2, <2>3, CloseDiscardPlays
<1>4. Ran(t) OBVIOUS
<1> HIDE DEF Ran
<1>5. Ran(v) BY <1>3, <1>4
<1>6. Ran(w) BY <1>2, <1>3, <1>5
<1>7. Ran(u) BY <1>2, <1>3, <1>6
<1> QED BY <1>7 DEF Ran

\* A move keeps the bets callable.
LEMMA ApplyActionCallable ==
    ASSUME NEW t \in TableType, NEW s \in Seats, NEW action \in Actions,
           BetsAreCommitted(t.hand), Chipped(t.hand), Accepts(t.hand, s, action),
           NoneOver(t.hand)
    PROVE  Callable(ApplyAction(t, s, action).hand)
<1> DEFINE v == Move(t, s, action)
           u == ApplyAction(t, s, action)
<1>1. v \in TableType BY MoveKeeps DEF Keeps
<1>2. \/ Folds(t, v, s)
      \/ \E pay \in Int : PaysUp(t, v, s, pay)
      \/ \E pay \in Int : RaisesBy(t, v, s, pay)
  BY MovePays
<1>3. u = IF Alone(v.hand) THEN FinishHand(v, NoRank)
          ELSE IF RoundComplete(v.hand) THEN Queue(v) ELSE PassTurn(v)
  BY DEF ApplyAction
<1> HIDE DEF v, u
<1>4. NoneOver(v.hand)
  <2> SUFFICES ASSUME NEW r \in Seats PROVE v.hand.bet[r] <= v.hand.currentBet BY DEF NoneOver
  <2>1. /\ t.hand.bet[r] \in Nat /\ t.hand.currentBet \in Nat /\ t.hand.bet[r] <= t.hand.currentBet
        /\ v.hand.bet[r] \in Nat /\ v.hand.currentBet \in Nat
    BY <1>1, HandIsTyped DEF HandType, NoneOver
  <2>2. CASE Folds(t, v, s) BY <2>1, <2>2 DEF Folds, OthersKeep
  <2>3. CASE \E pay \in Int : PaysUp(t, v, s, pay)
    BY <2>1, <2>3 DEF PaysUp, PutsIn, OthersKeep
  <2>4. CASE \E pay \in Int : RaisesBy(t, v, s, pay)
    BY <2>1, <2>4 DEF RaisesBy, PutsIn, OthersKeep
  <2> QED BY <1>2, <2>2, <2>3, <2>4
<1>5. CASE Alone(v.hand)
  <2>1. u.hand.phase = "showdown" BY <1>1, <1>3, <1>5, FinishHandPays
  <2> QED BY <2>1 DEF Callable, Playing, u
<1>6. CASE ~Alone(v.hand)
  <2>1. SameBets(v.hand, u.hand) BY <1>1, <1>3, <1>6, QueueMarks, PassTurnMarks
  <2> QED BY <1>4, <2>1 DEF Callable, NoneOver, SameBets, u
<1> QED BY <1>5, <1>6

\* advancePendingPhase keeps the bets callable.
LEMMA AdvancePendingPhaseCallable ==
    ASSUME NEW t \in TableType, Playing(t.hand), Callable(t.hand), NEW u \in AdvancePendingPhase(t)
    PROVE  Callable(u.hand)
<1> DEFINE h == [t.hand EXCEPT !.waiting = FALSE]
           g == [h EXCEPT !.clock = FALSE]
           v == WithHand(t, g)
           w == WithHand(t, h)
<1>1. t.hand \in HandType /\ NoneOver(t.hand) BY HandIsTyped DEF Callable
<1>2. h \in HandType /\ SameBets(t.hand, h) /\ g \in HandType /\ SameBets(t.hand, g)
      /\ g.phase = t.hand.phase
  BY <1>1 DEF HandType, SameBets
<1>3. \/ u = w
      \/ u \in RunDiscards(OpenStreet(v, "flop", 3))
      \/ u \in RunDiscards(OpenDiscard(v))
  BY <1>2 DEF AdvancePendingPhase, Playing
<1> HIDE DEF h, g
<1>4. v \in TableType /\ v.hand = g /\ w.hand = h /\ Playing(v.hand)
  BY <1>2, WithHandEffect DEF Playing
<1>5. NoneOver(v.hand) /\ NoneOver(w.hand) BY <1>1, <1>2, <1>4 DEF NoneOver, SameBets
<1> HIDE DEF v, w
<1>6. ASSUME NEW x \in TableType, NoneOver(x.hand), NEW y \in RunDiscards(x)
      PROVE  Callable(y.hand)
  BY <1>6, RunDiscardsCallable DEF Callable
<1>7. CASE u \in RunDiscards(OpenStreet(v, "flop", 3))
  <2>1. Reopened(v.hand, OpenStreet(v, "flop", 3).hand) BY <1>4, OpenStreetReopens DEF Streets
  <2>2. OpenStreet(v, "flop", 3) \in TableType BY <1>4, OpenStreetKeeps DEF Keeps, Streets
  <2> QED BY <1>5, <1>6, <1>7, <2>1, <2>2, ReopenedIsCallable
<1>8. CASE u \in RunDiscards(OpenDiscard(v))
  <2>1. SameBets(v.hand, OpenDiscard(v).hand) BY <1>4, DiscardsMark
  <2>2. OpenDiscard(v) \in TableType BY <1>4, OpenDiscardKeeps DEF Keeps
  <2>3. NoneOver(OpenDiscard(v).hand) BY <1>5, <2>1 DEF NoneOver, SameBets
  <2> QED BY <1>6, <1>8, <2>2, <2>3
<1> QED BY <1>3, <1>5, <1>7, <1>8 DEF Callable

\* The discards, of one player or of all that still owe one, keep the bets callable.
LEMMA DiscardsCallable ==
    ASSUME NEW t \in TableType, t.hand.phase = "discard", Callable(t.hand), NEW u,
           u \in AutoDiscard(t) \/ \E s \in Seats : u \in ApplyDiscard(t, s)
    PROVE  Callable(u.hand)
<1>1. NoneOver(t.hand) /\ t.hand \in HandType BY HandIsTyped DEF Callable, Playing
<1>2. ASSUME NEW s \in Seats, u \in ApplyDiscard(t, s) PROVE Callable(u.hand)
  <2>1. Discarded(t, s) \in TableType BY DiscardedKeeps DEF Keeps
  <2>2. SameBets(t.hand, Discarded(t, s).hand) BY DiscardsMark
  <2>3. Callable(Discarded(t, s).hand) BY <1>1, <2>2 DEF Callable, NoneOver, SameBets
  <2> QED BY <1>2, <2>1, <2>3, RunDiscardsCallable DEF ApplyDiscard
<1>3. ASSUME u \in AutoDiscard(t) PROVE Callable(u.hand)
  <2> DEFINE cards == [s \in Seats |-> IF s \in t.hand.pending THEN t.hand.cards[s] - 1
                                       ELSE t.hand.cards[s]]
             h == [t.hand EXCEPT !.cards = cards, !.pending = {}]
             v == WithHand(t, h)
  <2>1. cards \in [Seats -> Int] BY <1>1, CardsType
  <2>2. u \in RunDiscards(v) BY <1>3 DEF AutoDiscard
  <2> HIDE DEF cards
  <2>3. h \in HandType /\ SameBets(t.hand, h) BY <1>1, <2>1 DEF HandType, SameBets
  <2> HIDE DEF h
  <2>4. v \in TableType /\ v.hand = h BY <2>3, WithHandEffect
  <2> HIDE DEF v
  <2>5. Callable(v.hand) BY <1>1, <2>3, <2>4 DEF Callable, NoneOver, SameBets
  <2> QED BY <2>2, <2>4, <2>5, RunDiscardsCallable
<1> QED BY <1>2, <1>3

\* What becomes of a table stays callable, if what is dealt is.
LEMMA TableGoesCallable ==
    ASSUME NEW t, NEW u, NEW brought, TableGoes(t, u, brought), Callable(t.hand),
           ~Playing(t.hand) => Callable(u.hand)
    PROVE  Callable(u.hand)
<1>1. PICK v : Brings(t, v, brought) /\ (Rests(v, u) \/ Deals(v, u)) BY DEF TableGoes
<1>2. CASE ~Playing(t.hand) BY <1>2
<1>3. CASE Playing(t.hand)
  <2>1. v.hand = t.hand BY <1>1, <1>3 DEF Brings
  <2>2. Rests(v, u) BY <1>1, <1>3, <2>1 DEF Deals
  <2> QED BY <1>3, <2>1, <2>2 DEF Rests
<1> QED BY <1>2, <1>3

\* Whenever a hand is dealt, what its small blind has posted is covered by the bet to call,
\* which is what its big blind has posted.
BlindsCover == ~InPlay(table) /\ InPlay(table)' => NoneOver(Hand')

\* Every step keeps the bets callable, when every deal's blinds are.
LEMMA NextIsCallable ==
    ASSUME Departures = "never", WholeInv, Callable(table.hand), [Next]_vars, [BlindsCover]_vars
    PROVE  Callable(table.hand)'
<1>1. HandInv /\ table \in TableType BY WholeFacts
<1>2. /\ BetsAreCommitted(table.hand)
      /\ Playing(table.hand) => Chipped(table.hand)
  BY <1>1 DEF HandInv, IInv, TableInv, Accounts, Hand, Rules, ChipRules
<1>3. CASE HandGoes
  <2>1. ASSUME NEW s \in Seats, NEW action \in Actions,
               Accepts(Hand, s, action), table' = ApplyAction(table, s, action)
        PROVE  Callable(table'.hand)
    <3>1. Playing(table.hand) BY <2>1 DEF Accepts, OnTurn, Playing, Hand
    <3>2. NoneOver(table.hand) BY <3>1 DEF Callable
    <3> QED BY <1>1, <1>2, <2>1, <3>1, <3>2, ApplyActionCallable DEF Hand
  <2>2. ASSUME Playing(Hand), table' \in AdvancePendingPhase(table)
        PROVE  Callable(table'.hand)
    BY <1>1, <2>2, AdvancePendingPhaseCallable DEF Hand
  <2>3. ASSUME Hand.phase = "discard",
               table' \in AutoDiscard(table) \/ \E s \in Seats : table' \in ApplyDiscard(table, s)
        PROVE  Callable(table'.hand)
    BY <1>1, <2>3, DiscardsCallable DEF Hand
  <2> QED BY <1>3, <2>1, <2>2, <2>3 DEF HandGoes
<1>4. CASE \E brought \in Nat : TableGoes(table, table', brought)
  <2>1. CASE vars' = vars BY <2>1 DEF vars
  <2>2. CASE BlindsCover
    <3>1. ~Playing(table.hand) => Callable(table'.hand)
      BY <2>2 DEF BlindsCover, Callable, Playing, InPlay, Hand
    <3> QED BY <1>4, <3>1, TableGoesCallable
  <2> QED BY <2>1, <2>2
<1> QED BY <1>3, <1>4, NextCounts

\* Every bet can be called exactly if at every deal the big blind posted is not shorter than
\* the small blind posted (postBlinds): no action, call, raise, all-in, timeout, pause,
\* discard or newcomer ever makes a bet that is more than there is to call.
THEOREM OnlyBlindsOverpay ==
    ASSUME Departures = "never"
    PROVE  Spec => ([]NobodyOverpays <=> [][BlindsCover]_vars)
<1> DEFINE Inv == WholeInv /\ Callable(table.hand)
<1>1. Init => Inv
  <2>1. Init => ~Playing(table.hand)
    BY DEF Init, SeatedTable, EmptyTable, NullHand, Playing
  <2> QED BY <2>1, InitWhole DEF Callable
<1>2. Inv /\ [Next]_vars /\ [BlindsCover]_vars => Inv'
  <2> SUFFICES ASSUME Inv, [Next]_vars, [BlindsCover]_vars PROVE Inv' OBVIOUS
  <2> QED BY NextKeepsWhole, NextIsCallable
<1>3. Inv => NobodyOverpays BY DEF NobodyOverpays, Callable, InPlay, Playing, Hand
<1>4. NobodyOverpays' => BlindsCover BY DEF NobodyOverpays, BlindsCover
<1>5. Spec /\ [][BlindsCover]_vars => []NobodyOverpays BY <1>1, <1>2, <1>3, PTL DEF Spec
<1>6. []NobodyOverpays => [][BlindsCover]_vars BY <1>4, PTL
<1> QED BY <1>5, <1>6, PTL

\* Whenever a hand is dealt, everyone who is dealt in has at least the small blind.
DeepDeals ==
    ~InPlay(table) /\ InPlay(table)' =>
        \A s \in Dealt(Hand') : table'.seatStack[s] + Hand'.bet[s] >= SmallBlind

\* With blinds like 400 and 800 the bets of a hand can always be called as long as nobody is
\* dealt in who has less than the small blind: the stacks may be as short as that, and the
\* big blind may be posted short.
THEOREM BetsCanBeCalled ==
    ASSUME Departures = "never", SmallBlind <= BigBlind
    PROVE  Spec /\ [][DeepDeals]_vars => []NobodyOverpays
<1>1. ASSUME WholeInv, [Next]_vars, [DeepDeals]_vars PROVE [BlindsCover]_vars
  <2> SUFFICES ASSUME DeepDeals, ~InPlay(table), InPlay(table') PROVE NoneOver(table'.hand)
    BY <1>1 DEF BlindsCover, Hand, vars
  <2>1. ~Playing(table.hand) /\ Playing(table'.hand) BY DEF Playing, InPlay
  <2>2. PICK brought \in Nat : TableGoes(table, table', brought) BY <1>1, <2>1, NextCounts
  <2>3. PICK v : Brings(table, v, brought) /\ (Rests(v, table') \/ Deals(v, table'))
    BY <2>2 DEF TableGoes
  <2>4. ~Playing(v.hand) BY <2>1, <2>3 DEF Brings, NullHand, Playing
  <2>5. ~Rests(v, table') BY <2>1, <2>4 DEF Rests, Playing
  <2>6. PICK g \in TableType :
           ~(Cardinality(Ready(g)) < MinPlayers) /\ table' = StartHand(g)
    BY <2>3, <2>5 DEF Deals
  <2>7. PICK sb, bb \in Seats : DealtOut(g, table', sb, bb) BY <2>6, StartHandDeals
  <2>8. \A r \in Seats : g.seatStack[r] \in Nat BY DEF TableType
  <2>9. SmallBlind \in Nat /\ BigBlind \in Nat BY BlindsAssumption
  <2>10. bb \in Dealt(table'.hand) BY <2>7 DEF DealtOut, Dealt
  <2>11. table'.seatStack[bb] + table'.hand.bet[bb] >= SmallBlind
    BY <2>10 DEF DeepDeals, Hand
  <2>12. table'.hand.bet[bb] = AtMost(BigBlind, g.seatStack[bb])
         /\ table'.seatStack[bb] = g.seatStack[bb] - table'.hand.bet[bb]
         /\ table'.hand.currentBet = table'.hand.bet[bb]
    BY <2>7 DEF DealtOut
  <2>13. table'.hand.bet[bb] \in Nat BY <2>8, <2>9, <2>12 DEF AtMost
  <2>14. g.seatStack[bb] >= SmallBlind BY <2>8, <2>9, <2>11, <2>12, <2>13
  <2>15. table'.hand.currentBet \in Nat /\ table'.hand.currentBet >= SmallBlind
    BY <2>8, <2>9, <2>12, <2>13, <2>14 DEF AtMost
  <2>16. ASSUME NEW r \in Seats PROVE table'.hand.bet[r] <= table'.hand.currentBet
    <3>1. table'.hand.bet[r] = IF r = sb THEN AtMost(SmallBlind, g.seatStack[r])
                               ELSE IF r = bb THEN AtMost(BigBlind, g.seatStack[r]) ELSE 0
      BY <2>7 DEF DealtOut
    <3>2. AtMost(SmallBlind, g.seatStack[r]) <= SmallBlind
          /\ AtMost(SmallBlind, g.seatStack[r]) \in Nat
      BY <2>8, <2>9 DEF AtMost
    <3>3. CASE r = sb BY <2>9, <2>15, <3>1, <3>2, <3>3
    <3>4. CASE r # sb /\ r = bb BY <2>12, <2>13, <3>4
    <3>5. CASE r # sb /\ r # bb BY <2>15, <3>1, <3>5
    <3> QED BY <3>3, <3>4, <3>5
  <2> QED BY <2>16 DEF NoneOver
<1>2. Spec => []WholeInv BY TablesAreWhole
<1>3. Spec => ([]NobodyOverpays <=> [][BlindsCover]_vars) BY OnlyBlindsOverpay
<1>4. WholeInv /\ [Next]_vars /\ [DeepDeals]_vars => [BlindsCover]_vars BY <1>1
<1> QED BY <1>2, <1>3, <1>4, PTL DEF Spec

\* The all-ins that players make are those that the page sends.
PageShoves ==
    \A s \in Seats, action \in Actions :
        Act(s, action) /\ action.type = "allIn" => Buttons(Hand, s, action)

\* Whoever shoves with the page's buttons pays at least the call, or has shoved everything.
LEMMA ButtonsShoveWhole ==
    ASSUME NEW h \in HandType, NEW s \in Seats, NEW action \in Actions,
           action.type = "allIn", Buttons(h, s, action)
    PROVE  WholeShove(h, s, action)
<1>1. AllChips(h, s) \in Nat /\ h.currentBet \in Nat /\ h.minRaise \in Nat /\ BigBlind \in Nat
  BY BlindsAssumption DEF HandType, AllChips, MinRaises
<1> DEFINE all == AllChips(h, s)
           total == AllInTotal(h, s, action.amount)
<1>2. action.amount \in Nat \cup {NoAmount} BY ActionsAreNamed
<1>3. CASE action.amount = NoAmount \/ action.amount = all
  <2>1. total = all BY <1>1, <1>3 DEF AllInTotal, AtMost
  <2> QED BY <1>1, <2>1 DEF WholeShove, AtMost
<1>4. CASE DrawerSends(h, s, action)
  <2>1. action.amount >= h.currentBet /\ action.amount \in Nat
    BY <1>1, <1>2, <1>4 DEF DrawerSends, DrawerFrom, NoAmount
  <2>2. total = IF action.amount <= all THEN action.amount ELSE all
    BY <2>1 DEF AllInTotal, AtMost, NoAmount
  <2>3. total >= AtMost(h.currentBet, all) BY <1>1, <2>1, <2>2 DEF AtMost
  <2> QED BY <2>3 DEF WholeShove
<1>5. action.amount = NoAmount \/ action.amount = all \/ DrawerSends(h, s, action)
  BY DEF Buttons
<1> QED BY <1>3, <1>4, <1>5

\* No chip is lost or made, whatever pots, splits and odd chips, while no player is lost, the
\* big blind posted is at no deal shorter than the small blind posted, and who shoves less
\* than all his chips pays at least the call.
THEOREM CoveredBlindsConserve ==
    ASSUME Departures = "never"
    PROVE  Spec /\ [][BlindsCover]_vars /\ [][WholeShoves]_vars => []ChipsConserved
<1>1. Spec => ([]NobodyOverpays <=> [][BlindsCover]_vars) BY OnlyBlindsOverpay
<1>2. Spec /\ []NobodyOverpays /\ [][WholeShoves]_vars => []PotsCovered BY BackedPotsAreCovered
<1>3. Spec /\ []PotsCovered => []ChipsConserved BY CoveredPotsConserve
<1> QED BY <1>1, <1>2, <1>3, PTL

\* At a table that is played with the page's buttons, where nobody is dealt in who has less
\* than the small blind and no player is lost, no chip is lost or made.
THEOREM PagePlayConserves ==
    ASSUME Departures = "never", SmallBlind <= BigBlind
    PROVE  Spec /\ [][DeepDeals]_vars /\ [][PageShoves]_vars => []ChipsConserved
<1>1. WholeInv /\ [PageShoves]_vars => [WholeShoves]_vars
  <2> SUFFICES ASSUME WholeInv, PageShoves, NEW s \in Seats, NEW action \in Actions,
                      Act(s, action)
               PROVE  WholeShove(Hand, s, action)
    BY DEF WholeShoves
  <2>1. Hand \in HandType BY WholeFacts, HandIsTyped DEF Hand
  <2>2. CASE action.type # "allIn" BY <2>2 DEF WholeShove
  <2>3. CASE action.type = "allIn" BY <2>1, <2>3, ButtonsShoveWhole DEF PageShoves
  <2> QED BY <2>2, <2>3
<1>2. Spec => []WholeInv BY TablesAreWhole
<1>3. Spec /\ [][DeepDeals]_vars => []NobodyOverpays BY BetsCanBeCalled
<1>4. Spec /\ []NobodyOverpays /\ [][WholeShoves]_vars => []PotsCovered BY BackedPotsAreCovered
<1>5. Spec /\ []PotsCovered => []ChipsConserved BY CoveredPotsConserve
<1> QED BY <1>1, <1>2, <1>3, <1>4, <1>5, PTL

\* A smaller bet can be matched too.
LEMMA SmallerIsContestable ==
    ASSUME NEW h \in HandType, NEW s \in Seats, NEW amount \in Nat, NEW less \in Nat,
           Contestable(h, s, amount), less <= amount
    PROVE  Contestable(h, s, less)
<1>1. \A r \in Seats : AllChips(h, r) \in Nat BY DEF HandType, AllChips
<1>2. WithChips(h) \subseteq Seats /\ h.currentBet \in Nat BY DEF WithChips, Active, HandType
<1> QED BY <1>1, <1>2 DEF Contestable

\* What a snapshot offers is accepted.
LEMMA OfferIsAccepted ==
    ASSUME NEW h \in HandType, NEW s \in Seats, NEW action \in Actions,
           NoneOver(h), Offers(h, s, action)
    PROVE  Accepts(h, s, action)
<1>1. OnTurn(h, s) BY DEF Offers, IsActor
<1>2. /\ h.bet[s] \in Nat /\ h.stack[s] \in Nat /\ h.currentBet \in Nat /\ h.bet[s] <= h.currentBet
      /\ h.minRaise \in Nat /\ h.minRaise >= BigBlind /\ BigBlind \in Nat /\ BigBlind > 0
  BY BlindsAssumption DEF HandType, NoneOver, MinRaises
<1>3. /\ action.type \in {"fold", "check", "call", "allIn", "bet", "raise"}
      /\ action.amount \in Nat \cup {NoAmount}
  BY ActionsAreNamed
<1>4. CASE action.type = "fold" BY <1>1, <1>4 DEF Accepts
<1>5. CASE action.type = "check" BY <1>1, <1>2, <1>5 DEF Accepts, Offers, ToCall
<1>6. CASE action.type = "call" BY <1>1, <1>6 DEF Accepts, Offers
<1>7. CASE action.type = "bet" BY <1>1, <1>7 DEF Accepts, Offers
<1>8. CASE action.type = "raise"
  <2>1. action.amount \in Nat /\ action.amount >= h.currentBet + h.minRaise
        /\ CanRaiseTo(h, s, action.amount)
    BY <1>8, ActionsAreNamed DEF Offers
  <2>2. action.amount > h.currentBet /\ action.amount - h.currentBet >= h.minRaise
    BY <1>2, <2>1
  <2> QED BY <1>1, <1>8, <2>1, <2>2 DEF Accepts
<1>9. CASE action.type = "allIn"
  <2>1. action.amount = NoAmount BY <1>9 DEF Offers
  <2>2. AllInTotal(h, s, action.amount) = AllChips(h, s) BY <2>1 DEF AllInTotal
  <2>3. AllChips(h, s) > h.currentBet => CanRaiseTo(h, s, AllChips(h, s)) BY <1>9 DEF Offers
  <2> QED BY <1>1, <1>9, <2>1, <2>2, <2>3 DEF Accepts, AllInIsRaise
<1> QED BY <1>3, <1>4, <1>5, <1>6, <1>7, <1>8, <1>9

\* What the drawer opens on.
LEMMA DrawerOpening ==
    ASSUME NEW h \in HandType, NEW s \in Seats, DrawerOpens(h, s)
    PROVE  /\ IsActor(h, s) /\ h.raises < RaiseCap
           /\ Contestable(h, s, DrawerFrom(h))
<1>1. CASE h.currentBet = 0 BY <1>1 DEF DrawerOpens, Offers, CanRaiseTo
<1>2. CASE h.currentBet # 0 BY <1>2 DEF DrawerOpens, Offers, CanRaiseTo
<1> QED BY <1>1, <1>2

\* An all-in that names what can still be matched is a raise that is accepted.
LEMMA NamedShoveIsAccepted ==
    ASSUME NEW h \in HandType, NEW s \in Seats, NEW action \in Actions, NoneOver(h),
           action.type = "allIn", action.amount \in Nat, action.amount > h.currentBet,
           OnTurn(h, s), CanRaiseTo(h, s, action.amount)
    PROVE  Accepts(h, s, action)
<1>1. /\ h.bet[s] \in Nat /\ h.currentBet \in Nat /\ h.bet[s] <= h.currentBet
      /\ AllChips(h, s) \in Nat
  BY DEF HandType, NoneOver, AllChips
<1>2. action.amount <= AllChips(h, s) BY DEF CanRaiseTo, Contestable
<1>3. AllInTotal(h, s, action.amount) = action.amount BY <1>1, <1>2 DEF AllInTotal, AtMost, NoAmount
<1>4. action.amount >= h.bet[s] /\ action.amount > h.bet[s] BY <1>1
<1> QED BY <1>3, <1>4 DEF Accepts

\* What the page's buttons send is accepted.
LEMMA ButtonIsAccepted ==
    ASSUME NEW h \in HandType, NEW s \in Seats, NEW action \in Actions,
           NoneOver(h), Buttons(h, s, action)
    PROVE  Accepts(h, s, action)
<1>1. /\ h.bet[s] \in Nat /\ h.stack[s] \in Nat /\ h.currentBet \in Nat /\ h.bet[s] <= h.currentBet
      /\ h.minRaise \in Nat /\ h.minRaise >= BigBlind /\ BigBlind \in Nat /\ BigBlind > 0
  BY BlindsAssumption DEF HandType, NoneOver, MinRaises
<1>2. CASE Offers(h, s, action) BY <1>2, OfferIsAccepted
<1>3. CASE DrawerSends(h, s, action)
  <2>1. /\ IsActor(h, s) /\ h.raises < RaiseCap
    BY <1>3, DrawerOpening DEF DrawerSends
  <2>2. /\ action.amount >= DrawerFrom(h) /\ Contestable(h, s, action.amount)
        /\ action.type = (IF ~Contestable(h, s, action.amount + 1) THEN "allIn"
                          ELSE IF h.currentBet = 0 THEN "bet" ELSE "raise")
    BY <1>3 DEF DrawerSends
  <2>3. OnTurn(h, s) /\ CanRaiseTo(h, s, action.amount) BY <2>1, <2>2 DEF IsActor, CanRaiseTo
  <2>4. action.amount \in Nat
    <3>1. DrawerFrom(h) \in Nat BY <1>1 DEF DrawerFrom
    <3>2. action.amount # NoAmount
      <4>1. ~(NoAmount >= DrawerFrom(h)) BY <3>1 DEF NoAmount
      <4> QED BY <2>2, <4>1
    <3> QED BY <3>2, ActionsAreNamed
  <2>5. action.amount > h.currentBet BY <1>1, <2>2, <2>4 DEF DrawerFrom
  <2>6. CASE action.type = "allIn" BY <2>3, <2>4, <2>5, <2>6, NamedShoveIsAccepted
  <2>7. CASE action.type = "bet" /\ h.currentBet = 0
    BY <2>2, <2>3, <2>7 DEF Accepts, DrawerFrom
  <2>8. CASE action.type = "raise" /\ h.currentBet # 0
    <3>1. action.amount - h.currentBet >= h.minRaise BY <1>1, <2>2, <2>4, <2>8 DEF DrawerFrom
    <3> QED BY <2>3, <2>5, <2>8, <3>1 DEF Accepts
  <2> QED BY <2>2, <2>6, <2>7, <2>8
<1>4. CASE /\ action = [type |-> "allIn", amount |-> AllChips(h, s)]
           /\ h.currentBet = 0 /\ ~DrawerOpens(h, s)
           /\ Offers(h, s, [action EXCEPT !.amount = NoAmount])
  <2> DEFINE shove == [type |-> "allIn", amount |-> NoAmount]
  <2>1. Offers(h, s, shove)
    <3>1. [action EXCEPT !.amount = NoAmount] = shove BY <1>4
    <3> QED BY <1>4, <3>1
  <2>2. shove.type = "allIn" /\ shove.amount = NoAmount OBVIOUS
  <2> HIDE DEF shove
  <2>3. OnTurn(h, s) BY <2>1 DEF Offers, IsActor
  <2>4. AllChips(h, s) > h.currentBet /\ CanRaiseTo(h, s, AllChips(h, s))
    <3>1. IF AllChips(h, s) > h.currentBet THEN CanRaiseTo(h, s, AllChips(h, s))
          ELSE ToCall(h, s) > 0
      BY <2>1, <2>2 DEF Offers
    <3>2. ~(ToCall(h, s) > 0) BY <1>1, <1>4 DEF ToCall
    <3> QED BY <3>1, <3>2
  <2>5. action.type = "allIn" /\ action.amount = AllChips(h, s) BY <1>4
  <2>6. AllChips(h, s) \in Nat BY <1>1 DEF AllChips
  <2> QED BY <2>3, <2>4, <2>5, <2>6, NamedShoveIsAccepted
<1> QED BY <1>2, <1>3, <1>4 DEF Buttons

\* Every total that is accepted the drawer can send.
LEMMA AcceptedHasButton ==
    ASSUME NEW h \in HandType, NEW s \in Seats, NEW action \in Actions, Chipped(h), NoneOver(h),
           action.type \in {"bet", "raise"}, Accepts(h, s, action)
    PROVE  \E type \in {"bet", "raise", "allIn"} : Buttons(h, s, [action EXCEPT !.type = type])
<1> DEFINE total == action.amount
           type == IF ~Contestable(h, s, total + 1) THEN "allIn"
                   ELSE IF h.currentBet = 0 THEN "bet" ELSE "raise"
           sent == [action EXCEPT !.type = type]
<1>1. /\ h.bet[s] \in Nat /\ h.stack[s] \in Nat /\ h.currentBet \in Nat /\ h.bet[s] <= h.currentBet
      /\ h.minRaise \in Nat /\ h.minRaise >= BigBlind /\ BigBlind \in Nat /\ BigBlind > 0
  BY BlindsAssumption DEF HandType, NoneOver, MinRaises
<1>2. total \in Nat BY ActionsAreNamed
<1>3. sent.type = type /\ sent.amount = total
  <2>1. action \in [type : {"fold", "check", "call", "allIn", "bet", "raise"},
                    amount : Nat \cup {NoAmount}]
    <3>1. AllInAmounts \subseteq Nat /\ 0 .. MaxAmount \subseteq Nat BY BoundsAssumption
    <3> QED BY <3>1 DEF Actions
  <2> HIDE DEF type
  <2> QED BY <2>1
<1>4. OnTurn(h, s) /\ CanRaiseTo(h, s, total) BY DEF Accepts
<1>5. Contestable(h, s, total) /\ h.raises < RaiseCap BY <1>4 DEF CanRaiseTo
<1>6. total >= DrawerFrom(h) /\ DrawerFrom(h) \in Nat /\ DrawerFrom(h) > h.currentBet
  <2>1. CASE action.type = "bet" BY <1>1, <1>2, <2>1 DEF Accepts, DrawerFrom
  <2>2. CASE action.type = "raise"
    <3>1. total > h.currentBet /\ total - h.currentBet >= h.minRaise BY <2>2 DEF Accepts
    <3> QED BY <1>1, <1>2, <3>1 DEF DrawerFrom
  <2> QED BY <2>1, <2>2
<1>7. IsActor(h, s)
  <2>1. s \in WithChips(h) BY <1>4 DEF OnTurn, Chipped, WithChips, Active
  <2>2. h.currentBet + 1 \in Nat /\ h.currentBet + 1 <= total BY <1>1, <1>2, <1>6
  <2>3. Contestable(h, s, h.currentBet + 1) BY <1>2, <1>5, <2>2, SmallerIsContestable
  <2> QED BY <1>4, <2>1, <2>3 DEF IsActor, BettingLocked
<1>8. CanRaiseTo(h, s, DrawerFrom(h))
  BY <1>2, <1>5, <1>6, SmallerIsContestable DEF CanRaiseTo
<1>9. DrawerOpens(h, s)
  <2>1. CASE h.currentBet = 0 BY <1>1, <1>7, <1>8, <2>1 DEF DrawerOpens, Offers, DrawerFrom
  <2>2. CASE h.currentBet # 0 BY <1>1, <1>7, <1>8, <2>2 DEF DrawerOpens, Offers, DrawerFrom
  <2> QED BY <2>1, <2>2
<1> HIDE DEF sent
<1>10. DrawerSends(h, s, sent) BY <1>3, <1>5, <1>6, <1>9 DEF DrawerSends
<1>11. type \in {"bet", "raise", "allIn"} OBVIOUS
<1> HIDE DEF type
<1> QED BY <1>10, <1>11 DEF Buttons, sent

\* Where every bet can be called, what is offered and what the page's buttons send is
\* accepted, and the page can send whatever total is accepted; whoever owes a card is told so.
THEOREM OffersStayAccepted ==
    ASSUME Departures = "never"
    PROVE  Spec /\ []NobodyOverpays => []OffersAreAccepted
<1>1. WholeInv /\ NobodyOverpays => OffersAreAccepted
  <2> SUFFICES ASSUME WholeInv, NobodyOverpays, NEW s \in Seats
               PROVE  /\ Hand.phase = "discard" /\ s \in Hand.pending => OffersDiscard(Hand, s)
                      /\ \A action \in Actions :
                            /\ Offers(Hand, s, action) \/ Buttons(Hand, s, action) =>
                                   Accepts(Hand, s, action)
                            /\ action.type \in {"bet", "raise"} /\ Accepts(Hand, s, action) =>
                                   \E type \in {"bet", "raise", "allIn"} :
                                      Buttons(Hand, s, [action EXCEPT !.type = type])
    BY DEF OffersAreAccepted
  <2>1. table \in TableType /\ HandInv /\ Promising(table) BY WholeFacts
  <2>2. Hand \in HandType /\ Rules(Hand) BY <2>1, HandIsTyped DEF HandInv, Hand
  <2>3. ASSUME Hand.phase = "discard", s \in Hand.pending PROVE OffersDiscard(Hand, s)
    <3>1. s \in Contenders(Hand) BY <2>1, <2>3 DEF Promising, Playing, Hand
    <3>2. /\ Hand.street \in {"flop", "turn", "river"}
          /\ Hand.cards[s] = HoleCards - DiscardsMade(Hand.street) - 0
      BY <2>2, <2>3, <3>1 DEF Rules, CardRules, CardsDue, Playing
    <3>3. DiscardsMade(Hand.street) \in {0, 1, 2} BY <3>2 DEF DiscardsMade
    <3>4. Hand.cards[s] > KeptCards BY <3>2, <3>3 DEF HoleCards, KeptCards
    <3> QED BY <2>3, <3>1, <3>4 DEF OffersDiscard, Contenders
  <2>4. ASSUME NEW action \in Actions, Offers(Hand, s, action) \/ Buttons(Hand, s, action)
        PROVE  Accepts(Hand, s, action)
    <3>1. OnTurn(Hand, s)
      BY <2>4 DEF Buttons, DrawerSends, DrawerOpens, Offers, IsActor
    <3>2. NoneOver(Hand) BY <3>1 DEF OnTurn, NobodyOverpays, InPlay, Hand
    <3> QED BY <2>2, <2>4, <3>2, OfferIsAccepted, ButtonIsAccepted
  <2>5. ASSUME NEW action \in Actions, action.type \in {"bet", "raise"}, Accepts(Hand, s, action)
        PROVE  \E type \in {"bet", "raise", "allIn"} :
                  Buttons(Hand, s, [action EXCEPT !.type = type])
    <3>1. OnTurn(Hand, s) BY <2>5 DEF Accepts
    <3>2. NoneOver(Hand) BY <3>1 DEF OnTurn, NobodyOverpays, InPlay, Hand
    <3>3. Chipped(Hand) BY <2>2, <3>1 DEF Rules, ChipRules, OnTurn, Playing
    <3> QED BY <2>2, <2>5, <3>2, <3>3, AcceptedHasButton
  <2> QED BY <2>3, <2>4, <2>5
<1> QED BY <1>1, TablesAreWhole, PTL

\* The one thing that can part them is a big blind posted shorter than the small blind.
THEOREM CoveredBlindsOffer ==
    ASSUME Departures = "never"
    PROVE  Spec /\ [][BlindsCover]_vars => []OffersAreAccepted
<1>1. Spec => ([]NobodyOverpays <=> [][BlindsCover]_vars) BY OnlyBlindsOverpay
<1> QED BY <1>1, OffersStayAccepted, PTL

-----------------------------------------------------------------------------
(* What the host sees.                                                      *)

\* Who sits, who sits out, and who has no chips and no hand to win any with.
SeatsTaken(t) == {s \in Seats : Seated(t, s)}
SeatsOut(t) == {s \in Seats : t.sittingOut[s]}
SeatsBroke(t) ==
    {s \in Seats : Seated(t, s) /\ t.seatStack[s] = 0 /\ ~(Playing(t.hand) /\ InHand(t, s))}

\* The table t as its host sees it, with the hand at the point named.
View(t, live, phase, turn, pending) ==
    [seated |-> SeatsTaken(t), out |-> SeatsOut(t), broke |-> SeatsBroke(t),
     dealt |-> Dealt(t.hand), live |-> live, phase |-> phase, turn |-> turn,
     pending |-> pending, first |-> (t.button = NoSeat), gate |-> t.gateOpen,
     ready |-> t.gateReady]

\* and at the point where it is.
ViewOf(t) ==
    View(t, IF Playing(t.hand) THEN Contenders(t.hand) ELSE {},
         ShownPhase(t.hand),
         IF ShownPhase(t.hand) = "betting" THEN t.hand.turn ELSE NoSeat,
         IF Playing(t.hand) THEN t.hand.pending ELSE {})

\* This is what HostSees says.
LEMMA HostSeesTable == HostSees = ViewOf(table) /\ HostSees' = ViewOf(table')
<1>1. HostSees = ViewOf(table)
  BY DEF HostSees, ViewOf, View, SeatsTaken, SeatsOut, SeatsBroke, InPlay, Playing, Dealt,
         InHand, Hand
<1>2. HostSees' = ViewOf(table')
  BY DEF HostSees, ViewOf, View, SeatsTaken, SeatsOut, SeatsBroke, InPlay, Playing, Dealt,
         InHand, Hand, Seated, Contenders, ShownPhase
<1> QED BY <1>1, <1>2

\* The fields of a view
LEMMA ViewFields ==
    ASSUME NEW t, NEW live, NEW phase, NEW turn, NEW pending
    PROVE  LET v == View(t, live, phase, turn, pending)
           IN  /\ v.live = live /\ v.phase = phase /\ v.turn = turn /\ v.pending = pending
               /\ v.seated = SeatsTaken(t) /\ v.out = SeatsOut(t) /\ v.broke = SeatsBroke(t)
               /\ v.dealt = Dealt(t.hand) /\ v.gate = t.gateOpen /\ v.ready = t.gateReady
               /\ v.first <=> t.button = NoSeat
BY DEF View

\* TableView counts as the table does.
LEMMA SameCount ==
    ASSUME NEW S
    PROVE  HostView!Cardinality(S) = Cardinality(S)
BY DEF HostView!Cardinality, Cardinality

\* OpenNext opens the betting or the discard of what is left, or settles the hand.
LEMMA OpenNextSees ==
    ASSUME NEW t, NEW live, NEW phase, NEW turn, NEW pending
    PROVE  LET next == HostView!OpenNext(View(t, live, phase, turn, pending))
           IN  /\ \A p \in live : View(t, live, "betting", p, {}) \in next
               /\ live \ SeatsOut(t) # {} =>
                     View(t, live, "discard", NoSeat, live \ SeatsOut(t)) \in next
               /\ HostView!Settle(View(t, live, phase, turn, pending)) \subseteq next
<1> DEFINE v == View(t, live, phase, turn, pending)
           discard == [v EXCEPT !.phase = "discard", !.turn = NoSeat, !.pending = v.live \ v.out]
<1>1. \A p \in live : View(t, live, "betting", p, {}) \in HostView!OpenNext(v)
  <2> TAKE p \in live
  <2>1. [v EXCEPT !.phase = "betting"] = View(t, live, "betting", turn, pending) BY DEF View
  <2>2. [View(t, live, "betting", turn, pending) EXCEPT !.turn = p]
           = View(t, live, "betting", p, pending)
    BY DEF View
  <2>3. [View(t, live, "betting", p, pending) EXCEPT !.pending = {}]
           = View(t, live, "betting", p, {})
    BY DEF View
  <2>4. p \in v.live BY ViewFields
  <2> HIDE DEF v
  <2>5. View(t, live, "betting", p, {})
           = [v EXCEPT !.phase = "betting", !.turn = p, !.pending = {}]
    BY <2>1, <2>2, <2>3
  <2> QED BY <2>4, <2>5 DEF HostView!OpenNext
<1>2. ASSUME live \ SeatsOut(t) # {}
      PROVE  View(t, live, "discard", NoSeat, live \ SeatsOut(t)) \in HostView!OpenNext(v)
  <2>1. [v EXCEPT !.phase = "discard"] = View(t, live, "discard", turn, pending) BY DEF View
  <2>2. [View(t, live, "discard", turn, pending) EXCEPT !.turn = NoSeat]
           = View(t, live, "discard", NoSeat, pending)
    BY DEF View
  <2>3. [View(t, live, "discard", NoSeat, pending) EXCEPT !.pending = live \ SeatsOut(t)]
           = View(t, live, "discard", NoSeat, live \ SeatsOut(t))
    BY DEF View
  <2>4. v.live = live /\ v.out = SeatsOut(t) BY ViewFields
  <2>5. View(t, live, "discard", NoSeat, live \ SeatsOut(t)).pending = live \ SeatsOut(t)
    BY ViewFields
  <2> HIDE DEF v
  <2>6. View(t, live, "discard", NoSeat, live \ SeatsOut(t)) = discard
    BY <2>1, <2>2, <2>3, <2>4
  <2>7. discard.pending # {} BY <1>2, <2>5, <2>6
  <2>8. discard \in HostView!OpenNext(v) BY <2>7 DEF HostView!OpenNext
  <2> QED BY <2>6, <2>8
<1>3. HostView!Settle(v) \subseteq HostView!OpenNext(v) BY DEF HostView!OpenNext
<1> QED BY <1>1, <1>2, <1>3

\* GoOn passes the turn, or the round is over.
LEMMA GoOnSees ==
    ASSUME NEW t, NEW live, NEW phase, NEW turn, NEW pending
    PROVE  LET next == HostView!GoOn(View(t, live, phase, turn, pending))
           IN  /\ \A p \in live : View(t, live, phase, p, pending) \in next
               /\ View(t, live, "pause", NoSeat, pending) \in next
<1> DEFINE v == View(t, live, phase, turn, pending)
<1>1. \A p \in live : View(t, live, phase, p, pending) \in HostView!GoOn(v)
  <2> TAKE p \in live
  <2>1. p \in v.live /\ View(t, live, phase, p, pending) = [v EXCEPT !.turn = p]
    BY DEF View
  <2> HIDE DEF v
  <2> QED BY <2>1 DEF HostView!GoOn
<1>4. [v EXCEPT !.phase = "pause"] = View(t, live, "pause", turn, pending) BY DEF View
<1>5. [View(t, live, "pause", turn, pending) EXCEPT !.turn = NoSeat]
         = View(t, live, "pause", NoSeat, pending)
  BY DEF View
<1> HIDE DEF v
<1>2. View(t, live, "pause", NoSeat, pending) = [v EXCEPT !.phase = "pause", !.turn = NoSeat]
  BY <1>4, <1>5
<1>3. View(t, live, "pause", NoSeat, pending) \in HostView!GoOn(v) BY <1>2 DEF HostView!GoOn
<1> QED BY <1>1, <1>3 DEF v

\* LeaveHand settles the hand of who is left alone; else one less plays it.
LEMMA LeaveHandSees ==
    ASSUME NEW t, NEW live, NEW phase, NEW turn, NEW pending, NEW s
    PROVE  LET next == HostView!LeaveHand(View(t, live, phase, turn, pending), s)
               left == live \ {s}
           IN  IF Cardinality(left) <= 1
               THEN next = HostView!Settle(View(t, left, phase, turn, pending))
               ELSE IF phase # "betting" THEN next = {View(t, left, phase, turn, pending)}
               ELSE IF turn = s THEN next = HostView!GoOn(View(t, left, phase, turn, pending))
               ELSE next = {View(t, left, phase, turn, pending),
                            View(t, left, "pause", NoSeat, pending)}
<1> DEFINE v == View(t, live, phase, turn, pending)
           left == live \ {s}
           w == View(t, left, phase, turn, pending)
<1>1. [v EXCEPT !.live = v.live \ {s}] = w BY DEF View
<1>2. w.live = left /\ w.phase = phase /\ w.turn = turn BY ViewFields
<1>6. [w EXCEPT !.phase = "pause"] = View(t, left, "pause", turn, pending) BY DEF View
<1>7. [View(t, left, "pause", turn, pending) EXCEPT !.turn = NoSeat]
         = View(t, left, "pause", NoSeat, pending)
  BY DEF View
<1> HIDE DEF v, w
<1>3. [w EXCEPT !.phase = "pause", !.turn = NoSeat] = View(t, left, "pause", NoSeat, pending)
  BY <1>6, <1>7
<1>4. HostView!LeaveHand(v, s) =
        IF HostView!Cardinality(w.live) <= 1 THEN HostView!Settle(w)
        ELSE IF w.phase # "betting" THEN {w}
        ELSE IF w.turn = s THEN HostView!GoOn(w)
        ELSE {w, [w EXCEPT !.phase = "pause", !.turn = NoSeat]}
  BY <1>1 DEF HostView!LeaveHand
<1>5. HostView!Cardinality(left) = Cardinality(left) BY SameCount
<1> QED BY <1>2, <1>3, <1>4, <1>5 DEF v, w

\* A card is given; the last one opens what is next.
LEMMA GivingSees ==
    ASSUME NEW t, NEW live, NEW phase, NEW turn, NEW pending, NEW s
    PROVE  LET v == View(t, live, phase, turn, pending)
               next == HostView!OpenNext(View(t, live, phase, turn, {}))
           IN  /\ HostView!GiveAllCards(v) = next
               /\ HostView!GiveCard(v, s) =
                     IF pending \ {s} = {} THEN next
                     ELSE {View(t, live, phase, turn, pending \ {s})}
<1> DEFINE v == View(t, live, phase, turn, pending)
           w == View(t, live, phase, turn, pending \ {s})
<1>1. [v EXCEPT !.pending = {}] = View(t, live, phase, turn, {}) BY DEF View
<1>2. [v EXCEPT !.pending = v.pending \ {s}] = w /\ w.pending = pending \ {s} BY DEF View
<1>3. pending \ {s} = {} => w = View(t, live, phase, turn, {}) OBVIOUS
<1>4. HostView!GiveAllCards(v) = HostView!OpenNext(View(t, live, phase, turn, {}))
  BY <1>1 DEF HostView!GiveAllCards
<1> HIDE DEF v, w
<1>5. HostView!GiveCard(v, s) = IF w.pending = {} THEN HostView!OpenNext(w) ELSE {w}
  BY <1>2 DEF HostView!GiveCard
<1>6. HostView!GiveCard(v, s) = IF pending \ {s} = {} THEN HostView!OpenNext(w) ELSE {w}
  BY <1>2, <1>5
<1> QED BY <1>3, <1>4, <1>6 DEF v, w

-----------------------------------------------------------------------------
(* A hand that is settled.                                                  *)

\* One stack is at most the total.
LEMMA PartOfTotal ==
    ASSUME NEW D, IsFiniteSet(D), NEW f \in [D -> Nat], NEW a \in D
    PROVE  f[a] <= Total(f)
<1> DEFINE one == [x \in D |-> IF x = a THEN f[a] ELSE 0]
<1>1. one \in [D -> Nat] /\ \A x \in D : one[x] <= f[x] OBVIOUS
<1>2. Total(one) = f[a] BY TotalOfOne
<1>3. Total(one) <= Total(f)
  <2> HIDE DEF one
  <2> QED BY <1>1, TotalsGrow
<1> QED BY <1>2, <1>3

\* Every player of the hand has chips, before him or in the pot.
Funded(t) == \A s \in Seats : InHand(t, s) => t.seatStack[s] + t.hand.committed[s] > 0

\* Whoever has shown down wins something: the first winner of a pot has a share of it.
LEMMA PotIsShared ==
    ASSUME NEW h \in HandType, NEW rank \in Ranks, ~Alone(h), NEW c \in Contenders(h),
           h.committed[c] > 0
    PROVE  \E w \in Contenders(h) : Award(h, rank, w) > 0
<1> DEFINE l == h.committed[c]
           winners == PotWinners(h, rank, l)
           amount == Cardinality(PotChips(h, l))
           n == Cardinality(winners)
           w == FirstAfter(h.button, winners)
<1>1. c \in Seats /\ l \in Nat /\ l # 0 /\ l \in Levels(h)
  BY DEF Contenders, HandType, Levels
<1>2. c \in Eligible(h, l) BY <1>1 DEF Eligible, PaidInto
<1>3. winners # {} BY <1>1, <1>2, PotsAreWon
<1>4. winners \in SUBSET Contenders(h) /\ winners \in SUBSET Seats
  BY DEF PotWinners, Eligible, Contenders
<1>5. h.button \in Seats \cup {NoSeat} BY DEF HandType
<1>6. w \in winners BY <1>3, <1>4, <1>5, FirstAfterIsOne
<1>7. IsFiniteSet(winners) /\ n \in Nat /\ n # 0
  BY <1>3, <1>4, SeatsFinite, FS_Subset, FS_CardinalityType, FS_EmptySet
<1>8. amount \in Nat /\ amount # 0
  <2>1. IsFiniteSet(PotChips(h, l)) /\ amount \in Nat BY <1>1, PotChipsType
  <2>2. <<c, l>> \in PotChips(h, l) BY <1>1, PotChipsType
  <2> QED BY <2>1, <2>2, FS_EmptySet
<1>9. PotShare(h, rank, l, w) = (amount \div n) + (amount % n)
  BY <1>6 DEF PotShare
<1>10. PotShare(h, rank, l, w) \in Nat /\ PotShare(h, rank, l, w) > 0
  <2> HIDE DEF amount, n, w
  <2>1. /\ amount \div n \in Nat /\ amount % n \in Nat
        /\ n * (amount \div n) + (amount % n) = amount
    BY <1>7, <1>8, Division
  <2>2. amount \div n = 0 => n * (amount \div n) = 0 BY <1>7
  <2> QED BY <1>8, <1>9, <2>1, <2>2
<1>11. DEFINE share == [k \in Levels(h) |-> PotShare(h, rank, k, w)]
<1>12. share \in [Levels(h) -> Nat] /\ share[l] = PotShare(h, rank, l, w)
  BY <1>1, LevelsType, PotShareType
<1>13. share[l] <= Total(share)
  <2> HIDE DEF share, l
  <2> QED BY <1>1, <1>12, LevelsType, PartOfTotal
<1>14. Award(h, rank, w) = Total(share) BY DEF Award
<1>15. Total(share) \in Nat
  <2> HIDE DEF share
  <2> QED BY <1>12, LevelsType, TotalType
<1> HIDE DEF share, w
<1>16. Award(h, rank, w) > 0 BY <1>10, <1>12, <1>13, <1>14, <1>15
<1> QED BY <1>4, <1>6, <1>16

\* Not all of those who were dealt in end the hand without chips.
LEMMA SomebodyIsPaid ==
    ASSUME NEW t \in TableType, NEW rank, Alone(t.hand) \/ rank \in Ranks, Funded(t),
           Contenders(t.hand) # {}
    PROVE  \E s \in Seats : InHand(t, s) /\ FinishHand(t, rank).seatStack[s] # 0
<1> DEFINE h == t.hand
<1>1. h \in HandType /\ t.seatStack \in [Seats -> Nat] BY HandIsTyped DEF TableType
<1>2. PICK c \in Contenders(h) : TRUE OBVIOUS
<1>3. c \in Seats /\ \A s \in Contenders(h) : s \in Seats /\ InHand(t, s)
  BY DEF Contenders, InHand
<1>4. \A s \in Seats : /\ FinishHand(t, rank).seatStack[s] = t.seatStack[s] + Award(h, rank, s)
                       /\ Award(h, rank, s) \in Nat
  BY <1>1, FinishHandPays, AwardType
<1>5. CASE t.seatStack[c] # 0 BY <1>1, <1>3, <1>4, <1>5
<1>6. CASE t.seatStack[c] = 0
  <2>1. h.committed[c] > 0 /\ h.committed \in [Seats -> Nat]
    BY <1>1, <1>3, <1>6 DEF Funded, HandType
  <2>2. \E w \in Contenders(h) : Award(h, rank, w) > 0
    <3>1. CASE Alone(h)
      <4>1. Award(h, rank, c) = Total(h.committed) BY <3>1 DEF Award
      <4>2. h.committed[c] <= Total(h.committed) /\ Total(h.committed) \in Nat
        BY <1>3, <2>1, SeatsFinite, PartOfTotal, TotalType
      <4>3. Award(h, rank, c) > 0 BY <1>3, <2>1, <4>1, <4>2
      <4> QED BY <4>3
    <3>2. CASE ~Alone(h)
      <4>1. rank \in Ranks BY <3>2
      <4> QED BY <1>1, <2>1, <3>2, <4>1, PotIsShared
    <3> QED BY <3>1, <3>2
  <2>3. PICK w \in Contenders(h) : Award(h, rank, w) > 0 BY <2>2
  <2> QED BY <1>1, <1>3, <1>4, <2>3
<1> QED BY <1>5, <1>6

\* What surrounds the hand: the button and the start gate.
SameDoor(t, u) ==
    u.button = t.button /\ u.gateOpen = t.gateOpen /\ u.gateReady = t.gateReady

\* From t to u nothing happened but in the hand.
Calm(t, u) == Quiet(t, u) /\ SameDoor(t, u)

\* Nothing around the hand changes in two such steps either.
LEMMA CalmThenCalm ==
    ASSUME NEW t, NEW u, NEW v, Calm(t, u), Calm(u, v)
    PROVE  Calm(t, v)
BY QuietThenQuiet DEF Calm, SameDoor

\* The host sees no difference then, but at what point the hand is.
LEMMA CalmIsSame ==
    ASSUME NEW t, NEW u, Playing(t.hand), Playing(u.hand), Calm(t, u),
           NEW live, NEW phase, NEW turn, NEW pending
    PROVE  /\ View(u, live, phase, turn, pending) = View(t, live, phase, turn, pending)
           /\ SeatsOut(u) = SeatsOut(t)
<1>1. SeatsTaken(u) = SeatsTaken(t) /\ SeatsOut(u) = SeatsOut(t)
  BY DEF SeatsTaken, SeatsOut, Seated, Calm, Quiet, SameSeat
<1>2. SeatsBroke(u) = SeatsBroke(t) BY DEF SeatsBroke, Seated, Calm, Quiet, SameSeat
<1>3. Dealt(u.hand) = Dealt(t.hand) BY DEF Dealt, InHand, Calm, Quiet
<1> QED BY <1>1, <1>2, <1>3 DEF View, Calm, SameDoor

\* From t to u the hand was settled, and those who are left without chips sit out.
Settles(t, u) ==
    /\ u.hand.phase = "showdown" /\ SameDoor(t, u)
    /\ \A s \in Seats :
          /\ InHand(u, s) <=> InHand(t, s)
          /\ Seated(u, s) <=> Seated(t, s)
          /\ ~InHand(t, s) => SameSeat(t, u, s) /\ u.seatStack[s] = t.seatStack[s]
          /\ InHand(t, s) =>
                /\ u.sittingOut[s] <=> t.sittingOut[s] \/ u.seatStack[s] = 0
                /\ \/ u.seatStack[s] = 0 \/ u.seatStatus[s] = "active"
                   \/ u.seatStatus[s] = t.seatStatus[s]
    /\ \E s \in Seats : InHand(t, s) /\ u.seatStack[s] # 0

\* Whoever was dealt in has a seat.
HandsSeated(t) == \A s \in Seats : InHand(t, s) => Seated(t, s)

\* That is what Settle makes of what the host saw, at whatever point.
LEMMA SettlesSees ==
    ASSUME NEW t, NEW u, Playing(t.hand), HandsSeated(t), Settles(t, u),
           NEW live, NEW phase, NEW turn, NEW pending
    PROVE  ViewOf(u) \in HostView!Settle(View(t, live, phase, turn, pending))
<1> DEFINE v == View(t, live, phase, turn, pending)
           b == {s \in Seats : InHand(t, s) /\ u.seatStack[s] = 0}
           broke == (SeatsBroke(t) \ Dealt(t.hand)) \cup b
           out == SeatsOut(t) \cup b
           w == View(t, {}, "showdown", NoSeat, {})
           x == [seated |-> SeatsTaken(t), out |-> SeatsOut(t), broke |-> broke,
                 dealt |-> Dealt(t.hand), live |-> {}, phase |-> "showdown", turn |-> NoSeat,
                 pending |-> {}, first |-> (t.button = NoSeat), gate |-> t.gateOpen,
                 ready |-> t.gateReady]
<1>1. ~Playing(u.hand) /\ ShownPhase(u.hand) = "showdown"
  BY DEF Settles, Playing, ShownPhase
<1>2. ViewOf(u) = View(u, {}, "showdown", NoSeat, {}) BY <1>1 DEF ViewOf
<1>3. b \in SUBSET Dealt(t.hand) /\ b # Dealt(t.hand)
  BY DEF Settles, Dealt, InHand
<1>4. SeatsTaken(u) = SeatsTaken(t) /\ Dealt(u.hand) = Dealt(t.hand)
  BY DEF Settles, SeatsTaken, Dealt, InHand
<1>5. SeatsOut(u) = out BY DEF Settles, SeatsOut, SameSeat, Dealt, InHand
<1>6. SeatsBroke(u) = broke
  BY <1>1 DEF Settles, SeatsBroke, HandsSeated, Dealt, InHand, SameSeat, Seated
<1>7. /\ u.button = t.button /\ u.gateOpen = t.gateOpen /\ u.gateReady = t.gateReady
  BY DEF Settles, SameDoor
<1>8. [v EXCEPT !.phase = "showdown"] = View(t, live, "showdown", turn, pending) BY DEF View
<1>9. [View(t, live, "showdown", turn, pending) EXCEPT !.turn = NoSeat]
         = View(t, live, "showdown", NoSeat, pending)
  BY DEF View
<1>10. [View(t, live, "showdown", NoSeat, pending) EXCEPT !.pending = {}]
         = View(t, live, "showdown", NoSeat, {})
  BY DEF View
<1>11. [View(t, live, "showdown", NoSeat, {}) EXCEPT !.live = {}] = w BY DEF View
<1> HIDE DEF broke, out
<1>12. [w EXCEPT !.broke = broke] = x BY DEF View
<1>13. [x EXCEPT !.out = out] = ViewOf(u)
  BY <1>2, <1>4, <1>5, <1>6, <1>7 DEF View
<1>14. v.dealt = Dealt(t.hand) /\ v.broke = SeatsBroke(t) /\ v.out = SeatsOut(t) BY ViewFields
<1> HIDE DEF v, w, x
<1>15. [v EXCEPT !.phase = "showdown", !.turn = NoSeat, !.pending = {}, !.live = {},
                 !.broke = broke, !.out = out] = ViewOf(u)
  BY <1>8, <1>9, <1>10, <1>11, <1>12, <1>13
<1> HIDE DEF b
<1>16. [v EXCEPT !.phase = "showdown", !.turn = NoSeat, !.pending = {}, !.live = {},
                 !.broke = (@ \ v.dealt) \cup b, !.out = @ \cup b] = ViewOf(u)
  BY <1>14, <1>15 DEF broke, out
<1> QED BY <1>3, <1>14, <1>16 DEF HostView!Settle, v

\* finishHand settles the hand.
LEMMA FinishHandSettles ==
    ASSUME NEW t, NEW v \in TableType, NEW rank, Calm(t, v), HandsSeated(t),
           Alone(v.hand) \/ rank \in Ranks, Funded(v), Contenders(v.hand) # {}
    PROVE  Settles(t, FinishHand(v, rank))
<1> DEFINE u == FinishHand(v, rank)
<1>1. u.hand.phase = "showdown" BY FinishHandPays
<1>2. SameDoor(v, u) BY DEF FinishHand, SameDoor, TableType
<1>3. \E s \in Seats : InHand(v, s) /\ u.seatStack[s] # 0 BY SomebodyIsPaid
<1>4. ASSUME NEW s \in Seats
      PROVE  /\ InHand(u, s) <=> InHand(v, s)
             /\ InHand(v, s) /\ Seated(v, s) => Seated(u, s)
             /\ ~InHand(v, s) => SameSeat(v, u, s) /\ u.seatStack[s] = v.seatStack[s]
             /\ InHand(v, s) =>
                   /\ u.sittingOut[s] <=> v.sittingOut[s] \/ u.seatStack[s] = 0
                   /\ \/ u.seatStack[s] = 0 \/ u.seatStatus[s] = "active"
                      \/ u.seatStatus[s] = v.seatStatus[s]
  <2> DEFINE stack == [r \in Seats |-> v.seatStack[r] + Award(v.hand, rank, r)]
             broke == {r \in Dealt(v.hand) : stack[r] = 0}
  <2>1. /\ InHand(u, s) <=> InHand(v, s)
        /\ ~InHand(v, s) => SameSeat(v, u, s)
        /\ s \notin Contenders(v.hand) => u.seatStack[s] = v.seatStack[s]
        /\ InHand(v, s) /\ u.seatStack[s] = 0 => u.seatStatus[s] = "busted"
        /\ InHand(v, s) /\ u.seatStack[s] > 0 =>
              u.seatStatus[s] = "active" \/ u.seatStatus[s] = v.seatStatus[s]
        /\ u.seatStack[s] \in Nat
    BY FinishHandSeats
  <2>3. ~InHand(v, s) => s \notin Contenders(v.hand) BY DEF InHand, Contenders
  <2>4. u.seatStack[s] = stack[s] BY FinishHandPays
  <2>5. u.sittingOut = [r \in Seats |-> r \in broke \/ v.sittingOut[r]]
    BY DEF FinishHand, TableType
  <2>6. s \in broke <=> InHand(v, s) /\ stack[s] = 0 BY DEF Dealt, InHand
  <2>7. u.sittingOut[s] <=> s \in broke \/ v.sittingOut[s]
    <3> HIDE DEF broke
    <3> QED BY <2>5
  <2> HIDE DEF stack, broke, u
  <2> QED BY <2>1, <2>3, <2>4, <2>6, <2>7 DEF Seated
<1> HIDE DEF u
<1>5. ASSUME NEW s \in Seats
      PROVE  /\ InHand(v, s) <=> InHand(t, s)
             /\ SameSeat(t, v, s)
             /\ ~InHand(t, s) => v.seatStack[s] = t.seatStack[s]
             /\ InHand(t, s) => Seated(t, s)
  BY DEF Calm, Quiet, HandsSeated
<1>6. SameDoor(t, u) BY <1>2 DEF Calm, SameDoor
<1>7. ASSUME NEW s \in Seats
      PROVE  /\ InHand(u, s) <=> InHand(t, s)
             /\ Seated(u, s) <=> Seated(t, s)
             /\ ~InHand(t, s) => SameSeat(t, u, s) /\ u.seatStack[s] = t.seatStack[s]
             /\ InHand(t, s) =>
                   /\ u.sittingOut[s] <=> t.sittingOut[s] \/ u.seatStack[s] = 0
                   /\ \/ u.seatStack[s] = 0 \/ u.seatStatus[s] = "active"
                      \/ u.seatStatus[s] = t.seatStatus[s]
  <2>1. SameSeat(t, v, s) BY <1>5
  <2>2. v.seatStatus[s] = t.seatStatus[s] /\ v.sittingOut[s] = t.sittingOut[s]
    BY <2>1 DEF SameSeat
  <2> QED BY <1>4, <1>5, <2>2 DEF SameSeat, Seated
<1> QED BY <1>1, <1>3, <1>5, <1>6, <1>7 DEF Settles, u
-----------------------------------------------------------------------------
(* A hand that goes on.                                                     *)

\* Whoever can still bet and has acted has bet no more than what there is to call.
Heard(h) == \A s \in Active(h) : h.acted[s] => h.bet[s] <= h.currentBet

\* Cards are owed while there are discards, and only by those who are still in.
Owing(h) ==
    /\ h.phase = "betting" => h.pending = {}
    /\ h.phase = "discard" => h.pending # {} /\ h.pending \subseteq Contenders(h)

\* At least two play the hand, and all of the above holds.
Going(t) ==
    /\ t \in TableType /\ Playing(t.hand)
    /\ ~(Cardinality(Contenders(t.hand)) < 2)
    /\ Heard(t.hand) /\ Owing(t.hand) /\ Funded(t)

\* Only the turn and the clock may differ.
LEMMA GoingStays ==
    ASSUME NEW t, NEW u \in TableType, Going(t), SamePoint(t.hand, u.hand),
           SameBets(t.hand, u.hand), u.seatStack = t.seatStack
    PROVE  Going(u) /\ Contenders(u.hand) = Contenders(t.hand)
<1>1. Contenders(u.hand) = Contenders(t.hand) /\ Active(u.hand) = Active(t.hand)
  BY DEF SameBets, Contenders, Active
<1>2. Playing(u.hand) BY DEF Going, Playing, SamePoint
<1>3. Heard(u.hand) BY <1>1 DEF Going, Heard, SameBets
<1>4. Owing(u.hand) BY <1>1 DEF Going, Owing, SamePoint
<1>5. Funded(u) BY DEF Going, Funded, SameBets, InHand
<1> QED BY <1>1, <1>2, <1>3, <1>4, <1>5 DEF Going

\* The turn passes to somebody who can act, unless the round is complete.
LEMMA NextIsActive ==
    ASSUME NEW h \in HandType, Heard(h), ~RoundComplete(h)
    PROVE  NextToAct(h) \in Active(h)
<1> DEFINE waiting == {s \in Active(h) : h.bet[s] < h.currentBet \/ ~h.acted[s]}
<1>1. PICK s \in WithChips(h) : ~(h.bet[s] = h.currentBet /\ h.acted[s])
  BY DEF RoundComplete
<1>2. s \in Active(h) /\ s \in Seats BY <1>1 DEF WithChips, Active
<1>3. h.bet[s] \in Nat /\ h.currentBet \in Nat /\ h.turn \in Seats \cup {NoSeat}
  BY <1>2 DEF HandType
<1>4. s \in waiting BY <1>1, <1>2, <1>3 DEF Heard
<1>5. waiting \in SUBSET Seats BY DEF Active
<1>6. FirstAfter(h.turn, waiting) \in waiting BY <1>3, <1>4, <1>5, FirstAfterIsOne
<1>7. NextToAct(h) = FirstAfter(h.turn, waiting) BY <1>4 DEF NextToAct
<1> QED BY <1>6, <1>7

\* Turns and marks are made in the hand alone.
LEMMA HandAlone ==
    ASSUME NEW t \in TableType, NEW h
    PROVE  SameDoor(t, WithHand(t, h))
BY DEF WithHand, SameDoor, TableType

\* Turns, pauses and openings of a street are calm.
LEMMA TurnsAreCalm ==
    ASSUME NEW t \in TableType
    PROVE  /\ Calm(t, Queue(t)) /\ Calm(t, PassTurn(t)) /\ Calm(t, OpenDiscard(t))
           /\ \A street \in Streets : Calm(t, OpenBetting(t, street))
<1>1. SameDoor(t, t) BY DEF SameDoor
<1>2. SameDoor(t, Queue(t)) BY <1>1, HandAlone DEF Queue
<1>3. SameDoor(t, PassTurn(t)) BY HandAlone DEF PassTurn
<1>4. SameDoor(t, OpenDiscard(t)) BY HandAlone DEF OpenDiscard
<1>5. \A street : SameDoor(t, OpenBetting(t, street)) BY HandAlone DEF OpenBetting
<1> QED BY <1>2, <1>3, <1>4, <1>5, TurnsAreQuiet DEF Calm

\* So are a discard and a fold.
LEMMA MarksAreCalm ==
    ASSUME NEW t \in TableType, NEW s \in Seats
    PROVE  /\ Calm(t, Discarded(t, s))
           /\ InHand(t, s) => Calm(t, Fold(t, s))
<1>1. SameDoor(t, Discarded(t, s)) BY HandAlone DEF Discarded
<1>2. SameDoor(t, Fold(t, s)) BY HandAlone DEF Fold
<1> QED BY <1>1, <1>2, MarksAreQuiet DEF Calm

\* And so is a move.
LEMMA MoveCalm ==
    ASSUME NEW t \in TableType, NEW s \in Seats, NEW action \in Actions,
           BetsAreCommitted(t.hand), Accepts(t.hand, s, action)
    PROVE  Calm(t, Move(t, s, action))
<1>1. ASSUME NEW v, SameDoor(t, v), NEW h PROVE SameDoor(t, WithHand(v, h))
  BY <1>1 DEF WithHand, SameDoor
<1>2. SameDoor(t, t) BY DEF SameDoor
<1>3. \A amount : SameDoor(t, CommitBet(t, s, amount)) BY DEF CommitBet, SameDoor, TableType
<1>4. SameDoor(t, Fold(t, s)) BY <1>1, <1>2 DEF Fold
<1>5. SameDoor(t, Acts(t, s)) BY <1>1, <1>2 DEF Acts
<1>6. \A amount : SameDoor(t, Acts(CommitBet(t, s, amount), s)) BY <1>1, <1>3 DEF Acts
<1>7. \A total : SameDoor(t, PlaceRaise(t, s, total)) BY <1>1, <1>3 DEF PlaceRaise
<1>8. SameDoor(t, Move(t, s, action)) BY <1>4, <1>5, <1>6, <1>7 DEF Move
<1> QED BY <1>8, MoveQuiet DEF Calm

\* Where the hand is, as the host sees it.
LEMMA GoingSees ==
    ASSUME NEW t, Going(t)
    PROVE  /\ t.hand.phase = "betting" /\ ~t.hand.waiting =>
                 ViewOf(t) = View(t, Contenders(t.hand), "betting", t.hand.turn, {})
           /\ t.hand.phase = "betting" /\ t.hand.waiting =>
                 ViewOf(t) = View(t, Contenders(t.hand), "pause", NoSeat, {})
           /\ t.hand.phase = "discard" =>
                 ViewOf(t) = View(t, Contenders(t.hand), "discard", NoSeat, t.hand.pending)
           /\ t.hand.phase \in {"betting", "discard"}
           /\ ~(t.hand.phase = "betting" /\ t.hand.phase = "discard")
<1>1. Playing(t.hand) /\ (t.hand.phase = "betting" => t.hand.pending = {})
  BY DEF Going, Owing
<1>2. t.hand.phase = "betting" /\ ~t.hand.waiting => ShownPhase(t.hand) = "betting"
  BY DEF ShownPhase
<1>3. t.hand.phase = "betting" /\ t.hand.waiting => ShownPhase(t.hand) = "pause"
  BY DEF ShownPhase
<1>4. t.hand.phase = "discard" => ShownPhase(t.hand) = "discard"
  BY DEF ShownPhase
<1> QED BY <1>1, <1>2, <1>3, <1>4 DEF ViewOf, Playing

\* After a bet or a fold another player acts, or the round is over.
LEMMA RoundGoesOn ==
    ASSUME NEW v, Going(v), v.hand.phase = "betting", ~v.hand.waiting, NEW u,
           u = IF RoundComplete(v.hand) THEN Queue(v) ELSE PassTurn(v)
    PROVE  /\ Going(u) /\ Calm(v, u)
           /\ \A turn :
                 ViewOf(u) \in HostView!GoOn(View(v, Contenders(v.hand), "betting", turn, {}))
<1>1. v \in TableType /\ v.hand \in HandType /\ Heard(v.hand) BY HandIsTyped DEF Going
<1>2. u \in TableType BY <1>1, QueueKeeps, PassTurnKeeps DEF Keeps
<1>3. Calm(v, u) BY <1>1, TurnsAreCalm
<1>4. /\ SamePoint(v.hand, u.hand) /\ SameBets(v.hand, u.hand) /\ u.seatStack = v.seatStack
      /\ RoundComplete(v.hand) => u.hand.waiting
      /\ ~RoundComplete(v.hand) => ~u.hand.waiting /\ u.hand.turn = NextToAct(v.hand)
  BY <1>1, TurnEffect, QueueMarks, PassTurnMarks DEF Still
<1>5. Going(u) /\ Contenders(u.hand) = Contenders(v.hand) BY <1>2, <1>4, GoingStays
<1>6. u.hand.phase = "betting" BY <1>4 DEF SamePoint
<1>7. Playing(v.hand) /\ Playing(u.hand) BY <1>5 DEF Going
<1>8. ASSUME NEW turn
      PROVE  ViewOf(u) \in HostView!GoOn(View(v, Contenders(v.hand), "betting", turn, {}))
  <2>1. CASE RoundComplete(v.hand)
    <3>1. ViewOf(u) = View(u, Contenders(v.hand), "pause", NoSeat, {})
      BY <1>4, <1>5, <1>6, <2>1, GoingSees
    <3>2. ViewOf(u) = View(v, Contenders(v.hand), "pause", NoSeat, {})
      BY <1>3, <1>7, <3>1, CalmIsSame
    <3> QED BY <3>2, GoOnSees
  <2>2. CASE ~RoundComplete(v.hand)
    <3>1. ViewOf(u) = View(u, Contenders(v.hand), "betting", u.hand.turn, {})
      BY <1>4, <1>5, <1>6, <2>2, GoingSees
    <3>2. ViewOf(u) = View(v, Contenders(v.hand), "betting", u.hand.turn, {})
      BY <1>3, <1>7, <3>1, CalmIsSame
    <3>3. u.hand.turn \in Active(v.hand) BY <1>1, <1>4, <2>2, NextIsActive
    <3>4. u.hand.turn \in Contenders(v.hand) BY <3>3 DEF Active, Contenders
    <3> QED BY <3>2, <3>4, GoOnSees
  <2> QED BY <2>1, <2>2
<1> QED BY <1>3, <1>5, <1>8

\* One of at least two leaves one, or at least two.
LEMMA OneLess ==
    ASSUME NEW S \in SUBSET Seats, NEW s \in S, ~(Cardinality(S) < 2)
    PROVE  IF Cardinality(S \ {s}) = 1 THEN Cardinality(S \ {s}) <= 1 /\ S \ {s} # {}
           ELSE ~(Cardinality(S \ {s}) <= 1) /\ ~(Cardinality(S \ {s}) < 2)
<1>1. IsFiniteSet(S) /\ IsFiniteSet(S \ {s}) BY SeatsFinite, FS_Subset
<1>2. Cardinality(S) \in Nat /\ Cardinality(S \ {s}) = Cardinality(S) - 1
  BY <1>1, FS_CardinalityType, FS_RemoveElement
<1> QED BY <1>2, FS_EmptySet

\* A player who can still bet folds.
LEMMA FoldLeaves ==
    ASSUME NEW t, Going(t), HandsSeated(t), NEW s \in Active(t.hand), s \notin t.hand.pending
    PROVE  LET v == Fold(t, s)
               left == Contenders(t.hand) \ {s}
           IN  /\ v \in TableType /\ Calm(t, v) /\ Contenders(v.hand) = left
               /\ v.hand.phase = t.hand.phase /\ v.hand.waiting = t.hand.waiting
               /\ v.hand.turn = t.hand.turn /\ v.hand.pending = t.hand.pending
               /\ Alone(v.hand) <=> Cardinality(left) = 1
               /\ Alone(v.hand) => Settles(t, FinishHand(v, NoRank))
               /\ ~Alone(v.hand) => Going(v)
<1> DEFINE v == Fold(t, s)
           left == Contenders(t.hand) \ {s}
<1>1. /\ t \in TableType /\ t.hand \in HandType /\ s \in Seats /\ t.hand.status[s] = "active"
      /\ s \in Contenders(t.hand)
  BY HandIsTyped DEF Going, Active, Contenders
<1>2. InHand(t, s) BY <1>1 DEF InHand
<1>3. v \in TableType /\ Calm(t, v) BY <1>1, <1>2, FoldKeeps, MarksAreCalm DEF Keeps, InHand
<1>4. Folds(t, v, s) BY <1>1, FoldPays
<1>5. SamePoint(t.hand, v.hand) /\ v.hand.waiting = t.hand.waiting BY <1>1, FoldEffect
<1> HIDE DEF v
<1>6. Contenders(v.hand) = left /\ Active(v.hand) \subseteq Active(t.hand)
  BY <1>1, <1>4 DEF Folds, OthersKeep, Contenders, Active
<1>7. v.hand.turn = t.hand.turn BY <1>4 DEF Folds, OthersKeep
<1>8. Contenders(t.hand) \in SUBSET Seats /\ ~(Cardinality(Contenders(t.hand)) < 2)
  BY DEF Going, Contenders
<1>9. Funded(v)
  <2> SUFFICES ASSUME NEW r \in Seats, InHand(v, r)
               PROVE  v.seatStack[r] + v.hand.committed[r] > 0
    BY DEF Funded
  <2>1. InHand(t, r) BY <1>3 DEF Calm, Quiet
  <2>2. v.seatStack[r] = t.seatStack[r] /\ v.hand.committed[r] = t.hand.committed[r]
    BY <1>4 DEF Folds, OthersKeep
  <2> QED BY <2>1, <2>2 DEF Going, Funded
<1>10. Alone(v.hand) <=> Cardinality(left) = 1 BY <1>6 DEF Alone
<1>11. ASSUME Alone(v.hand) PROVE Settles(t, FinishHand(v, NoRank))
  <2>1. Contenders(v.hand) # {} BY <1>1, <1>6, <1>8, <1>10, <1>11, OneLess
  <2> QED BY <1>3, <1>9, <1>11, <2>1, FinishHandSettles
<1>12. ASSUME ~Alone(v.hand) PROVE Going(v)
  <2>1. ~(Cardinality(Contenders(v.hand)) < 2) BY <1>1, <1>6, <1>8, <1>10, <1>12, OneLess
  <2>2. Heard(v.hand)
    <3> SUFFICES ASSUME NEW r \in Active(v.hand), v.hand.acted[r]
                 PROVE  v.hand.bet[r] <= v.hand.currentBet
      BY DEF Heard
    <3>1. r \in Seats \ {s} /\ r \in Active(t.hand)
      BY <1>4, <1>6 DEF Folds, Active
    <3> QED BY <1>4, <3>1 DEF Folds, OthersKeep, OthersActedSame, Going, Heard
  <2>3. Owing(v.hand) BY <1>5, <1>6 DEF Owing, SamePoint, Going
  <2>4. Playing(v.hand) BY <1>5 DEF SamePoint, Going, Playing
  <2> QED BY <1>3, <1>9, <2>1, <2>2, <2>3, <2>4 DEF Going
<1>13. v.hand.phase = t.hand.phase /\ v.hand.pending = t.hand.pending BY <1>5 DEF SamePoint
<1> QED BY <1>3, <1>5, <1>6, <1>7, <1>10, <1>11, <1>12, <1>13 DEF v

\* The hand goes on from t to u, or is settled.
Goes(t, u) == (Going(u) /\ Calm(t, u)) \/ Settles(t, u)

\* What becomes of a fold, on turn or not, is what LeaveHand makes of it.
LEMMA FoldSees ==
    ASSUME NEW t, Going(t), HandsSeated(t), NEW s \in Active(t.hand), s \notin t.hand.pending,
           NEW u, NEW v, v = Fold(t, s),
           IF Alone(v.hand) THEN u = FinishHand(v, NoRank)
           ELSE IF v.hand.phase # "betting" THEN u = v
           ELSE IF RoundComplete(v.hand) THEN u = Queue(v)
           ELSE IF v.hand.turn = s THEN u = PassTurn(v) ELSE u = v
    PROVE  Goes(t, u) /\ ViewOf(u) \in HostView!LeaveHand(ViewOf(t), s)
<1> DEFINE left == Contenders(t.hand) \ {s}
           live == Contenders(t.hand)
<1>1. /\ v \in TableType /\ Calm(t, v) /\ Contenders(v.hand) = left
      /\ v.hand.phase = t.hand.phase /\ v.hand.waiting = t.hand.waiting
      /\ v.hand.turn = t.hand.turn /\ v.hand.pending = t.hand.pending
      /\ Alone(v.hand) <=> Cardinality(left) = 1
      /\ Alone(v.hand) => Settles(t, FinishHand(v, NoRank))
      /\ ~Alone(v.hand) => Going(v)
  BY FoldLeaves
<1>2. /\ live \in SUBSET Seats /\ s \in live /\ ~(Cardinality(live) < 2)
      /\ Playing(t.hand)
  BY DEF Going, Contenders, Active
<1>3. IF Cardinality(left) = 1 THEN Cardinality(left) <= 1
      ELSE ~(Cardinality(left) <= 1)
  BY <1>2, OneLess
<1>4. PICK phase, turn, pending :
         /\ ViewOf(t) = View(t, live, phase, turn, pending)
         /\ IF t.hand.phase = "discard"
            THEN phase = "discard" /\ turn = NoSeat /\ pending = t.hand.pending
            ELSE IF t.hand.waiting THEN phase = "pause" /\ turn = NoSeat /\ pending = {}
            ELSE phase = "betting" /\ turn = t.hand.turn /\ pending = {}
  BY GoingSees
<1>5. CASE Alone(v.hand)
  <2>1. u = FinishHand(v, NoRank) /\ Settles(t, u) BY <1>1, <1>5
  <2>2. ViewOf(u) \in HostView!Settle(View(t, left, phase, turn, pending))
    BY <1>2, <2>1, SettlesSees
  <2>3. Cardinality(left) <= 1 BY <1>1, <1>3, <1>5
  <2>4. HostView!LeaveHand(ViewOf(t), s) = HostView!Settle(View(t, left, phase, turn, pending))
    BY <1>4, <2>3, LeaveHandSees
  <2> QED BY <2>1, <2>2, <2>4 DEF Goes
<1>6. CASE ~Alone(v.hand)
  <2> DEFINE w == View(t, left, phase, turn, pending)
             next == HostView!LeaveHand(ViewOf(t), s)
  <2>1. Going(v) /\ ~(Cardinality(left) <= 1) BY <1>1, <1>3, <1>6
  <2>2. IF phase # "betting" THEN next = {w}
        ELSE IF turn = s THEN next = HostView!GoOn(w)
        ELSE next = {w, View(t, left, "pause", NoSeat, pending)}
    <3> DEFINE now == HostView!LeaveHand(View(t, live, phase, turn, pending), s)
    <3>1. IF Cardinality(left) <= 1 THEN now = HostView!Settle(w)
          ELSE IF phase # "betting" THEN now = {w}
          ELSE IF turn = s THEN now = HostView!GoOn(w)
          ELSE now = {w, View(t, left, "pause", NoSeat, pending)}
      BY LeaveHandSees
    <3>2. next = now BY <1>4
    <3> HIDE DEF next, now, w, left
    <3> QED BY <2>1, <3>1, <3>2
  <2>3. Playing(v.hand) BY <2>1 DEF Going
  <2>4. \A p, q, r : View(v, left, p, q, r) = View(t, left, p, q, r)
    BY <1>1, <1>2, <2>3, CalmIsSame
  <2>5. Goes(t, v) BY <1>1, <2>1 DEF Goes
  <2> HIDE DEF next, w
  <2>6. CASE t.hand.phase = "discard"
    <3>1. u = v BY <1>1, <1>6, <2>6
    <3>2. ViewOf(v) = View(v, left, "discard", NoSeat, v.hand.pending)
      BY <1>1, <2>1, <2>6, GoingSees
    <3>3. ViewOf(v) = w BY <1>1, <1>4, <2>4, <2>6, <3>2 DEF w
    <3> QED BY <1>4, <2>2, <2>5, <2>6, <3>1, <3>3 DEF next
  <2>7. CASE t.hand.phase = "betting" /\ t.hand.waiting
    <3>1. phase = "pause" /\ next = {w} /\ w = View(t, left, "pause", NoSeat, {})
      BY <1>4, <2>2, <2>7 DEF w
    <3>2. u \in {v, Queue(v), PassTurn(v)} BY <1>1, <1>6, <2>7
    <3>3. CASE u = v
      <4>1. ViewOf(v) = View(v, left, "pause", NoSeat, {})
        BY <1>1, <2>1, <2>7, GoingSees
      <4> QED BY <2>4, <2>5, <3>1, <3>3, <4>1 DEF next
    <3>4. CASE u \in {Queue(v), PassTurn(v)}
      <4>1. u \in TableType BY <1>1, <3>4, QueueKeeps, PassTurnKeeps DEF Keeps
      <4>2. /\ SamePoint(v.hand, u.hand) /\ SameBets(v.hand, u.hand)
            /\ u.seatStack = v.seatStack /\ u.hand.waiting
        BY <1>1, <2>7, <3>4, TurnEffect, QueueMarks, PassTurnMarks DEF Still
      <4>3. Going(u) /\ Contenders(u.hand) = left
        BY <1>1, <2>1, <4>1, <4>2, GoingStays
      <4>4. Calm(v, u) BY <1>1, <3>4, TurnsAreCalm
      <4>5. Goes(t, u) BY <1>1, <4>3, <4>4, CalmThenCalm DEF Goes
      <4>6. u.hand.phase = "betting" BY <1>1, <2>7, <4>2 DEF SamePoint
      <4>7. ViewOf(u) = View(u, left, "pause", NoSeat, {})
        BY <4>2, <4>3, <4>6, GoingSees
      <4>8. Playing(u.hand) BY <4>3 DEF Going
      <4>9. ViewOf(u) = View(v, left, "pause", NoSeat, {})
        BY <2>3, <4>4, <4>7, <4>8, CalmIsSame
      <4> QED BY <2>4, <3>1, <4>5, <4>9 DEF next
    <3> QED BY <3>2, <3>3, <3>4
  <2>8. CASE t.hand.phase = "betting" /\ ~t.hand.waiting
    <3>1. /\ phase = "betting" /\ turn = t.hand.turn /\ pending = {}
          /\ v.hand.phase = "betting" /\ ~v.hand.waiting
      BY <1>1, <1>4, <2>8
    <3>2. CASE RoundComplete(v.hand) \/ turn = s
      <4>6. u = IF RoundComplete(v.hand) THEN Queue(v) ELSE PassTurn(v)
        BY <1>1, <1>6, <3>1, <3>2
      <4>1. /\ Going(u) /\ Calm(v, u)
            /\ ViewOf(u) \in HostView!GoOn(View(v, left, "betting", turn, {}))
        BY <1>1, <2>1, <3>1, <4>6, RoundGoesOn
      <4>2. View(v, left, "betting", turn, {}) = w BY <2>4, <3>1 DEF w
      <4>3. Goes(t, u) BY <1>1, <4>1, CalmThenCalm DEF Goes
      <4>4. CASE turn = s BY <2>2, <3>1, <4>1, <4>2, <4>3, <4>4 DEF next
      <4>5. CASE turn # s
        <5>1. u = Queue(v) /\ RoundComplete(v.hand)
          BY <3>2, <4>5, <4>6
        <5>2. /\ u.hand.waiting /\ SamePoint(v.hand, u.hand) /\ SameBets(v.hand, u.hand)
          BY <1>1, <5>1, QueueMarks, TurnEffect
        <5>3. Contenders(u.hand) = left /\ u.hand.phase = "betting"
          BY <1>1, <3>1, <5>2 DEF SameBets, SamePoint, Contenders
        <5>4. ViewOf(u) = View(u, left, "pause", NoSeat, {})
          BY <4>1, <5>2, <5>3, GoingSees
        <5>5. Playing(u.hand) BY <4>1 DEF Going
        <5>6. ViewOf(u) = View(v, left, "pause", NoSeat, {})
          BY <2>3, <4>1, <5>4, <5>5, CalmIsSame
        <5> QED BY <2>2, <2>4, <3>1, <4>3, <4>5, <5>6 DEF next
      <4> QED BY <4>4, <4>5
    <3>3. CASE ~RoundComplete(v.hand) /\ turn # s
      <4>2. u = v BY <1>1, <1>6, <3>1, <3>3
      <4>1. ViewOf(v) = View(v, left, "betting", turn, {})
        BY <1>1, <2>1, <3>1, GoingSees
      <4> QED BY <2>2, <2>4, <2>5, <3>1, <3>3, <4>1, <4>2 DEF next, w
    <3> QED BY <3>2, <3>3
  <2> QED BY <2>6, <2>7, <2>8, GoingSees
<1> QED BY <1>5, <1>6

\* A bet, a call or a check leaves everybody in.
LEMMA BetGoes ==
    ASSUME NEW t, Going(t), NEW s \in Seats, NEW action \in Actions,
           BetsAreCommitted(t.hand), Chipped(t.hand), StacksAgree(t),
           Accepts(t.hand, s, action), action.type # "fold"
    PROVE  LET v == Move(t, s, action)
           IN  /\ Going(v) /\ Calm(t, v) /\ Contenders(v.hand) = Contenders(t.hand)
               /\ v.hand.phase = "betting" /\ ~v.hand.waiting
<1> DEFINE v == Move(t, s, action)
<1>1. t \in TableType /\ t.hand \in HandType BY HandIsTyped DEF Going
<1>2. v \in TableType BY <1>1, MoveKeeps DEF Keeps
<1>3. Calm(t, v) BY <1>1, MoveCalm
<1>4. Wealth(t, v) BY <1>1, MoveKeepsWealth
<1>5. /\ SamePoint(t.hand, v.hand) /\ SamePlayers(t.hand, v.hand)
      /\ v.hand.waiting = t.hand.waiting
  BY <1>1, MoveEffect
<1>6. \/ Folds(t, v, s)
      \/ \E pay \in Int : PaysUp(t, v, s, pay)
      \/ \E pay \in Int : RaisesBy(t, v, s, pay)
  BY <1>1, MovePays
<1> HIDE DEF v
<1>7. Contenders(v.hand) = Contenders(t.hand) /\ Active(v.hand) \subseteq Active(t.hand)
  BY <1>5, SamePlayersContend
<1>8. Heard(v.hand)
  <2> SUFFICES ASSUME NEW r \in Active(v.hand), v.hand.acted[r]
               PROVE  v.hand.bet[r] <= v.hand.currentBet
    BY DEF Heard
  <2>1. /\ r \in Active(t.hand) /\ r \in Seats
        /\ t.hand.acted[r] => t.hand.bet[r] <= t.hand.currentBet
    BY <1>7 DEF Going, Heard, Active
  <2>2. t.hand.bet[r] \in Nat /\ t.hand.currentBet \in Nat BY <1>1, <2>1 DEF HandType
  <2>3. CASE Folds(t, v, s)
    <3>1. r # s BY <2>3 DEF Folds, Active
    <3> QED BY <2>1, <2>3, <3>1 DEF Folds, OthersKeep, OthersActedSame
  <2>4. ASSUME NEW pay \in Int, PaysUp(t, v, s, pay) PROVE v.hand.bet[r] <= v.hand.currentBet
    <3>1. CASE r = s BY <2>4, <3>1 DEF PaysUp, PutsIn
    <3>2. CASE r # s BY <2>1, <2>4, <3>2 DEF PaysUp, PutsIn, OthersKeep, OthersActedSame
    <3> QED BY <3>1, <3>2
  <2>5. ASSUME NEW pay \in Int, RaisesBy(t, v, s, pay) PROVE v.hand.bet[r] <= v.hand.currentBet
    <3>0. v.hand.currentBet \in Nat BY <1>2, HandIsTyped DEF HandType
    <3>1. CASE r = s BY <2>5, <3>0, <3>1 DEF RaisesBy
    <3>2. CASE r # s
      <4>1. v.hand.status[r] = "active" /\ r \in Seats \ {s} BY <2>1, <3>2 DEF Active
      <4>2. t.hand.acted[r] /\ v.hand.bet[r] = t.hand.bet[r]
        BY <2>5, <4>1 DEF RaisesBy, PutsIn, OthersKeep, OthersOwe
      <4>3. v.hand.currentBet > t.hand.currentBet BY <2>5 DEF RaisesBy
      <4> QED BY <2>1, <2>2, <3>0, <4>2, <4>3
    <3> QED BY <3>1, <3>2
  <2> QED BY <1>6, <2>3, <2>4, <2>5
<1>9. Owing(v.hand) BY <1>5, <1>7 DEF Going, Owing, SamePoint
<1>10. Funded(v)
  <2> SUFFICES ASSUME NEW r \in Seats, InHand(v, r)
               PROVE  v.seatStack[r] + v.hand.committed[r] > 0
    BY DEF Funded
  <2>1. InHand(t, r) BY <1>4 DEF Wealth
  <2>2. v.seatStack[r] + v.hand.committed[r] = t.seatStack[r] + t.hand.committed[r]
    BY <1>4 DEF Wealth
  <2> QED BY <2>1, <2>2 DEF Going, Funded
<1>11. v.hand.phase = "betting" /\ ~v.hand.waiting
  BY <1>5 DEF SamePoint, Accepts, OnTurn
<1>12. Playing(v.hand) BY <1>11 DEF Playing
<1>13. ~(Cardinality(Contenders(v.hand)) < 2) BY <1>7 DEF Going
<1>14. Going(v) BY <1>2, <1>8, <1>9, <1>10, <1>12, <1>13 DEF Going
<1> QED BY <1>3, <1>7, <1>11, <1>14 DEF v

\* Two are not alone.
LEMMA GoingIsNotAlone ==
    ASSUME NEW t, Going(t)
    PROVE  ~Alone(t.hand)
<1>1. Cardinality(Contenders(t.hand)) = 1 => Cardinality(Contenders(t.hand)) < 2 OBVIOUS
<1> QED BY <1>1 DEF Going, Alone

\* An accepted action is what ActNow makes of who is on turn.
LEMMA ApplyActionSees ==
    ASSUME NEW t, Going(t), HandsSeated(t), NEW s \in Seats, NEW action \in Actions,
           BetsAreCommitted(t.hand), Chipped(t.hand), StacksAgree(t),
           Accepts(t.hand, s, action)
    PROVE  LET u == ApplyAction(t, s, action)
           IN  /\ Goes(t, u) /\ ViewOf(u) \in HostView!ActNow(ViewOf(t), s)
               /\ s \in Contenders(t.hand)
               /\ ViewOf(t) = View(t, Contenders(t.hand), "betting", s, {})
<1> DEFINE u == ApplyAction(t, s, action)
           v == Move(t, s, action)
<1>1. /\ t.hand.phase = "betting" /\ ~t.hand.waiting /\ t.hand.turn = s
      /\ s \in Active(t.hand)
  BY DEF Accepts, OnTurn, Active
<1>2. s \in Contenders(t.hand) BY <1>1 DEF Active, Contenders
<1>3. ViewOf(t) = View(t, Contenders(t.hand), "betting", s, {}) BY <1>1, GoingSees
<1>4. u = IF Alone(v.hand) THEN FinishHand(v, NoRank)
          ELSE IF RoundComplete(v.hand) THEN Queue(v) ELSE PassTurn(v)
  BY DEF ApplyAction
<1>5. HostView!ActNow(ViewOf(t), s)
         = HostView!GoOn(ViewOf(t)) \cup HostView!LeaveHand(ViewOf(t), s)
  BY DEF HostView!ActNow
<1>6. CASE action.type = "fold"
  <2>1. v = Fold(t, s) BY <1>6 DEF Move
  <2>2. s \notin t.hand.pending BY <1>1 DEF Going, Owing
  <2> HIDE DEF u, v
  <2>3. v.hand.phase = "betting" /\ v.hand.turn = s BY <1>1, <2>1, <2>2, FoldLeaves
  <2>4. IF Alone(v.hand) THEN u = FinishHand(v, NoRank)
        ELSE IF v.hand.phase # "betting" THEN u = v
        ELSE IF RoundComplete(v.hand) THEN u = Queue(v)
        ELSE IF v.hand.turn = s THEN u = PassTurn(v) ELSE u = v
    BY <1>4, <2>3
  <2>5. Goes(t, u) /\ ViewOf(u) \in HostView!LeaveHand(ViewOf(t), s)
    BY <1>1, <2>1, <2>2, <2>4, FoldSees
  <2> QED BY <1>2, <1>3, <1>5, <2>5 DEF u
<1>7. CASE action.type # "fold"
  <2>1. /\ Going(v) /\ Calm(t, v) /\ Contenders(v.hand) = Contenders(t.hand)
        /\ v.hand.phase = "betting" /\ ~v.hand.waiting
    BY <1>7, BetGoes
  <2> HIDE DEF u, v
  <2>2. u = IF RoundComplete(v.hand) THEN Queue(v) ELSE PassTurn(v)
    BY <1>4, <2>1, GoingIsNotAlone
  <2>3. /\ Going(u) /\ Calm(v, u)
        /\ ViewOf(u) \in HostView!GoOn(View(v, Contenders(v.hand), "betting", s, {}))
    BY <2>1, <2>2, RoundGoesOn
  <2>4. Playing(t.hand) /\ Playing(v.hand) BY <2>1 DEF Going
  <2>5. View(v, Contenders(v.hand), "betting", s, {}) = ViewOf(t)
    BY <1>3, <2>1, <2>4, CalmIsSame
  <2>6. Goes(t, u) BY <2>1, <2>3, CalmThenCalm DEF Goes
  <2> QED BY <1>2, <1>3, <1>5, <2>3, <2>5, <2>6 DEF u
<1> QED BY <1>6, <1>7

-----------------------------------------------------------------------------
(* The streets that follow by themselves.                                   *)

\* From t to u the next street, its discard or the showdown is reached.
Reaches(t, u) ==
    \/ Settles(t, u)
    \/ /\ Going(u) /\ Calm(t, u) /\ Contenders(u.hand) = Contenders(t.hand)
       /\ \/ u.hand.phase = "betting" /\ ~u.hand.waiting /\ u.hand.turn \in Contenders(u.hand)
          \/ u.hand.phase = "discard" /\ u.hand.pending = Contenders(u.hand) \ SeatsOut(u)

\* That is what OpenNext makes of what the host saw, at whatever point.
LEMMA ReachesSees ==
    ASSUME NEW t, NEW u, Playing(t.hand), HandsSeated(t), Reaches(t, u),
           NEW phase, NEW turn, NEW pending
    PROVE  /\ Goes(t, u)
           /\ ViewOf(u) \in HostView!OpenNext(View(t, Contenders(t.hand), phase, turn, pending))
<1> DEFINE live == Contenders(t.hand)
           v == View(t, live, phase, turn, pending)
           next == HostView!OpenNext(v)
<1>1. Goes(t, u) BY DEF Reaches, Goes
<1>2. /\ \A p \in live : View(t, live, "betting", p, {}) \in next
      /\ live \ SeatsOut(t) # {} =>
            View(t, live, "discard", NoSeat, live \ SeatsOut(t)) \in next
      /\ HostView!Settle(v) \subseteq next
  BY OpenNextSees
<1> HIDE DEF next
<1>3. CASE Settles(t, u)
  <2>1. ViewOf(u) \in HostView!Settle(v) BY <1>3, SettlesSees
  <2> QED BY <1>1, <1>2, <2>1 DEF next
<1>4. CASE ~Settles(t, u)
  <2>1. /\ Going(u) /\ Calm(t, u) /\ Contenders(u.hand) = live
        /\ \/ u.hand.phase = "betting" /\ ~u.hand.waiting /\ u.hand.turn \in live
           \/ u.hand.phase = "discard" /\ u.hand.pending = live \ SeatsOut(u)
    BY <1>4 DEF Reaches
  <2>2. /\ \A p, q, r : View(u, live, p, q, r) = View(t, live, p, q, r)
        /\ SeatsOut(u) = SeatsOut(t)
    BY <2>1, CalmIsSame DEF Going
  <2>3. CASE u.hand.phase = "betting"
    <3>1. ViewOf(u) = View(t, live, "betting", u.hand.turn, {}) /\ u.hand.turn \in live
      BY <2>1, <2>2, <2>3, GoingSees
    <3> QED BY <1>1, <1>2, <3>1 DEF next
  <2>4. CASE u.hand.phase = "discard"
    <3>1. ViewOf(u) = View(t, live, "discard", NoSeat, live \ SeatsOut(t))
      BY <2>1, <2>2, <2>4, GoingSees
    <3>2. live \ SeatsOut(t) # {} BY <2>1, <2>2, <2>4 DEF Going, Owing
    <3> QED BY <1>1, <1>2, <3>1, <3>2 DEF next
  <2> QED BY <2>1, <2>3, <2>4
<1> QED BY <1>3, <1>4

\* Between two streets the hand is that of t, but for the point where it is.
Standing(t, v) ==
    /\ v \in TableType /\ Playing(v.hand) /\ Calm(t, v)
    /\ Contenders(v.hand) = Contenders(t.hand) /\ ~(Cardinality(Contenders(v.hand)) < 2)
    /\ Heard(v.hand) /\ Funded(v) /\ Chipped(v.hand)

\* A discard that nobody owes any more.
AllGiven(t, v) ==
    Standing(t, v) /\ v.hand.phase = "discard" /\ v.hand.pending = {} /\ Rules(v.hand)

\* It stays so while nobody folds, pays or is paid.
LEMMA StandingStays ==
    ASSUME NEW t, NEW v, NEW u \in TableType, Standing(t, v), Playing(u.hand), Calm(v, u),
           Still(v, u), u.hand.stack = v.hand.stack, Heard(u.hand)
    PROVE  Standing(t, u)
<1>1. Calm(t, u) BY CalmThenCalm DEF Standing
<1>2. Contenders(u.hand) = Contenders(v.hand) BY DEF Still, Contenders
<1>3. Funded(u) BY DEF Still, Funded, InHand, Standing
<1>4. Chipped(u.hand) BY DEF Still, Chipped, Standing
<1> QED BY <1>1, <1>2, <1>3, <1>4 DEF Standing

\* With the cards that are owed it is a hand that goes on.
LEMMA StandingGoes ==
    ASSUME NEW t, NEW u, Standing(t, u), Owing(u.hand)
    PROVE  Going(u)
BY DEF Standing, Going

\* Nobody holds fewer cards on a street than the discard leaves.
LEMMA CardsAreLeft ==
    ASSUME NEW h, NEW street, ReadyForStreet(h, street)
    PROVE  {s \in Contenders(h) : h.cards[s] > KeptCards} = Contenders(h)
BY DEF ReadyForStreet, KeptCards, HoleCards, DiscardsMade

\* beginDiscardPhase
LEMMA OpenDiscardReaches ==
    ASSUME NEW t, NEW w, Standing(t, w), ReadyForStreet(w.hand, w.hand.street),
           Rules(OpenDiscard(w).hand)
    PROVE  LET x == OpenDiscard(w)
           IN  /\ x.hand.street = w.hand.street
               /\ Reaches(t, x) \/ AllGiven(t, x)
<1> DEFINE x == OpenDiscard(w)
           owing == {s \in Contenders(w.hand) : w.hand.cards[s] > KeptCards}
<1>1. w \in TableType /\ Playing(w.hand) BY DEF Standing
<1>2. x \in TableType /\ Playing(x.hand) BY <1>1, OpenDiscardKeeps DEF Keeps
<1>3. Still(w, x) /\ SameBets(w.hand, x.hand) /\ x.hand.phase = "discard"
  BY <1>1, DiscardsMark
<1>4. Calm(w, x) BY <1>1, TurnsAreCalm
<1>5. /\ x.hand.street = w.hand.street
      /\ x.hand.pending = owing \ {s \in owing : w.sittingOut[s]}
      /\ x.sittingOut = w.sittingOut
  BY <1>1, OpenDiscardEffect
<1>6. owing = Contenders(w.hand) BY CardsAreLeft
<1> HIDE DEF x, owing
<1>7. Heard(x.hand) BY <1>3 DEF SameBets, Heard, Active, Standing
<1>8. Standing(t, x) BY <1>2, <1>3, <1>4, <1>7, StandingStays DEF SameBets
<1>9. Contenders(x.hand) = Contenders(w.hand) BY <1>3 DEF Still, Contenders
<1>10. x.hand.pending = Contenders(x.hand) \ SeatsOut(x)
  BY <1>5, <1>6, <1>9 DEF SeatsOut, Contenders
<1>11. CASE x.hand.pending = {}
  BY <1>3, <1>5, <1>8, <1>11 DEF AllGiven, x
<1>12. CASE x.hand.pending # {}
  <2>1. Owing(x.hand) BY <1>3, <1>10, <1>12 DEF Owing
  <2>2. Going(x) BY <1>8, <2>1, StandingGoes
  <2>3. Reaches(t, x) BY <1>3, <1>8, <1>10, <2>2 DEF Reaches, Standing
  <2> QED BY <1>5, <2>3 DEF x
<1> QED BY <1>11, <1>12

\* The same hand at another point
LEMMA StandingWith ==
    ASSUME NEW t, NEW w, Standing(t, w), NEW k \in HandType, SameBets(w.hand, k),
           k.phase = w.hand.phase
    PROVE  Standing(t, WithHand(w, k)) /\ WithHand(w, k).hand = k
<1> DEFINE z == WithHand(w, k)
<1>1. w \in TableType BY DEF Standing
<1>2. z \in TableType /\ z.hand = k /\ z.seatStack = w.seatStack /\ z.seatStatus = w.seatStatus
  BY <1>1, WithHandEffect
<1>3. SameDoor(w, z) BY <1>1, HandAlone
<1>4. Quiet(w, z) BY <1>1, SameStatusQuiet DEF SameBets
<1> HIDE DEF z
<1>5. Playing(z.hand) BY <1>2 DEF Standing, Playing
<1>6. Still(w, z) BY <1>2 DEF Still, SameBets
<1>7. Heard(z.hand) BY <1>2 DEF Heard, SameBets, Active, Standing
<1>8. Standing(t, z)
  BY <1>2, <1>3, <1>4, <1>5, <1>6, <1>7, StandingStays DEF Calm, SameBets
<1> QED BY <1>2, <1>8 DEF z

\* Where nobody is locked out, somebody can bet.
LEMMA UnlockedIsActive ==
    ASSUME NEW h \in HandType, ~BettingLocked(h)
    PROVE  SeatAfterButton(h) \in Active(h)
<1>1. Active(h) # {} /\ Active(h) \in SUBSET Seats BY DEF BettingLocked, WithChips, Active
<1>2. h.button \in Seats \cup {NoSeat} BY DEF HandType
<1>3. FirstAfter(h.button, Active(h)) \in Active(h) BY <1>1, <1>2, FirstAfterIsOne
<1> QED BY <1>1, <1>3 DEF SeatAfterButton

\* Betting on a street starts with a player who can bet.
LEMMA OpenBettingTurn ==
    ASSUME NEW t \in TableType, NEW street \in Streets, ~BettingLocked(t.hand)
    PROVE  OpenBetting(t, street).hand.turn \in Active(t.hand)
<1> DEFINE h == [t.hand EXCEPT !.street = street, !.phase = "betting",
                               !.currentBet = 0, !.minRaise = BigBlind, !.raises = 0,
                               !.waiting = FALSE, !.clock = TRUE,
                               !.bet = [s \in Seats |-> 0],
                               !.acted = [s \in Seats |-> t.hand.status[s] # "active"]]
           g == [h EXCEPT !.turn = SeatAfterButton(h)]
<1>1. t.hand \in HandType BY HandIsTyped
<1>2. h.button = t.hand.button /\ h.status = t.hand.status BY <1>1 DEF HandType
<1>3. g.turn = SeatAfterButton(h) BY <1>1 DEF HandType
<1>4. OpenBetting(t, street) = WithHand(t, g) BY DEF OpenBetting
<1> HIDE DEF g, h
<1>5. OpenBetting(t, street).hand = g BY <1>4, WithHandOnly
<1>6. SeatAfterButton(h) = SeatAfterButton(t.hand) BY <1>2 DEF SeatAfterButton, Active
<1> QED BY <1>1, <1>3, <1>5, <1>6, UnlockedIsActive

\* A street opens with betting or with its discard.
LEMMA OpenStreetReaches ==
    ASSUME NEW t, NEW w, Standing(t, w), NEW street, NEW cards \in Nat, w.hand.pending = {},
           ReadyForStreet([w.hand EXCEPT !.board = @ + cards], street)
    PROVE  LET x == OpenStreet(w, street, cards)
           IN  Reaches(t, x) \/ (AllGiven(t, x) /\ x.hand.street = street)
<1> DEFINE h == [w.hand EXCEPT !.board = @ + cards]
           g == [h EXCEPT !.street = street]
           x == OpenStreet(w, street, cards)
           vh == WithHand(w, h)
           vg == WithHand(w, g)
<1>1. w \in TableType /\ w.hand \in HandType /\ street \in {"flop", "turn", "river"}
      /\ street \in Streets
  BY HandIsTyped DEF Standing, ReadyForStreet, Streets
<1>2. /\ h \in HandType /\ g \in HandType /\ g.street = street
      /\ h.phase = w.hand.phase /\ g.phase = w.hand.phase
      /\ SameBets(w.hand, h) /\ SameBets(w.hand, g)
      /\ h.pending = w.hand.pending /\ g.board = h.board /\ g.cards = h.cards
  <2>1. /\ h \in HandType /\ h.phase = w.hand.phase /\ h.pending = w.hand.pending
        /\ SameBets(w.hand, h)
    BY <1>1 DEF HandType, SameBets
  <2> HIDE DEF h
  <2>2. /\ g \in HandType /\ g.street = street /\ g.phase = h.phase /\ SameBets(h, g)
        /\ g.board = h.board /\ g.cards = h.cards
    BY <1>1, <2>1 DEF HandType, SameBets
  <2> HIDE DEF g
  <2> QED BY <2>1, <2>2 DEF SameBets
<1>3. x = IF BettingLocked(h) THEN OpenDiscard(vg) ELSE OpenBetting(vh, street)
  BY DEF OpenStreet
<1>4. Rules(x.hand) BY <1>1, OpenStreetRules DEF Standing
<1>5. ReadyForStreet(h, street) OBVIOUS
<1> HIDE DEF h, g, x
<1>6. ReadyForStreet(g, g.street) BY <1>2, <1>5 DEF ReadyForStreet, SameBets, Contenders
<1>8. Standing(t, vh) /\ vh.hand = h /\ Standing(t, vg) /\ vg.hand = g BY <1>2, StandingWith
<1> HIDE DEF vh, vg
<1>9. CASE BettingLocked(h)
  <2>1. x = OpenDiscard(vg) BY <1>3, <1>9
  <2>2. x.hand.street = street /\ (Reaches(t, x) \/ AllGiven(t, x))
    BY <1>2, <1>4, <1>6, <1>8, <2>1, OpenDiscardReaches
  <2> QED BY <2>2 DEF x
<1>10. CASE ~BettingLocked(h)
  <2>1. x = OpenBetting(vh, street) BY <1>3, <1>10
  <2>2. vh \in TableType /\ Playing(vh.hand) BY <1>8 DEF Standing
  <2>3. x \in TableType BY <1>1, <2>1, <2>2, OpenBettingKeeps DEF Keeps
  <2>4. Calm(vh, x) BY <1>1, <2>1, <2>2, TurnsAreCalm
  <2>5. /\ Still(vh, x) /\ x.hand.stack = vh.hand.stack
        /\ x.hand.phase = "betting" /\ ~x.hand.waiting
        /\ x.hand.currentBet = 0 /\ \A s \in Seats : x.hand.bet[s] = 0
    BY <2>1, <2>2, OpenBettingMarks
  <2>6. x.hand.pending = {} BY <1>1, <1>2, <1>8, <2>1, <2>2, OpenBettingEffect
  <2>7. x.hand.turn \in Active(h) BY <1>1, <1>8, <1>10, <2>1, <2>2, OpenBettingTurn
  <2>8. Heard(x.hand) BY <2>5 DEF Heard, Active
  <2>9. Standing(t, x) BY <1>8, <2>3, <2>4, <2>5, <2>8, StandingStays DEF Playing
  <2>10. Going(x) BY <2>5, <2>6, <2>9, StandingGoes DEF Owing
  <2>11. x.hand.turn \in Contenders(x.hand)
    BY <1>8, <2>5, <2>7 DEF Active, Contenders, Still
  <2>12. Reaches(t, x) BY <2>5, <2>9, <2>10, <2>11 DEF Reaches, Standing
  <2> QED BY <2>12 DEF x
<1> QED BY <1>9, <1>10

\* completeDiscardPhase, when all cards have been given
LEMMA CloseReaches ==
    ASSUME NEW t, HandsSeated(t), NEW v, AllGiven(t, v), NEW x \in CloseDiscard(v)
    PROVE  \/ Reaches(t, x)
           \/ AllGiven(t, x) /\ v.hand.street = "flop" /\ x.hand.street = "turn"
           \/ AllGiven(t, x) /\ v.hand.street = "turn" /\ x.hand.street = "river"
<1> DEFINE h == [v.hand EXCEPT !.discardClock = FALSE]
           g == [h EXCEPT !.street = "showdown"]
           w == WithHand(v, h)
           over == WithHand(v, g)
<1>1. /\ v \in TableType /\ v.hand \in HandType /\ v.hand.phase = "discard"
      /\ v.hand.pending = {} /\ Standing(t, v) /\ Rules(v.hand)
  BY HandIsTyped DEF AllGiven, Standing
<1>2. /\ v.hand.street \in {"flop", "turn", "river"}
      /\ v.hand.board = BoardSize(v.hand.street)
      /\ \A s \in Contenders(v.hand) :
            v.hand.cards[s] = HoleCards - DiscardsMade(v.hand.street) - 1
  BY <1>1 DEF Rules, CardRules, CardsDue, Playing
<1>3. /\ h \in HandType /\ h.phase = "discard" /\ h.board = v.hand.board
      /\ h.cards = v.hand.cards /\ h.pending = {} /\ SameBets(v.hand, h)
  BY <1>1 DEF HandType, SameBets
<1>4. \/ v.hand.street = "flop" /\ x = OpenStreet(w, "turn", 1)
      \/ v.hand.street = "turn" /\ x = OpenStreet(w, "river", 1)
      \/ v.hand.street = "river" /\ \E rank \in Ranks : x = FinishHand(over, rank)
  BY <1>1, <1>2 DEF CloseDiscard
<1> HIDE DEF h
<1>5. g \in HandType /\ SameBets(h, g) /\ g.phase = h.phase BY <1>3 DEF HandType, Streets, SameBets
<1> HIDE DEF g
<1>6. Standing(t, w) /\ w.hand = h BY <1>1, <1>3, StandingWith
<1>7. Standing(t, over) /\ over.hand = g
  BY <1>1, <1>3, <1>5, StandingWith DEF SameBets
<1> HIDE DEF w, over
<1>8. ASSUME NEW street \in {"turn", "river"}, x = OpenStreet(w, street, 1),
             \/ v.hand.street = "flop" /\ street = "turn"
             \/ v.hand.street = "turn" /\ street = "river"
      PROVE  Reaches(t, x) \/ (AllGiven(t, x) /\ x.hand.street = street)
  <2> DEFINE k == [w.hand EXCEPT !.board = @ + 1]
  <2>1. k.board = BoardSize(v.hand.street) + 1 /\ k.cards = v.hand.cards /\ k.status = v.hand.status
    BY <1>2, <1>3, <1>6 DEF HandType, SameBets
  <2> HIDE DEF k
  <2>2. BoardSize(v.hand.street) + 1 = BoardSize(street) BY <1>8 DEF BoardSize
  <2>3. HoleCards - DiscardsMade(v.hand.street) - 1 = HoleCards - DiscardsMade(street)
    BY <1>8 DEF DiscardsMade, HoleCards
  <2>4. Contenders(k) = Contenders(v.hand) BY <2>1 DEF Contenders
  <2>5. ReadyForStreet(k, street)
    BY <1>2, <1>8, <2>1, <2>2, <2>3, <2>4 DEF ReadyForStreet
  <2> QED BY <1>3, <1>6, <1>8, <2>5, OpenStreetReaches DEF k
<1>9. ASSUME NEW rank \in Ranks, x = FinishHand(over, rank) PROVE Reaches(t, x)
  <2>1. Contenders(over.hand) # {} BY <1>7, FS_EmptySet DEF Standing
  <2>2. Settles(t, x) BY <1>7, <1>9, <2>1, FinishHandSettles DEF Standing
  <2> QED BY <2>2 DEF Reaches
<1> QED BY <1>4, <1>8, <1>9

\* Where a street is open, or the hand over, there it stops.
LEMMA ReachedRests ==
    ASSUME NEW t, NEW x, Reaches(t, x)
    PROVE  CloseDiscard(x) = {x} /\ RunDiscards(x) = {x}
<1>1. x.hand.phase # "discard" \/ x.hand.pending # {}
  BY DEF Reaches, Settles, Going, Owing
<1> QED BY <1>1, RunDiscardsStops

\* The streets that follow by themselves end where one is open or at the showdown.
LEMMA RunReaches ==
    ASSUME NEW t, HandsSeated(t), NEW v, AllGiven(t, v), NEW u \in RunDiscards(v)
    PROVE  Reaches(t, u)
<1>1. PICK x \in CloseDiscard(v) : \E y \in CloseDiscard(x) : u \in CloseDiscard(y)
  BY DEF RunDiscards
<1>2. PICK y \in CloseDiscard(x) : u \in CloseDiscard(y) BY <1>1
<1>3. Reaches(t, x) => y = x BY ReachedRests
<1>4. Reaches(t, y) => u = y BY <1>2, ReachedRests
<1>5. \/ Reaches(t, x)
      \/ AllGiven(t, x) /\ x.hand.street \in {"turn", "river"}
  BY CloseReaches
<1>6. \/ Reaches(t, y)
      \/ AllGiven(t, y) /\ y.hand.street = "river"
  <2>1. CASE Reaches(t, x) BY <1>3, <2>1
  <2>2. CASE AllGiven(t, x) /\ x.hand.street \in {"turn", "river"}
    BY <2>2, CloseReaches
  <2> QED BY <1>5, <2>1, <2>2
<1>7. CASE Reaches(t, y) BY <1>4, <1>7
<1>8. CASE AllGiven(t, y) /\ y.hand.street = "river"
  BY <1>2, <1>8, CloseReaches
<1> QED BY <1>6, <1>7, <1>8

\* A hand that goes on stands.
LEMMA GoingStands ==
    ASSUME NEW t, Going(t), Rules(t.hand)
    PROVE  Standing(t, t) /\ Chipped(t.hand)
<1>1. Chipped(t.hand) BY DEF Going, Rules, ChipRules
<1>2. Calm(t, t) BY DEF Calm, Quiet, SameSeat, SameDoor
<1> QED BY <1>1, <1>2 DEF Standing, Going

\* advancePendingPhase, when the betting is over
LEMMA PauseSees ==
    ASSUME NEW t, Going(t), HandsSeated(t), Rules(t.hand), t.hand.phase = "betting",
           t.hand.waiting, NEW u \in AdvancePendingPhase(t)
    PROVE  /\ Goes(t, u) /\ ViewOf(u) \in HostView!PauseIsOver(ViewOf(t))
           /\ ViewOf(t) = View(t, Contenders(t.hand), "pause", NoSeat, {})
<1> DEFINE h == [t.hand EXCEPT !.waiting = FALSE]
           g == [h EXCEPT !.clock = FALSE]
           v == WithHand(t, g)
<1>1. t \in TableType /\ t.hand \in HandType /\ Playing(t.hand) BY HandIsTyped DEF Going
<1>2. /\ h \in HandType /\ SameBets(t.hand, h) /\ SamePoint(t.hand, h)
  BY <1>1 DEF HandType, SameBets, SamePoint
<1>3. g \in HandType /\ SameBets(t.hand, g) /\ SamePoint(t.hand, g)
  <2> HIDE DEF h
  <2>1. g \in HandType /\ SameBets(h, g) /\ SamePoint(h, g)
    BY <1>2 DEF HandType, SameBets, SamePoint
  <2> HIDE DEF g
  <2> QED BY <1>2, <2>1 DEF SameBets, SamePoint
<1>4. IF t.hand.street = "preflop" THEN u \in RunDiscards(OpenStreet(v, "flop", 3))
      ELSE u \in RunDiscards(OpenDiscard(v))
  <2>1. h.phase = t.hand.phase BY <1>2 DEF SamePoint
  <2> HIDE DEF h
  <2>2. t.hand.phase = "betting" => h.phase = "betting" BY <2>1
  <2> QED BY <2>2 DEF AdvancePendingPhase, h
<1> HIDE DEF h, g
<1>5. Standing(t, v) /\ v.hand = g
  BY <1>3, GoingStands, StandingWith DEF SamePoint
<1>6. Chipped(g) /\ Paid(g) /\ g.pending = {}
  <2>1. Chipped(t.hand) /\ Paid(t.hand) BY <1>1 DEF Rules, ChipRules
  <2>2. t.hand.pending = {} BY DEF Going, Owing
  <2> QED BY <1>3, <2>1, <2>2 DEF SameBets, SamePoint, Chipped, Paid, Active
<1>7. /\ t.hand.street \in {"preflop", "flop", "turn", "river"}
      /\ g.street = t.hand.street /\ g.board = BoardSize(t.hand.street)
      /\ \A s \in Contenders(g) : g.cards[s] = HoleCards - DiscardsMade(t.hand.street)
  <2>1. /\ t.hand.street \in {"preflop", "flop", "turn", "river"}
        /\ t.hand.board = BoardSize(t.hand.street)
        /\ \A s \in Contenders(t.hand) : t.hand.cards[s] = CardsDue(t.hand, s)
    BY <1>1 DEF Rules, CardRules
  <2>2. \A s : CardsDue(t.hand, s) = HoleCards - DiscardsMade(t.hand.street) - 0
    BY DEF CardsDue
  <2>3. HoleCards - DiscardsMade(t.hand.street) - 0 = HoleCards - DiscardsMade(t.hand.street)
    BY <2>1 DEF HoleCards, DiscardsMade
  <2>4. Contenders(g) = Contenders(t.hand) BY <1>3 DEF SameBets, Contenders
  <2> QED BY <1>3, <2>1, <2>2, <2>3, <2>4 DEF SamePoint
<1> HIDE DEF v
<1>8. Reaches(t, u)
  <2>1. CASE t.hand.street = "preflop"
    <3> DEFINE k == [v.hand EXCEPT !.board = @ + 3]
               x == OpenStreet(v, "flop", 3)
    <3>1. k.board = g.board + 3 /\ k.cards = g.cards /\ k.status = g.status
      BY <1>3, <1>5 DEF HandType
    <3> HIDE DEF k
    <3>2. Contenders(k) = Contenders(g) BY <3>1 DEF Contenders
    <3>3. ReadyForStreet(k, "flop")
      BY <1>7, <2>1, <3>1, <3>2 DEF ReadyForStreet, BoardSize, DiscardsMade
    <3>4. Reaches(t, x) \/ AllGiven(t, x)
      BY <1>5, <1>6, <3>3, OpenStreetReaches DEF k
    <3>5. u \in RunDiscards(x) BY <1>4, <2>1
    <3> HIDE DEF x
    <3> QED BY <3>4, <3>5, RunReaches, ReachedRests
  <2>2. CASE t.hand.street # "preflop"
    <3> DEFINE x == OpenDiscard(v)
    <3>1. ReadyForStreet(v.hand, v.hand.street)
      BY <1>5, <1>7, <2>2 DEF ReadyForStreet
    <3>2. Rules(x.hand) BY <1>5, <1>6, <3>1, OpenDiscardRules DEF Standing
    <3>3. Reaches(t, x) \/ AllGiven(t, x) BY <1>5, <3>1, <3>2, OpenDiscardReaches
    <3>4. u \in RunDiscards(x) BY <1>4, <2>2
    <3> HIDE DEF x
    <3> QED BY <3>3, <3>4, RunReaches, ReachedRests
  <2> QED BY <2>1, <2>2
<1>9. ViewOf(t) = View(t, Contenders(t.hand), "pause", NoSeat, {}) BY GoingSees
<1>10. Goes(t, u)
       /\ ViewOf(u) \in HostView!OpenNext(View(t, Contenders(t.hand), "pause", NoSeat, {}))
  BY <1>1, <1>8, ReachesSees
<1> QED BY <1>9, <1>10 DEF HostView!PauseIsOver

\* The cards of some are given: the discard goes on, or all have been given.
Gave(t, v, some) ==
    /\ v \in TableType /\ Calm(t, v) /\ v.seatStack = t.seatStack
    /\ SameBets(t.hand, v.hand)
    /\ v.hand.phase = t.hand.phase /\ v.hand.street = t.hand.street
    /\ v.hand.board = t.hand.board
    /\ v.hand.pending = t.hand.pending \ some
    /\ \A r \in Seats :
          v.hand.cards[r] = IF r \in some THEN t.hand.cards[r] - 1 ELSE t.hand.cards[r]

\* What follows when some of the players who owe a card have given theirs.
LEMMA GaveGoes ==
    ASSUME NEW t, Going(t), HandsSeated(t), Rules(t.hand), t.hand.phase = "discard",
           NEW v, NEW some \in SUBSET Seats, some \subseteq t.hand.pending, Gave(t, v, some),
           NEW u \in RunDiscards(v)
    PROVE  IF t.hand.pending \ some = {} THEN Reaches(t, u)
           ELSE /\ Going(u) /\ Calm(t, u)
                /\ ViewOf(u) = View(t, Contenders(t.hand), "discard", NoSeat,
                                    t.hand.pending \ some)
<1>1. /\ t \in TableType /\ t.hand \in HandType /\ Playing(t.hand) BY HandIsTyped DEF Going
<1>2. Playing(v.hand) /\ v.hand.phase = "discard" BY <1>1 DEF Gave, Playing
<1>3. Still(t, v) BY <1>1 DEF Still, Gave, SameBets, Calm, Quiet, SameSeat, TableType
<1>4. Heard(v.hand) BY DEF Gave, SameBets, Heard, Active, Going
<1>5. Standing(t, v)
  BY <1>2, <1>3, <1>4, GoingStands, StandingStays DEF Gave, SameBets
<1>6. Rules(v.hand)
  <2> DEFINE a == t.hand
             b == v.hand
  <2>1. /\ b.phase = a.phase /\ b.street = a.street /\ b.board = a.board
        /\ b.status = a.status /\ b.stack = a.stack /\ b.bet = a.bet
        /\ b.currentBet = a.currentBet /\ b.pending = a.pending \ some
        /\ \A r \in Seats : b.cards[r] = IF r \in some THEN a.cards[r] - 1 ELSE a.cards[r]
        /\ Rules(a) /\ a.phase = "discard" /\ some \subseteq a.pending
    BY DEF Gave, SameBets
  <2> HIDE DEF a, b
  <2>2. Rules(b) BY <2>1, GivingKeepsRules
  <2> QED BY <2>2 DEF b
<1>7. v.hand.pending = t.hand.pending \ some BY DEF Gave
<1>8. CASE t.hand.pending \ some = {}
  <2>1. AllGiven(t, v) BY <1>2, <1>5, <1>6, <1>7, <1>8 DEF AllGiven
  <2> QED BY <1>8, <2>1, RunReaches
<1>9. CASE t.hand.pending \ some # {}
  <2>1. u = v BY <1>7, <1>9, RunDiscardsStops
  <2>2. Contenders(v.hand) = Contenders(t.hand) BY <1>5 DEF Standing
  <2>3. Owing(v.hand) BY <1>2, <1>7, <1>9, <2>2 DEF Owing, Going
  <2>4. Going(v) BY <1>5, <2>3, StandingGoes
  <2>5. ViewOf(v) = View(v, Contenders(t.hand), "discard", NoSeat, t.hand.pending \ some)
    BY <1>2, <1>7, <2>2, <2>4, GoingSees
  <2>6. Calm(t, v) BY DEF Gave
  <2>7. ViewOf(v) = View(t, Contenders(t.hand), "discard", NoSeat, t.hand.pending \ some)
    BY <1>1, <1>2, <2>5, <2>6, CalmIsSame
  <2> QED BY <1>9, <2>1, <2>4, <2>6, <2>7
<1> QED BY <1>8, <1>9

\* applyDiscard
LEMMA DiscardSees ==
    ASSUME NEW t, Going(t), HandsSeated(t), Rules(t.hand), t.hand.phase = "discard",
           NEW s \in t.hand.pending, NEW u \in ApplyDiscard(t, s)
    PROVE  /\ Goes(t, u) /\ ViewOf(u) \in HostView!GiveCard(ViewOf(t), s)
           /\ ViewOf(t) = View(t, Contenders(t.hand), "discard", NoSeat, t.hand.pending)
           /\ t.sittingOut[s] /\ Playing(u.hand) => s \notin u.hand.pending
<1> DEFINE v == Discarded(t, s)
           live == Contenders(t.hand)
<1>1. /\ t \in TableType /\ t.hand \in HandType /\ s \in Seats /\ Playing(t.hand)
  BY HandIsTyped DEF Going, HandType
<1>2. Gave(t, v, {s})
  <2>1. v \in TableType BY <1>1, DiscardedKeeps DEF Keeps
  <2>2. Calm(t, v) BY <1>1, MarksAreCalm
  <2>3. SameBets(t.hand, v.hand) BY <1>1, DiscardsMark
  <2>4. /\ v.hand.phase = t.hand.phase /\ v.hand.street = t.hand.street
        /\ v.hand.board = t.hand.board /\ v.hand.pending = t.hand.pending \ {s}
        /\ \A r \in Seats :
              v.hand.cards[r] = IF r = s THEN t.hand.cards[r] - 1 ELSE t.hand.cards[r]
        /\ v.seatStack = t.seatStack
    BY <1>1, DiscardedEffect
  <2> HIDE DEF v
  <2> QED BY <2>1, <2>2, <2>3, <2>4 DEF Gave
<1>3. u \in RunDiscards(v) BY DEF ApplyDiscard
<1>4. ViewOf(t) = View(t, live, "discard", NoSeat, t.hand.pending) BY GoingSees
<1>5. HostView!GiveCard(ViewOf(t), s) =
         IF t.hand.pending \ {s} = {} THEN HostView!OpenNext(View(t, live, "discard", NoSeat, {}))
         ELSE {View(t, live, "discard", NoSeat, t.hand.pending \ {s})}
  BY <1>4, GivingSees
<1> HIDE DEF v
<1>6. IF t.hand.pending \ {s} = {} THEN Reaches(t, u)
      ELSE /\ Going(u) /\ Calm(t, u)
           /\ ViewOf(u) = View(t, live, "discard", NoSeat, t.hand.pending \ {s})
  BY <1>1, <1>2, <1>3, GaveGoes
<1>7. Reaches(t, u) =>
         Goes(t, u) /\ ViewOf(u) \in HostView!OpenNext(View(t, live, "discard", NoSeat, {}))
  BY <1>1, ReachesSees
<1>8. ASSUME t.sittingOut[s], Playing(u.hand) PROVE s \notin u.hand.pending
  <2>1. CASE Reaches(t, u)
    <3>1. /\ Going(u) /\ Calm(t, u)
          /\ u.hand.phase = "betting" \/ u.hand.pending = Contenders(u.hand) \ SeatsOut(u)
      BY <1>8, <2>1 DEF Reaches, Settles, Playing
    <3>2. u.sittingOut[s] BY <1>1, <1>8, <3>1 DEF Calm, Quiet, SameSeat
    <3> QED BY <1>1, <3>1, <3>2 DEF Going, Owing, SeatsOut
  <2>2. CASE ~Reaches(t, u)
    <3>1. /\ t.hand.pending \ {s} # {}
          /\ Going(u) /\ ViewOf(u) = View(t, live, "discard", NoSeat, t.hand.pending \ {s})
      BY <1>6, <2>2
    <3>2. ViewOf(u).pending = t.hand.pending \ {s} BY <3>1, ViewFields
    <3>3. ViewOf(u).pending = u.hand.pending BY <1>8, ViewFields DEF ViewOf
    <3> QED BY <3>2, <3>3
  <2> QED BY <2>1, <2>2
<1> QED BY <1>4, <1>5, <1>6, <1>7, <1>8 DEF Goes

\* autoDiscard
LEMMA AllDiscardsSee ==
    ASSUME NEW t, Going(t), HandsSeated(t), Rules(t.hand), t.hand.phase = "discard",
           NEW u \in AutoDiscard(t)
    PROVE  /\ Goes(t, u) /\ ViewOf(u) \in HostView!GiveAllCards(ViewOf(t))
           /\ ViewOf(t) = View(t, Contenders(t.hand), "discard", NoSeat, t.hand.pending)
<1> DEFINE owing == t.hand.pending
           live == Contenders(t.hand)
           cards == [r \in Seats |-> IF r \in owing THEN t.hand.cards[r] - 1 ELSE t.hand.cards[r]]
           given == [t.hand EXCEPT !.cards = cards, !.pending = {}]
           v == WithHand(t, given)
<1>1. /\ t \in TableType /\ t.hand \in HandType /\ Playing(t.hand) /\ owing \in SUBSET Seats
  BY HandIsTyped DEF Going, HandType
<1>2. cards \in [Seats -> Int] BY <1>1, CardsType
<1>3. AutoDiscard(t) = RunDiscards(v) BY DEF AutoDiscard
<1>4. Gave(t, v, owing)
  <2> HIDE DEF cards
  <2>1. /\ given \in HandType /\ SameBets(t.hand, given) /\ given.phase = t.hand.phase
        /\ given.street = t.hand.street /\ given.board = t.hand.board
        /\ given.cards = cards /\ given.pending = {}
    BY <1>1, <1>2 DEF HandType, SameBets
  <2> HIDE DEF given
  <2>2. v \in TableType /\ v.hand = given /\ v.seatStack = t.seatStack
    BY <1>1, <2>1, WithHandEffect
  <2>3. Calm(t, v) BY <1>1, <2>1, HandAlone, SameStatusQuiet DEF Calm, SameBets
  <2> HIDE DEF v
  <2>4. \A r \in Seats :
           v.hand.cards[r] = IF r \in owing THEN t.hand.cards[r] - 1 ELSE t.hand.cards[r]
    BY <2>1, <2>2 DEF cards
  <2> QED BY <2>1, <2>2, <2>3, <2>4 DEF Gave
<1> HIDE DEF v
<1>5. Reaches(t, u)
  <2>1. t.hand.pending \ owing = {} /\ owing \subseteq t.hand.pending OBVIOUS
  <2>2. u \in RunDiscards(v) BY <1>3
  <2> HIDE DEF owing, cards, given
  <2> QED BY <1>1, <1>4, <2>1, <2>2, GaveGoes
<1>6. ViewOf(t) = View(t, live, "discard", NoSeat, owing) BY GoingSees
<1>7. HostView!GiveAllCards(ViewOf(t)) = HostView!OpenNext(View(t, live, "discard", NoSeat, {}))
  BY <1>6, GivingSees
<1>8. Goes(t, u) /\ ViewOf(u) \in HostView!OpenNext(View(t, live, "discard", NoSeat, {}))
  BY <1>1, <1>5, ReachesSees
<1> QED BY <1>6, <1>7, <1>8

-----------------------------------------------------------------------------
(* Tables as they are found, and players who are lost.                      *)

\* Only who sits sits out, and a seat shown as sitting out or busted does.
Placed(t) ==
    \A s \in Seats :
        /\ t.sittingOut[s] => Seated(t, s)
        /\ t.seatStatus[s] \in {"sitting_out", "busted"} => t.sittingOut[s]

\* Without a hand nobody is in one; whoever lost his chips in a hand that is over sits out.
Rested(t) ==
    \A s \in Seats :
        InHand(t, s) => t.hand.phase # "none" /\ (t.seatStack[s] = 0 => t.sittingOut[s])

\* A table as it is found, with or without a hand that is played.
Fit(t) ==
    /\ t \in TableType /\ HandsSeated(t) /\ Placed(t)
    /\ IF Playing(t.hand) THEN Going(t) ELSE Rested(t)

\* A hand that goes on, or is settled, leaves such a table.
LEMMA GoesFit ==
    ASSUME NEW t, Fit(t), Playing(t.hand), NEW u \in TableType, Goes(t, u)
    PROVE  Fit(u)
<1>1. t \in TableType /\ HandsSeated(t) /\ Placed(t) BY DEF Fit
<1>2. CASE Going(u) /\ Calm(t, u)
  <2>1. HandsSeated(u) BY <1>1, <1>2 DEF HandsSeated, Calm, Quiet, SameSeat, Seated
  <2>2. Placed(u) BY <1>1, <1>2 DEF Placed, Calm, Quiet, SameSeat, Seated
  <2> QED BY <1>2, <2>1, <2>2 DEF Fit, Going
<1>3. CASE Settles(t, u)
  <2>1. HandsSeated(u) BY <1>1, <1>3 DEF HandsSeated, Settles
  <2>2. ~Playing(u.hand) /\ u.hand.phase # "none" BY <1>3 DEF Settles, Playing
  <2>3. Rested(u) BY <1>3, <2>2 DEF Rested, Settles
  <2>4. Placed(u)
    <3> SUFFICES ASSUME NEW s \in Seats
                 PROVE  /\ u.sittingOut[s] => Seated(u, s)
                        /\ u.seatStatus[s] \in {"sitting_out", "busted"} => u.sittingOut[s]
      BY DEF Placed
    <3>1. /\ InHand(u, s) <=> InHand(t, s)
          /\ Seated(u, s) <=> Seated(t, s)
          /\ ~InHand(t, s) => SameSeat(t, u, s)
          /\ InHand(t, s) =>
                /\ u.sittingOut[s] <=> t.sittingOut[s] \/ u.seatStack[s] = 0
                /\ \/ u.seatStack[s] = 0 \/ u.seatStatus[s] = "active"
                   \/ u.seatStatus[s] = t.seatStatus[s]
      BY <1>3 DEF Settles
    <3>2. /\ t.sittingOut[s] => Seated(t, s)
          /\ t.seatStatus[s] \in {"sitting_out", "busted"} => t.sittingOut[s]
          /\ InHand(t, s) => Seated(t, s)
      BY <1>1 DEF Placed, HandsSeated
    <3>3. CASE InHand(t, s) BY <3>1, <3>2, <3>3
    <3>4. CASE ~InHand(t, s) BY <3>1, <3>2, <3>4 DEF SameSeat
    <3> QED BY <3>3, <3>4
  <2> QED BY <2>1, <2>2, <2>3, <2>4 DEF Fit
<1> QED BY <1>2, <1>3 DEF Goes

\* Where no hand is played, the host sees where it ended and nothing of it.
LEMMA RestSees ==
    ASSUME NEW t \in TableType, ~Playing(t.hand)
    PROVE  /\ ViewOf(t) = View(t, {}, t.hand.phase, NoSeat, {})
           /\ t.hand.phase \in {"none", "showdown"}
<1>1. t.hand.phase \in {"none", "showdown"} BY HandIsTyped DEF HandType, Phases, Playing
<1> QED BY <1>1 DEF ViewOf, ShownPhase

\* Tables with the same seats and doors, the hands over at the same point, look the same.
LEMMA RestIsSame ==
    ASSUME NEW t \in TableType, NEW u \in TableType, ~Playing(t.hand),
           u.hand.phase = t.hand.phase, SameDoor(t, u),
           \A s \in Seats : /\ InHand(u, s) <=> InHand(t, s)
                            /\ Seated(u, s) <=> Seated(t, s)
                            /\ u.sittingOut[s] <=> t.sittingOut[s]
                            /\ u.seatStack[s] = 0 <=> t.seatStack[s] = 0
    PROVE  ViewOf(u) = ViewOf(t)
<1>1. ~Playing(u.hand) BY DEF Playing
<1>2. SeatsTaken(u) = SeatsTaken(t) /\ SeatsOut(u) = SeatsOut(t) /\ SeatsBroke(u) = SeatsBroke(t)
  BY <1>1 DEF SeatsTaken, SeatsOut, SeatsBroke
<1>3. Dealt(u.hand) = Dealt(t.hand) BY DEF Dealt, InHand
<1>4. View(u, {}, t.hand.phase, NoSeat, {}) = View(t, {}, t.hand.phase, NoSeat, {})
  BY <1>2, <1>3 DEF View, SameDoor
<1> QED BY <1>1, <1>4, RestSees

\* FoldsAway, when a hand is played
LEMMA FoldsAwayGoes ==
    ASSUME NEW t, Going(t), HandsSeated(t), NEW s \in Seats, s \notin t.hand.pending,
           NEW u, u = FoldsAway(t, s)
    PROVE  \/ u = t
           \/ /\ s \in Contenders(t.hand)
              /\ Goes(t, u) /\ ViewOf(u) \in HostView!LeaveHand(ViewOf(t), s)
<1>1. CASE t.hand.status[s] # "active" BY <1>1 DEF FoldsAway
<1>2. CASE t.hand.status[s] = "active"
  <2> DEFINE v == Fold(t, s)
  <2>1. s \in Active(t.hand) /\ s \in Contenders(t.hand) BY <1>2 DEF Active, Contenders
  <2>2. IF Alone(v.hand) THEN u = FinishHand(v, NoRank)
        ELSE IF v.hand.phase # "betting" THEN u = v
        ELSE IF RoundComplete(v.hand) THEN u = Queue(v)
        ELSE IF v.hand.turn = s THEN u = PassTurn(v) ELSE u = v
    BY <1>2 DEF FoldsAway
  <2> HIDE DEF v
  <2>3. Goes(t, u) /\ ViewOf(u) \in HostView!LeaveHand(ViewOf(t), s)
    BY <2>1, <2>2, FoldSees DEF v
  <2> QED BY <2>1, <2>3
<1> QED BY <1>1, <1>2

\* FoldsAway, when the hand is over: nobody's stack is emptied or filled by settling it again.
LEMMA FoldsAwayRests ==
    ASSUME NEW t, Fit(t), ~Playing(t.hand), Counted(t), NEW s \in Seats,
           NEW u, u = FoldsAway(t, s)
    PROVE  Fit(u) /\ ~Playing(u.hand) /\ ViewOf(u) = ViewOf(t)
<1> DEFINE v == Fold(t, s)
<1>1. CASE t.hand.status[s] # "active" BY <1>1 DEF FoldsAway
<1>2. CASE t.hand.status[s] = "active"
  <2>1. /\ t \in TableType /\ t.hand \in HandType /\ HandsSeated(t) /\ Placed(t) /\ Rested(t)
        /\ InHand(t, s)
    BY <1>2, HandIsTyped DEF Fit, InHand
  <2>2. t.hand.phase = "showdown" BY <2>1, RestSees DEF Rested
  <2>3. v \in TableType BY <1>2, <2>1, FoldKeeps DEF Keeps
  <2>4. /\ v.hand.phase = t.hand.phase /\ v.seatStack = t.seatStack
        /\ v.hand.status = Put(t.hand.status, s, "folded")
        /\ Contenders(v.hand) = Contenders(t.hand) \ {s}
    BY <2>1, FoldEffect DEF SamePoint
  <2>5. SameDoor(t, v) /\ Quiet(t, v) BY <2>1, MarksAreCalm DEF Calm
  <2>6. u = FinishHand(v, NoRank) \/ u = v
    BY <1>2, <2>2, <2>4 DEF FoldsAway
  <2>7. /\ u \in TableType /\ u.hand.phase = "showdown" /\ SameDoor(v, u)
        /\ \A r \in Seats :
              /\ InHand(u, r) <=> InHand(v, r)
              /\ ~InHand(v, r) => SameSeat(v, u, r) /\ u.seatStack[r] = v.seatStack[r]
              /\ InHand(v, r) =>
                    /\ u.seatStack[r] = 0 <=> v.seatStack[r] = 0
                    /\ u.sittingOut[r] <=> v.sittingOut[r] \/ u.seatStack[r] = 0
                    /\ u.seatStatus[r] = "empty" => v.seatStatus[r] = "empty"
                    /\ \/ u.seatStack[r] = 0 \/ u.seatStatus[r] = "active"
                       \/ u.seatStatus[r] = v.seatStatus[r]
    <3>1. CASE u = v
      <4>1. \A r \in Seats : InHand(v, r) /\ v.seatStack[r] = 0 => v.sittingOut[r]
        BY <2>1, <2>4, <2>5 DEF Rested, Quiet, SameSeat
      <4> HIDE DEF v
      <4> QED BY <2>2, <2>3, <2>4, <3>1, <4>1 DEF SameDoor, SameSeat
    <3>2. CASE u = FinishHand(v, NoRank)
      <4>1. u \in TableType /\ u.hand.phase = "showdown"
        BY <2>3, <3>2, FinishHandKeeps DEF Keeps
      <4>2. SameDoor(v, u) BY <2>3, <3>2 DEF FinishHand, SameDoor, TableType
      <4> HIDE DEF v
      <4>3. ASSUME NEW r \in Seats
            PROVE  /\ InHand(u, r) <=> InHand(v, r)
                   /\ ~InHand(v, r) => SameSeat(v, u, r) /\ u.seatStack[r] = v.seatStack[r]
                   /\ InHand(v, r) =>
                         /\ u.seatStack[r] = 0 <=> v.seatStack[r] = 0
                         /\ u.sittingOut[r] <=> v.sittingOut[r] \/ u.seatStack[r] = 0
                         /\ u.seatStatus[r] = "empty" => v.seatStatus[r] = "empty"
                         /\ \/ u.seatStack[r] = 0 \/ u.seatStatus[r] = "active"
                            \/ u.seatStatus[r] = v.seatStatus[r]
        <5>1. /\ InHand(u, r) <=> InHand(v, r)
              /\ ~InHand(v, r) => SameSeat(v, u, r)
              /\ v.seatStack[r] \in Nat /\ u.seatStack[r] \in Nat
              /\ u.seatStack[r] >= v.seatStack[r]
              /\ r \notin Contenders(v.hand) => u.seatStack[r] = v.seatStack[r]
              /\ InHand(v, r) /\ u.seatStack[r] = 0 => u.seatStatus[r] = "busted"
              /\ InHand(v, r) /\ u.seatStack[r] > 0 =>
                    /\ u.sittingOut[r] = v.sittingOut[r]
                    /\ u.seatStatus[r] = "active" \/ u.seatStatus[r] = v.seatStatus[r]
          BY <2>3, <3>2, FinishHandSeats
        <5>2. ~InHand(v, r) => r \notin Contenders(v.hand) BY DEF InHand, Contenders
        <5>3. r \in Contenders(v.hand) => v.seatStack[r] # 0
          <6>1. r \in Contenders(v.hand) => InHand(t, r) /\ t.hand.status[r] # "busted"
            BY <2>4 DEF Contenders, InHand
          <6> QED BY <2>4, <6>1 DEF Counted
        <5>4. u.seatStack[r] = 0 <=> v.seatStack[r] = 0 BY <5>1, <5>3
        <5>5. InHand(v, r) /\ u.seatStack[r] = 0 => u.sittingOut[r]
          <6> DEFINE stack == [q \in Seats |-> v.seatStack[q] + Award(v.hand, NoRank, q)]
                     broke == {q \in Dealt(v.hand) : stack[q] = 0}
          <6>1. u.seatStack[r] = stack[r] BY <2>3, <3>2, FinishHandPays
          <6>2. u.sittingOut = [q \in Seats |-> q \in broke \/ v.sittingOut[q]]
            BY <2>3, <3>2 DEF FinishHand, TableType
          <6>3. r \in broke <=> InHand(v, r) /\ stack[r] = 0 BY DEF Dealt, InHand
          <6> HIDE DEF broke
          <6>4. u.sittingOut[r] <=> r \in broke \/ v.sittingOut[r] BY <6>2
          <6> QED BY <6>1, <6>3, <6>4
        <5>6. InHand(v, r) /\ v.seatStack[r] = 0 => v.sittingOut[r]
          BY <2>1, <2>4, <2>5 DEF Rested, Quiet, SameSeat
        <5>7. u.seatStack[r] > 0 \/ u.seatStack[r] = 0 BY <5>1
        <5> QED BY <5>1, <5>2, <5>4, <5>5, <5>6, <5>7
      <4> QED BY <4>1, <4>2, <4>3
    <3> QED BY <2>6, <3>1, <3>2
  <2> HIDE DEF v
  <2>8. ASSUME NEW r \in Seats
        PROVE  /\ InHand(u, r) <=> InHand(t, r)
               /\ Seated(u, r) <=> Seated(t, r)
               /\ u.sittingOut[r] <=> t.sittingOut[r]
               /\ u.seatStack[r] = 0 <=> t.seatStack[r] = 0
               /\ u.seatStatus[r] \in {"sitting_out", "busted"} => u.sittingOut[r]
    <3>1. /\ InHand(v, r) <=> InHand(t, r)
          /\ v.seatStatus[r] = t.seatStatus[r] /\ v.sittingOut[r] = t.sittingOut[r]
          /\ v.seatStack[r] = t.seatStack[r]
      BY <2>4, <2>5 DEF Quiet, SameSeat
    <3>2. /\ InHand(t, r) => t.seatStatus[r] # "empty" /\ (t.seatStack[r] = 0 => t.sittingOut[r])
          /\ t.seatStatus[r] \in {"sitting_out", "busted"} => t.sittingOut[r]
      BY <2>1 DEF HandsSeated, Rested, Seated, Placed
    <3>3. CASE InHand(t, r) BY <2>7, <3>1, <3>2, <3>3 DEF Seated
    <3>4. CASE ~InHand(t, r) BY <2>7, <3>1, <3>2, <3>4 DEF Seated, SameSeat
    <3> QED BY <3>3, <3>4
  <2>9. SameDoor(t, u) BY <2>5, <2>7 DEF SameDoor
  <2>10. ViewOf(u) = ViewOf(t) BY <2>1, <2>2, <2>7, <2>8, <2>9, RestIsSame
  <2>11. ~Playing(u.hand) BY <2>7 DEF Playing
  <2>12. HandsSeated(u) /\ Placed(u) /\ Rested(u)
    BY <2>1, <2>7, <2>8 DEF HandsSeated, Placed, Rested
  <2> QED BY <2>7, <2>10, <2>11, <2>12 DEF Fit
<1> QED BY <1>1, <1>2

\* From t to u nothing but the seat of s changes, and not its chips.
SeatTold(t, u, s) ==
    /\ u \in TableType /\ u.hand = t.hand /\ u.seatStack = t.seatStack /\ SameDoor(t, u)
    /\ Seated(t, s) /\ Seated(u, s)
    /\ \A r \in Seats \ {s} : SameSeat(t, u, r)

\* The seat of s sits out.
SeatGone(t, u, s) == SeatTold(t, u, s) /\ u.sittingOut[s]

\* setSittingOut and sitOut
LEMMA SittingOutGoes ==
    ASSUME NEW t \in TableType, NEW s \in Seats, Seated(t, s)
    PROVE  SeatGone(t, SetSittingOut(t, s, TRUE), s) /\ SeatGone(t, SitOut(t, s), s)
<1>1. SeatGone(t, SitOut(t, s), s)
  BY DEF SeatGone, SeatTold, SitOut, TableType, SeatStatuses, SameDoor, Seated, SameSeat
<1>2. SeatGone(t, SetSittingOut(t, s, TRUE), s)
  <2> DEFINE status == IF t.seatStack[s] = 0 THEN "busted" ELSE "sitting_out"
             u == [t EXCEPT !.sittingOut[s] = TRUE, !.seatStatus[s] = status]
  <2>1. SetSittingOut(t, s, TRUE) = u BY DEF SetSittingOut
  <2>2. status \in {"busted", "sitting_out"} OBVIOUS
  <2> HIDE DEF status
  <2>3. SeatGone(t, u, s)
    BY <2>2 DEF SeatGone, SeatTold, TableType, SeatStatuses, SameDoor, Seated, SameSeat
  <2> QED BY <2>1, <2>3
<1> QED BY <1>1, <1>2

\* What the host sees of it: nothing of the hand.
LEMMA SeatToldSees ==
    ASSUME NEW t \in TableType, NEW u, NEW s \in Seats, SeatTold(t, u, s),
           NEW live, NEW phase, NEW turn, NEW pending
    PROVE  /\ SeatsTaken(u) = SeatsTaken(t) /\ SeatsBroke(u) = SeatsBroke(t)
           /\ SeatsOut(u) = IF u.sittingOut[s] THEN SeatsOut(t) \cup {s} ELSE SeatsOut(t) \ {s}
           /\ [View(t, live, phase, turn, pending) EXCEPT !.out = SeatsOut(u)]
                 = View(u, live, phase, turn, pending)
           /\ [ViewOf(t) EXCEPT !.out = SeatsOut(u)] = ViewOf(u)
<1>1. \A r \in Seats : /\ Seated(u, r) <=> Seated(t, r)
                       /\ r # s => (u.sittingOut[r] <=> t.sittingOut[r])
                       /\ InHand(u, r) <=> InHand(t, r)
  BY DEF SeatTold, SameSeat, Seated, InHand
<1>2. u.hand = t.hand /\ u.seatStack = t.seatStack /\ SameDoor(t, u) BY DEF SeatTold
<1>3. SeatsTaken(u) = SeatsTaken(t) /\ SeatsBroke(u) = SeatsBroke(t)
  BY <1>1, <1>2 DEF SeatsTaken, SeatsBroke
<1>4. SeatsOut(u) = IF u.sittingOut[s] THEN SeatsOut(t) \cup {s} ELSE SeatsOut(t) \ {s}
  BY <1>1 DEF SeatsOut
<1>5. ASSUME NEW l, NEW p, NEW q, NEW d
      PROVE  [View(t, l, p, q, d) EXCEPT !.out = SeatsOut(u)] = View(u, l, p, q, d)
  BY <1>2, <1>3 DEF View, SameDoor
<1>6. [ViewOf(t) EXCEPT !.out = SeatsOut(u)] = ViewOf(u) BY <1>2, <1>5 DEF ViewOf
<1> QED BY <1>3, <1>4, <1>5, <1>6

\* setSittingOut and a seat that sits out
LEMMA SeatGoneSees ==
    ASSUME NEW t \in TableType, NEW u, NEW s \in Seats, SeatGone(t, u, s)
    PROVE  ViewOf(u) = HostView!SitsOut(ViewOf(t), s)
<1>1. SeatsOut(u) = SeatsOut(t) \cup {s} /\ [ViewOf(t) EXCEPT !.out = SeatsOut(u)] = ViewOf(u)
  BY SeatToldSees DEF SeatGone
<1>2. ViewOf(t).out = SeatsOut(t) BY ViewFields DEF ViewOf
<1> HIDE DEF ViewOf
<1>3. [ViewOf(t) EXCEPT !.out = @ \cup {s}] = ViewOf(u) BY <1>1, <1>2
<1> QED BY <1>3 DEF HostView!SitsOut

\* Such a change leaves a table as it is found, if the seat is.
LEMMA SeatToldFit ==
    ASSUME NEW t, Fit(t), NEW u, NEW s \in Seats, SeatTold(t, u, s),
           u.seatStatus[s] \in {"sitting_out", "busted"} => u.sittingOut[s],
           ~Playing(t.hand) /\ InHand(t, s) /\ t.seatStack[s] = 0 => u.sittingOut[s]
    PROVE  Fit(u)
<1>1. /\ u \in TableType /\ u.hand = t.hand /\ u.seatStack = t.seatStack
      /\ \A r \in Seats \ {s} : SameSeat(t, u, r)
      /\ Seated(u, s)
  BY DEF SeatTold
<1>2. HandsSeated(u) BY <1>1 DEF Fit, HandsSeated, InHand, SameSeat, Seated
<1>3. Placed(u) BY <1>1 DEF Fit, Placed, SameSeat, Seated
<1>4. CASE Playing(t.hand)
  <2>1. Going(u) BY <1>1, <1>4 DEF Fit, Going, Funded, InHand
  <2> QED BY <1>1, <1>2, <1>3, <2>1 DEF Fit, Going
<1>5. CASE ~Playing(t.hand)
  <2>1. Rested(u) BY <1>1, <1>5 DEF Fit, Rested, InHand, SameSeat
  <2> QED BY <1>1, <1>2, <1>3, <1>5, <2>1 DEF Fit
<1> QED BY <1>4, <1>5

\* As it is when the seat sits out.
LEMMA SeatGoneFit ==
    ASSUME NEW t, Fit(t), NEW u, NEW s \in Seats, SeatGone(t, u, s)
    PROVE  Fit(u)
BY SeatToldFit DEF SeatGone

\* The fields of what the host sees
LEMMA ViewOfFields ==
    ASSUME NEW t \in TableType
    PROVE  LET v == ViewOf(t)
           IN  /\ v.phase = ShownPhase(t.hand) /\ v.seated = SeatsTaken(t)
               /\ v.out = SeatsOut(t) /\ v.broke = SeatsBroke(t) /\ v.dealt = Dealt(t.hand)
               /\ v.live = IF Playing(t.hand) THEN Contenders(t.hand) ELSE {}
               /\ v.turn = IF ShownPhase(t.hand) = "betting" THEN t.hand.turn ELSE NoSeat
               /\ v.pending = IF Playing(t.hand) THEN t.hand.pending ELSE {}
               /\ v.gate = t.gateOpen /\ v.ready = t.gateReady
               /\ v.first <=> t.button = NoSeat
               /\ HostView!Playing(v) <=> Playing(t.hand)
<1> DEFINE v == ViewOf(t)
<1>1. /\ v.phase = ShownPhase(t.hand) /\ v.seated = SeatsTaken(t)
      /\ v.out = SeatsOut(t) /\ v.broke = SeatsBroke(t) /\ v.dealt = Dealt(t.hand)
      /\ v.live = IF Playing(t.hand) THEN Contenders(t.hand) ELSE {}
      /\ v.turn = IF ShownPhase(t.hand) = "betting" THEN t.hand.turn ELSE NoSeat
      /\ v.pending = IF Playing(t.hand) THEN t.hand.pending ELSE {}
      /\ v.gate = t.gateOpen /\ v.ready = t.gateReady
      /\ v.first <=> t.button = NoSeat
  BY ViewFields DEF ViewOf
<1> HIDE DEF v
<1>2. HostView!Playing(v) <=> Playing(t.hand)
  <2>1. v.phase = ShownPhase(t.hand) BY <1>1
  <2>2. CASE t.hand.phase = "betting"
    BY <2>1, <2>2 DEF HostView!Playing, Playing, ShownPhase
  <2>3. CASE t.hand.phase # "betting"
    <3>1. v.phase = t.hand.phase BY <2>1, <2>3 DEF ShownPhase
    <3>2. t.hand.phase # "pause" BY HandIsTyped DEF HandType, Phases
    <3> QED BY <2>3, <3>1, <3>2 DEF HostView!Playing, Playing
  <2> QED BY <2>2, <2>3
<1> QED BY <1>1, <1>2 DEF v

\* A hand goes on, or ends, without anybody taking or leaving a seat.
LEMMA GoesSeating ==
    ASSUME NEW t, NEW u, Goes(t, u)
    PROVE  SameSeating(t, u)
BY DEF Goes, Calm, Quiet, SameSeat, Settles, SameSeating, Seated

\* The host sees who sits.
LEMMA ViewSeating ==
    ASSUME NEW t \in TableType, NEW u \in TableType, ViewOf(u) = ViewOf(t)
    PROVE  SameSeating(t, u)
<1>1. SeatsTaken(u) = SeatsTaken(t) BY ViewOfFields
<1> QED BY <1>1 DEF SeatsTaken, SameSeating

\* handleDisconnect, and what apps/nakama makes of a player lost outside the hand
LEMMA LosesPlayerSees ==
    ASSUME NEW t, Fit(t), Counted(t), Rules(t.hand), NEW s \in Seats, Seated(t, s),
           NEW u \in LosesPlayer(t, s)
    PROVE  Fit(u) /\ SameSeating(t, u) /\ ViewOf(u) \in HostView!Vanish(ViewOf(t), s)
<1> DEFINE out == SetSittingOut(t, s, TRUE)
           w == ViewOf(t)
           gone == [w EXCEPT !.out = @ \cup {s}]
           given == IF w.phase = "discard" /\ s \in w.pending THEN HostView!GiveCard(gone, s)
                    ELSE {gone}
           Left(x) == IF HostView!Playing(x) /\ s \in x.live THEN HostView!LeaveHand(x, s) ELSE {x}
<1>1. HostView!Vanish(w, s) = given \cup UNION {Left(x) : x \in given} BY DEF HostView!Vanish
<1>2. t \in TableType /\ SeatGone(t, out, s) BY SittingOutGoes DEF Fit
<1> HIDE DEF out
<1>3. /\ out \in TableType /\ out.hand = t.hand /\ out.seatStack = t.seatStack
      /\ out.sittingOut[s] /\ SameSeating(t, out)
  BY <1>2 DEF SeatGone, SeatTold, SameSeating, SameSeat, Seated
<1>4. Fit(out) BY <1>2, SeatGoneFit
<1>5. gone = ViewOf(out) BY <1>2, SeatGoneSees DEF HostView!SitsOut
<1>6. w.phase = ShownPhase(t.hand) /\ w.pending = IF Playing(t.hand) THEN t.hand.pending ELSE {}
  BY <1>2, ViewOfFields
<1>7. w.phase = "discard" <=> t.hand.phase = "discard" BY <1>6 DEF ShownPhase
<1> HIDE DEF w, gone, Left, given
<1>8. ASSUME NEW v, Fit(v), Counted(v), ViewOf(v) \in given, SameSeating(t, v),
             Playing(v.hand) => s \notin v.hand.pending, NEW x, x = FoldsAway(v, s)
      PROVE  Fit(x) /\ SameSeating(t, x) /\ ViewOf(x) \in HostView!Vanish(w, s)
  <2>1. CASE Playing(v.hand)
    <3>1. Going(v) /\ HandsSeated(v) BY <1>8, <2>1 DEF Fit
    <3>2. \/ x = v
          \/ /\ s \in Contenders(v.hand)
             /\ Goes(v, x) /\ ViewOf(x) \in HostView!LeaveHand(ViewOf(v), s)
      BY <1>8, <2>1, <3>1, FoldsAwayGoes
    <3>3. CASE x = v BY <1>1, <1>8, <3>3
    <3>4. CASE x # v
      <4>3. v \in TableType BY <1>8 DEF Fit
      <4>1. HostView!Playing(ViewOf(v)) /\ s \in ViewOf(v).live
        BY <2>1, <3>2, <3>4, <4>3, ViewOfFields
      <4>2. ViewOf(x) \in Left(ViewOf(v)) BY <3>2, <3>4, <4>1 DEF Left
      <4>4. x \in TableType BY <1>8, <4>3, FoldsAwayKeeps DEF Keeps
      <4>5. Fit(x) BY <1>8, <2>1, <3>2, <3>4, <4>4, GoesFit
      <4>6. SameSeating(v, x) BY <3>2, <3>4, GoesSeating
      <4> QED BY <1>1, <1>8, <4>2, <4>5, <4>6 DEF SameSeating
    <3> QED BY <3>3, <3>4
  <2>2. CASE ~Playing(v.hand)
    <3>1. Fit(x) /\ ViewOf(x) = ViewOf(v) BY <1>8, <2>2, FoldsAwayRests
    <3>2. SameSeating(v, x) BY <1>8, <3>1, ViewSeating DEF Fit
    <3> QED BY <1>1, <1>8, <3>1, <3>2 DEF SameSeating
  <2> QED BY <2>1, <2>2
<1>9. Counted(out) BY <1>3 DEF Counted, InHand
<1>10. ~(w.phase = "discard" /\ s \in w.pending) => ViewOf(out) \in given
  BY <1>5 DEF given
<1>11. CASE u \in HandleDisconnect(t, s)
  <2> DEFINE owes == t.hand.phase = "discard" /\ s \in t.hand.pending
  <2>1. PICK v : /\ u = FoldsAway(v, s)
                 /\ IF owes THEN v \in ApplyDiscard(out, s) ELSE v = out
    BY <1>11 DEF HandleDisconnect, ApplyDiscard, out
  <2>2. CASE owes
    <3>1. Playing(t.hand) BY <2>2 DEF Playing
    <3>2. Going(out) /\ HandsSeated(out) BY <1>3, <1>4, <3>1 DEF Fit
    <3>3. Goes(out, v) /\ ViewOf(v) \in HostView!GiveCard(ViewOf(out), s)
      BY <1>3, <2>1, <2>2, <3>2, DiscardSees
    <3>4. ViewOf(v) \in given BY <1>5, <1>6, <1>7, <2>2, <3>1, <3>3 DEF given
    <3>5. v \in TableType BY <1>3, <2>1, <2>2, ApplyDiscardKeeps DEF Keeps
    <3>6. Fit(v) BY <1>3, <1>4, <3>1, <3>3, <3>5, GoesFit
    <3>7. Counted(v) BY <1>3, <2>1, <2>2, <3>1, ApplyDiscardTold DEF Told
    <3>8. Playing(v.hand) => s \notin v.hand.pending
      BY <1>3, <2>1, <2>2, <3>2, DiscardSees
    <3>9. SameSeating(t, v) BY <1>3, <3>3, GoesSeating DEF SameSeating
    <3> QED BY <1>8, <2>1, <3>4, <3>6, <3>7, <3>8, <3>9 DEF w
  <2>3. CASE ~owes
    <3>1. v = out /\ ViewOf(v) \in given BY <1>6, <1>7, <1>10, <2>1, <2>3
    <3>2. Playing(v.hand) => s \notin v.hand.pending
      BY <1>3, <1>4, <2>3, <3>1 DEF Fit, Going, Owing, Playing
    <3> QED BY <1>3, <1>4, <1>8, <1>9, <2>1, <3>1, <3>2 DEF w
  <2> QED BY <2>2, <2>3
<1>12. CASE u = out /\ (~InPlay(t) \/ s \notin Dealt(t.hand))
  <2>1. ~(t.hand.phase = "discard" /\ s \in t.hand.pending)
    BY <1>12 DEF InPlay, Fit, Going, Owing, Playing, Dealt, Contenders
  <2>2. ViewOf(out) \in given BY <1>6, <1>7, <1>10, <2>1
  <2> QED BY <1>1, <1>3, <1>4, <1>12, <2>2 DEF w
<1> QED BY <1>11, <1>12 DEF LosesPlayer, out

-----------------------------------------------------------------------------
(* Hands that are dealt, and the gate before the first of them.             *)

\* In x a hand is being dealt to the seats of in at the table t: nothing else of the table
\* changes, and whoever can act has not.
Dealing(t, x, in, button) ==
    /\ x \in TableType
    /\ x.sittingOut = t.sittingOut /\ x.button = button /\ ~x.gateOpen /\ x.gateReady = {}
    /\ \A s \in Active(x.hand) : s \in in /\ ~x.hand.acted[s]

\* Posting a blind
LEMMA CommitBetDeals ==
    ASSUME NEW t, NEW in, NEW button, NEW x, Dealing(t, x, in, button), NEW s \in Seats,
           NEW amount, CommitBet(x, s, amount) \in TableType
    PROVE  Dealing(t, CommitBet(x, s, amount), in, button)
<1> DEFINE h == x.hand
           pay == AtMost(amount, h.stack[s])
           allIn == h.stack[s] = pay /\ h.status[s] = "active"
           stack == Put(h.stack, s, h.stack[s] - pay)
           bet == Put(h.bet, s, h.bet[s] + pay)
           committed == Put(h.committed, s, h.committed[s] + pay)
           status == Put(h.status, s, IF allIn THEN "allIn" ELSE h.status[s])
           acted == Put(h.acted, s, h.acted[s] \/ allIn)
           g == [h EXCEPT !.stack = stack, !.bet = bet, !.committed = committed,
                          !.status = status, !.acted = acted]
           seat == IF x.seatStack[s] >= pay THEN x.seatStack[s] - pay ELSE 0
           seats == Put(x.seatStack, s, seat)
           u == [x EXCEPT !.seatStack = seats, !.hand = g]
<1>1. CommitBet(x, s, amount) = u BY DEF CommitBet
<1>2. x \in TableType /\ h \in HandType BY HandIsTyped DEF Dealing
<1>3. \A r \in Seats : status[r] = "active" => h.status[r] = "active" /\ acted[r] = h.acted[r]
  BY <1>2 DEF HandType, Put
<1> HIDE DEF stack, bet, committed, status, acted
<1>4. g.status = status /\ g.acted = acted BY <1>2 DEF HandType
<1> HIDE DEF g, seats
<1>5. /\ u.hand = g /\ u.sittingOut = x.sittingOut /\ u.button = x.button
      /\ u.gateOpen = x.gateOpen /\ u.gateReady = x.gateReady
  BY <1>2 DEF TableType
<1> HIDE DEF u
<1> QED BY <1>1, <1>3, <1>4, <1>5 DEF Dealing, Active

\* startHand, besides the chips and the cards: the gate is closed, the button somewhere,
\* and a player of the hand on turn who, like all who can act, has not done so.
LEMMA StartHandOpens ==
    ASSUME NEW t \in TableType, ~(Cardinality(Ready(t)) < MinPlayers)
    PROVE  \E button \in Seats : /\ Dealing(t, StartHand(t), Ready(t), button)
                                 /\ StartHand(t).hand.turn \in Ready(t)
<1> DEFINE in == Ready(t)
           headsUp == Cardinality(in) = 2
           button == FirstAfter(t.button, in)
           sb == IF headsUp THEN button ELSE FirstAfter(button, in)
           bb == FirstAfter(sb, in)
           d == Deal(t, in, button)
           v == CommitBet(d, sb, SmallBlind)
           w == CommitBet(v, bb, BigBlind)
           k == [w.hand EXCEPT !.currentBet = AtMost(BigBlind, w.hand.bet[bb])]
           p == WithHand(w, k)
           first == IF headsUp \/ Active(p.hand) = {} THEN button
                    ELSE FirstAfter(bb, Active(p.hand))
           g == [p.hand EXCEPT !.turn = first]
           u == WithHand(p, g)
<1>1. StartHand(t) = u BY DEF StartHand, PostBlinds
<1>2. in \in SUBSET Seats /\ \A s \in in : t.seatStatus[s] # "empty" BY DEF Ready
<1>3. in # {} BY FS_EmptySet DEF MinPlayers
<1>4. t.button \in Seats \cup {NoSeat} BY DEF TableType
<1> HIDE DEF in, headsUp
<1>5. button \in in /\ button \in Seats BY <1>2, <1>3, <1>4, FirstAfterIsOne
<1> HIDE DEF button
<1>6. sb \in Seats BY <1>2, <1>3, <1>5, FirstAfterIsOne
<1> HIDE DEF sb
<1>7. bb \in Seats BY <1>2, <1>3, <1>6, FirstAfterIsOne
<1> HIDE DEF bb
<1>8. d \in TableType /\ Playing(d.hand) /\ Fresh(d) /\ BetsAreCommitted(d.hand)
  BY <1>2, <1>5, DealFollows
<1>9. Dealing(t, d, in, button)
  <2> DEFINE status == [s \in Seats |-> IF s \in in THEN "active" ELSE "none"]
             stack == [s \in Seats |-> IF s \in in THEN t.seatStack[s] ELSE 0]
             cards == [s \in Seats |-> IF s \in in THEN HoleCards ELSE 0]
             none == [s \in Seats |-> FALSE]
             h == [NullHand EXCEPT !.phase = "betting", !.button = button, !.status = status,
                                   !.stack = stack, !.cards = cards, !.clock = TRUE]
             dealt == [t EXCEPT !.gateOpen = FALSE, !.gateReady = {}, !.button = button, !.hand = h]
  <2>1. d = dealt BY DEF Deal, NewHand
  <2>2. \A r \in Seats : (status[r] = "active" => r \in in) /\ ~none[r] OBVIOUS
  <2>3. NullHand.acted = none BY DEF NullHand
  <2> HIDE DEF status, stack, cards, none
  <2>4. h.status = status /\ h.acted = none BY <2>3 DEF NullHand
  <2> HIDE DEF h
  <2>5. /\ dealt.hand = h /\ dealt.sittingOut = t.sittingOut /\ dealt.button = button
        /\ ~dealt.gateOpen /\ dealt.gateReady = {}
    BY DEF TableType
  <2> QED BY <1>8, <2>1, <2>2, <2>4, <2>5 DEF Dealing, Active
<1> HIDE DEF d
<1>10. v \in TableType /\ Playing(v.hand) /\ Fresh(v) /\ BetsAreCommitted(v.hand)
  BY <1>6, <1>8, BlindsAssumption, CommitBetFresh
<1>11. Dealing(t, v, in, button) BY <1>6, <1>9, <1>10, CommitBetDeals
<1> HIDE DEF v
<1>12. w \in TableType BY <1>7, <1>10, BlindsAssumption, CommitBetFresh
<1>13. Dealing(t, w, in, button) BY <1>7, <1>11, <1>12, CommitBetDeals
<1> HIDE DEF w
<1>14. w.hand \in HandType BY <1>12, HandIsTyped
<1>15. k \in HandType /\ k.status = w.hand.status /\ k.acted = w.hand.acted
  <2>1. AtMost(BigBlind, w.hand.bet[bb]) \in Nat
    BY <1>7, <1>14, BlindsAssumption DEF HandType, AtMost
  <2> QED BY <1>14, <2>1 DEF HandType
<1> HIDE DEF k
<1>16. /\ p \in TableType /\ p.hand = k /\ p.sittingOut = w.sittingOut /\ p.button = w.button
       /\ p.gateOpen = w.gateOpen /\ p.gateReady = w.gateReady
  BY <1>12, <1>15 DEF WithHand, TableType
<1> HIDE DEF p
<1>17. Active(p.hand) \subseteq in /\ Active(p.hand) \in SUBSET Seats
  BY <1>2, <1>13, <1>15, <1>16 DEF Active, Dealing
<1>18. first \in in /\ first \in Seats BY <1>2, <1>5, <1>7, <1>17, FirstAfterIsOne
<1> HIDE DEF first
<1>19. g \in HandType /\ g.status = k.status /\ g.acted = k.acted /\ g.turn = first
  BY <1>15, <1>16, <1>18 DEF HandType
<1> HIDE DEF g
<1>20. /\ u \in TableType /\ u.hand = g /\ u.sittingOut = p.sittingOut /\ u.button = p.button
       /\ u.gateOpen = p.gateOpen /\ u.gateReady = p.gateReady
  BY <1>16, <1>19 DEF WithHand, TableType
<1> HIDE DEF u
<1>21. Dealing(t, u, in, button)
  BY <1>13, <1>15, <1>16, <1>19, <1>20 DEF Dealing, Active
<1> QED BY <1>1, <1>5, <1>18, <1>19, <1>20, <1>21 DEF in

\* Where no hand is played, who can be dealt in is who is ready.
LEMMA ReadySees ==
    ASSUME NEW t, Fit(t), ~Playing(t.hand)
    PROVE  HostView!Playable(ViewOf(t)) = Ready(t)
<1>1. t \in TableType /\ Placed(t) BY DEF Fit
<1>2. /\ ViewOf(t).seated = SeatsTaken(t) /\ ViewOf(t).out = SeatsOut(t)
      /\ ViewOf(t).broke = SeatsBroke(t)
  BY <1>1, ViewOfFields
<1>3. HostView!Playable(ViewOf(t)) = SeatsTaken(t) \ (SeatsOut(t) \cup SeatsBroke(t))
  BY <1>2 DEF HostView!Playable
<1>4. ASSUME NEW s \in Seats
      PROVE  s \in Ready(t) <=> s \in SeatsTaken(t) \ (SeatsOut(t) \cup SeatsBroke(t))
  <2>1. t.seatStack[s] \in Nat /\ t.seatStatus[s] \in SeatStatuses BY <1>1 DEF TableType
  <2>2. t.seatStatus[s] \in {"sitting_out", "busted"} => t.sittingOut[s] BY <1>1 DEF Placed
  <2> QED BY <2>1, <2>2 DEF Ready, SeatsTaken, SeatsOut, SeatsBroke, Seated, SeatStatuses
<1>5. Ready(t) \subseteq Seats /\ SeatsTaken(t) \subseteq Seats BY DEF Ready, SeatsTaken
<1> QED BY <1>3, <1>4, <1>5

\* startHand
LEMMA StartHandSees ==
    ASSUME NEW t, Fit(t), ~Playing(t.hand), ~(Cardinality(Ready(t)) < MinPlayers),
           NEW u, u = StartHand(t)
    PROVE  Fit(u) /\ ViewOf(u) \in HostView!DealHand(ViewOf(t))
<1> DEFINE in == Ready(t)
<1>1. t \in TableType /\ Placed(t) BY DEF Fit
<1>2. PICK button \in Seats : Dealing(t, u, in, button) /\ u.hand.turn \in in
  BY <1>1, StartHandOpens
<1>3. PICK sb, bb \in Seats : DealtOut(t, u, sb, bb) BY <1>1, StartHandDeals
<1>4. Opening(u) BY <1>1, StartHandEffect
<1>5. /\ u \in TableType /\ u.sittingOut = t.sittingOut /\ u.button = button
      /\ ~u.gateOpen /\ u.gateReady = {}
      /\ \A s \in Active(u.hand) : ~u.hand.acted[s]
  BY <1>2 DEF Dealing
<1>6. /\ u.seatStatus = t.seatStatus
      /\ u.hand.phase = "betting" /\ ~u.hand.waiting
      /\ \A r \in Seats :
            /\ u.hand.committed[r] = u.hand.bet[r]
            /\ u.seatStack[r] = t.seatStack[r] - u.hand.bet[r]
            /\ u.hand.status[r] = IF r \notin in THEN "none"
                                  ELSE IF u.hand.bet[r] = t.seatStack[r] THEN "allIn" ELSE "active"
            /\ r \notin in => u.hand.bet[r] = 0
  BY <1>3 DEF DealtOut
<1>7. /\ in \in SUBSET Seats
      /\ \A r \in Seats : /\ r \in in => Seated(t, r) /\ t.seatStack[r] > 0 /\ ~t.sittingOut[r]
                          /\ t.seatStack[r] \in Nat
  BY <1>1 DEF Ready, Seated, TableType
<1>8. u.hand.pending = {} /\ ~(Cardinality(Contenders(u.hand)) < 2)
  BY <1>4 DEF Opening, MinPlayers
<1> HIDE DEF in
<1>9. Contenders(u.hand) = in /\ Dealt(u.hand) = in
  BY <1>6, <1>7 DEF Contenders, Dealt
<1>10. Going(u)
  <2>1. Heard(u.hand) BY <1>5 DEF Heard
  <2>2. Owing(u.hand) BY <1>6, <1>8 DEF Owing
  <2>3. Funded(u)
    <3> SUFFICES ASSUME NEW r \in Seats, InHand(u, r)
                 PROVE  u.seatStack[r] + u.hand.committed[r] > 0
      BY DEF Funded
    <3>1. r \in in BY <1>6 DEF InHand
    <3>2. u.hand.bet[r] \in Nat BY <1>5, HandIsTyped DEF HandType
    <3> QED BY <1>6, <1>7, <3>1, <3>2
  <2> QED BY <1>5, <1>6, <1>8, <2>1, <2>2, <2>3 DEF Going, Playing
<1>11. Fit(u)
  <2>1. HandsSeated(u) BY <1>6, <1>7 DEF HandsSeated, InHand, Seated
  <2>2. Placed(u) BY <1>1, <1>5, <1>6 DEF Placed, Seated
  <2> QED BY <1>5, <1>10, <2>1, <2>2 DEF Fit, Going
<1>12. ViewOf(u) = View(u, in, "betting", u.hand.turn, {})
  BY <1>6, <1>8, <1>9 DEF ViewOf, Playing, ShownPhase
<1>13. SeatsTaken(u) = SeatsTaken(t) /\ SeatsOut(u) = SeatsOut(t)
  BY <1>5, <1>6 DEF SeatsTaken, SeatsOut, Seated
<1>14. SeatsBroke(u) = SeatsBroke(t)
  <2>1. Playing(u.hand) BY <1>6 DEF Playing
  <2>2. ASSUME NEW r \in Seats
        PROVE  (Seated(u, r) /\ u.seatStack[r] = 0 /\ ~InHand(u, r))
                   <=> (Seated(t, r) /\ t.seatStack[r] = 0)
    <3>1. InHand(u, r) <=> r \in in BY <1>6 DEF InHand
    <3>2. Seated(u, r) <=> Seated(t, r) BY <1>6 DEF Seated
    <3>3. r \notin in => u.seatStack[r] = t.seatStack[r] BY <1>6, <1>7
    <3> QED BY <1>7, <3>1, <3>2, <3>3
  <2> QED BY <2>1, <2>2 DEF SeatsBroke
<1>15. View(u, in, "betting", u.hand.turn, {})
         = [seated |-> SeatsTaken(t), out |-> SeatsOut(t), broke |-> SeatsBroke(t),
            dealt |-> in, live |-> in, phase |-> "betting", turn |-> u.hand.turn,
            pending |-> {}, first |-> FALSE, gate |-> FALSE, ready |-> {}]
  <2>1. (u.button = NoSeat) = FALSE BY <1>5 DEF Seats, NoSeat
  <2>2. u.gateOpen = FALSE BY <1>5 DEF TableType
  <2> QED BY <1>5, <1>9, <1>13, <1>14, <2>1, <2>2 DEF View
<1>16. HostView!Playable(ViewOf(t)) = in BY ReadySees DEF in
<1>17. ViewOf(t) = View(t, {}, t.hand.phase, NoSeat, {}) BY <1>1, RestSees
<1> DEFINE v == ViewOf(t)
           q == u.hand.turn
           no == FALSE
           a1 == [v EXCEPT !.phase = "betting"]
           a2 == [a1 EXCEPT !.dealt = in]
           a3 == [a2 EXCEPT !.live = in]
           a4 == [a3 EXCEPT !.turn = q]
           a5 == [a4 EXCEPT !.first = no]
           a6 == [a5 EXCEPT !.gate = no]
           a7 == [a6 EXCEPT !.ready = {}]
<1>18. a7 = [seated |-> SeatsTaken(t), out |-> SeatsOut(t), broke |-> SeatsBroke(t),
             dealt |-> in, live |-> in, phase |-> "betting", turn |-> q,
             pending |-> {}, first |-> no, gate |-> no, ready |-> {}]
  <2> DEFINE R(dealt, live, phase, turn, first, gate, ready) ==
                [seated |-> SeatsTaken(t), out |-> SeatsOut(t), broke |-> SeatsBroke(t),
                 dealt |-> dealt, live |-> live, phase |-> phase, turn |-> turn,
                 pending |-> {}, first |-> first, gate |-> gate, ready |-> ready]
             D == Dealt(t.hand)
             F == (t.button = NoSeat)
             G == t.gateOpen
             Y == t.gateReady
             P == t.hand.phase
  <2>0. v = R(D, {}, P, NoSeat, F, G, Y) BY <1>17 DEF View
  <2> HIDE DEF v, D, F, G, Y, P, no
  <2>1. a1 = R(D, {}, "betting", NoSeat, F, G, Y) BY <2>0
  <2> HIDE DEF a1
  <2>2. a2 = R(in, {}, "betting", NoSeat, F, G, Y) BY <2>1
  <2> HIDE DEF a2
  <2>3. a3 = R(in, in, "betting", NoSeat, F, G, Y) BY <2>2
  <2> HIDE DEF a3
  <2>4. a4 = R(in, in, "betting", q, F, G, Y) BY <2>3
  <2> HIDE DEF a4
  <2>5. a5 = R(in, in, "betting", q, no, G, Y) BY <2>4
  <2> HIDE DEF a5
  <2>6. a6 = R(in, in, "betting", q, no, no, Y) BY <2>5
  <2> HIDE DEF a6
  <2> QED BY <2>6
<1>19. a7 = [v EXCEPT !.phase = "betting", !.dealt = in, !.live = in, !.turn = q,
                      !.first = FALSE, !.gate = FALSE, !.ready = {}]
  <2> HIDE DEF v
  <2> QED OBVIOUS
<1>20. ViewOf(u) = a7
  <2> HIDE DEF a7
  <2> QED BY <1>12, <1>15, <1>18
<1> HIDE DEF v, a7
<1>21. a7 \in HostView!DealHand(v)
  <2>1. q \in HostView!Playable(v) /\ HostView!Playable(v) = in BY <1>2, <1>16 DEF v, in
  <2> HIDE DEF q
  <2> QED BY <1>19, <2>1 DEF HostView!DealHand
<1> QED BY <1>11, <1>20, <1>21 DEF v

\* From t to u nothing changes but the gate.
OnlyGate(t, u) ==
    /\ u \in TableType /\ u.hand = t.hand /\ u.button = t.button
    /\ u.seatStatus = t.seatStatus /\ u.seatStack = t.seatStack /\ u.sittingOut = t.sittingOut

\* The host sees that.
LEMMA OnlyGateSees ==
    ASSUME NEW t, Fit(t), NEW u, OnlyGate(t, u)
    PROVE  /\ Fit(u) /\ Ready(u) = Ready(t)
           /\ [ViewOf(t) EXCEPT !.gate = u.gateOpen, !.ready = u.gateReady] = ViewOf(u)
<1>1. Fit(u)
  <2>1. HandsSeated(u) /\ Placed(u)
    BY DEF OnlyGate, Fit, HandsSeated, Placed, InHand, Seated
  <2>2. Playing(t.hand) => Going(u) BY DEF OnlyGate, Fit, Going, Funded, InHand
  <2>3. ~Playing(t.hand) => Rested(u) BY DEF OnlyGate, Fit, Rested, InHand
  <2> QED BY <2>1, <2>2, <2>3 DEF Fit, OnlyGate
<1>2. Ready(u) = Ready(t) BY DEF OnlyGate, Ready
<1>3. /\ SeatsTaken(u) = SeatsTaken(t) /\ SeatsOut(u) = SeatsOut(t) /\ SeatsBroke(u) = SeatsBroke(t)
      /\ u.hand = t.hand /\ u.button = t.button
  BY DEF OnlyGate, SeatsTaken, SeatsOut, SeatsBroke, Seated, InHand
<1> DEFINE l == IF Playing(t.hand) THEN Contenders(t.hand) ELSE {}
           p == ShownPhase(t.hand)
           q == IF ShownPhase(t.hand) = "betting" THEN t.hand.turn ELSE NoSeat
           d == IF Playing(t.hand) THEN t.hand.pending ELSE {}
           R(gate, ready) ==
             [seated |-> SeatsTaken(t), out |-> SeatsOut(t), broke |-> SeatsBroke(t),
              dealt |-> Dealt(t.hand), live |-> l, phase |-> p, turn |-> q,
              pending |-> d, first |-> (t.button = NoSeat), gate |-> gate, ready |-> ready]
           v == ViewOf(t)
           w == [v EXCEPT !.gate = u.gateOpen]
           x == [w EXCEPT !.ready = u.gateReady]
<1>4. v = R(t.gateOpen, t.gateReady) /\ ViewOf(u) = R(u.gateOpen, u.gateReady)
  BY <1>3 DEF ViewOf, View
<1> HIDE DEF l, p, q, d, v
<1>5. w = R(u.gateOpen, t.gateReady) BY <1>4
<1> HIDE DEF w
<1>6. x = R(u.gateOpen, u.gateReady) BY <1>5
<1> HIDE DEF x, R
<1>7. x = [v EXCEPT !.gate = u.gateOpen, !.ready = u.gateReady] BY DEF x, w
<1> QED BY <1>1, <1>2, <1>4, <1>6, <1>7 DEF v

\* The first hand is waited for, as the host sees it.
LEMMA WaitingSees ==
    ASSUME NEW t, Fit(t)
    PROVE  /\ HostView!FirstHandWaiting(ViewOf(t)) <=> FirstHandPending(t)
           /\ ViewOf(t).phase = "none" <=> NoHand(t)
           /\ NoHand(t) => ~Playing(t.hand)
           /\ ~Playing(t.hand) => (HostView!Cardinality(HostView!Playable(ViewOf(t)))
                                       < HostView!MinimumToPlay
                                   <=> Cardinality(Ready(t)) < MinPlayers)
           /\ ~Playing(t.hand) => (HostView!Cardinality(HostView!Playable(ViewOf(t)))
                                       >= HostView!MinimumToPlay
                                   <=> Cardinality(Ready(t)) >= MinPlayers)
<1>1. t \in TableType BY DEF Fit
<1>2. ViewOf(t).phase = ShownPhase(t.hand) /\ (ViewOf(t).first <=> t.button = NoSeat)
  BY <1>1, ViewOfFields
<1>3. ViewOf(t).phase = "none" <=> NoHand(t) BY <1>2 DEF ShownPhase, NoHand
<1>4. HostView!FirstHandWaiting(ViewOf(t)) <=> FirstHandPending(t)
  BY <1>2, <1>3 DEF HostView!FirstHandWaiting, FirstHandPending
<1>5. NoHand(t) => ~Playing(t.hand) BY DEF NoHand, Playing
<1>6. ~Playing(t.hand) =>
         HostView!Cardinality(HostView!Playable(ViewOf(t))) = Cardinality(Ready(t))
  BY ReadySees, SameCount
<1>7. HostView!MinimumToPlay = MinPlayers BY DEF HostView!MinimumToPlay, MinPlayers
<1> QED BY <1>3, <1>4, <1>5, <1>6, <1>7

\* ensureStartGate
LEMMA GateSees ==
    ASSUME NEW t, Fit(t), NEW g, g = EnsureStartGate(t)
    PROVE  /\ Fit(g) /\ OnlyGate(t, g) /\ Ready(g) = Ready(t)
           /\ ViewOf(g) = HostView!OpenGate(ViewOf(t))
           /\ g.gateOpen => ~Playing(t.hand) /\ ~(Cardinality(Ready(t)) < MinPlayers)
           /\ ViewOf(g).gate = g.gateOpen
<1> DEFINE v == ViewOf(t)
           shut == ~FirstHandPending(t) \/ Cardinality(Ready(t)) < MinPlayers
           kept == t.gateReady \cap Ready(t)
<1>1. t \in TableType BY DEF Fit
<1>2. FirstHandPending(t) => ~Playing(t.hand) BY WaitingSees DEF FirstHandPending
<1>3. shut <=> ~HostView!FirstHandWaiting(v)
               \/ HostView!Cardinality(HostView!Playable(v)) < HostView!MinimumToPlay
  BY <1>2, WaitingSees
<1>4. v.ready = t.gateReady BY <1>1, ViewOfFields
<1> HIDE DEF v
<1>5. CASE shut
  <2>1. g = [t EXCEPT !.gateOpen = FALSE, !.gateReady = {}]
    BY <1>5 DEF EnsureStartGate, CloseGate
  <2>2. OnlyGate(t, g) /\ g.gateOpen = FALSE /\ g.gateReady = {}
    BY <1>1, <2>1 DEF OnlyGate, TableType
  <2>3. Fit(g) /\ Ready(g) = Ready(t) /\ [v EXCEPT !.gate = FALSE, !.ready = {}] = ViewOf(g)
    BY <2>2, OnlyGateSees DEF v
  <2>4. HostView!OpenGate(v) = [v EXCEPT !.gate = FALSE, !.ready = {}]
    BY <1>3, <1>5 DEF HostView!OpenGate
  <2>5. ViewOf(g).gate = g.gateOpen BY <2>3, ViewOfFields DEF Fit
  <2> QED BY <2>2, <2>3, <2>4, <2>5 DEF v
<1>6. CASE ~shut
  <2>1. g = [t EXCEPT !.gateOpen = TRUE, !.gateReady = kept]
    BY <1>6 DEF EnsureStartGate
  <2>2. kept \in SUBSET Seats BY <1>1 DEF TableType
  <2>3. OnlyGate(t, g) /\ g.gateOpen = TRUE /\ g.gateReady = kept
    <3> HIDE DEF kept
    <3> QED BY <1>1, <2>1, <2>2 DEF OnlyGate, TableType
  <2>4. /\ Fit(g) /\ Ready(g) = Ready(t)
        /\ [v EXCEPT !.gate = g.gateOpen, !.ready = g.gateReady] = ViewOf(g)
    BY <2>3, OnlyGateSees DEF v
  <2>5. kept = v.ready \cap HostView!Playable(v) BY <1>2, <1>4, <1>6, ReadySees DEF v
  <2> HIDE DEF kept
  <2>6. HostView!OpenGate(v) = [v EXCEPT !.gate = TRUE, !.ready = kept]
    BY <1>3, <1>6, <2>5 DEF HostView!OpenGate
  <2>8. HostView!OpenGate(v) = ViewOf(g) BY <2>3, <2>4, <2>6
  <2>7. ViewOf(g).gate = g.gateOpen BY <2>4, ViewOfFields DEF Fit
  <2> QED BY <1>2, <1>6, <2>3, <2>4, <2>7, <2>8 DEF v
<1> QED BY <1>5, <1>6

\* setReadyForHand
LEMMA ReadyForHandSees ==
    ASSUME NEW t, Fit(t), NEW s \in Seats, NEW ready \in BOOLEAN,
           NEW u, u = SetReadyForHand(t, s, ready)
    PROVE  Fit(u) /\ ViewOf(u) = HostView!SaysReady(ViewOf(t), s, ready)
<1> DEFINE g == EnsureStartGate(t)
           w == ViewOf(g)
           said == IF ready THEN g.gateReady \cup {s} ELSE g.gateReady \ {s}
<1>1. /\ Fit(g) /\ OnlyGate(t, g) /\ w = HostView!OpenGate(ViewOf(t))
      /\ g.gateOpen => ~Playing(t.hand)
      /\ w.gate = g.gateOpen
  BY GateSees
<1>2. u = IF ~g.gateOpen \/ s \notin Ready(t) THEN g ELSE [g EXCEPT !.gateReady = said]
  BY DEF SetReadyForHand
<1>3. HostView!SaysReady(ViewOf(t), s, ready) =
         IF ~w.gate \/ s \notin HostView!Playable(ViewOf(t)) THEN w
         ELSE [w EXCEPT !.ready = IF ready THEN w.ready \cup {s} ELSE w.ready \ {s}]
  BY <1>1 DEF HostView!SaysReady
<1>4. g.gateOpen => HostView!Playable(ViewOf(t)) = Ready(t) BY <1>1, ReadySees
<1>5. w.ready = g.gateReady BY <1>1, ViewOfFields DEF Fit
<1> HIDE DEF g
<1>6. CASE ~g.gateOpen \/ s \notin Ready(t)
  BY <1>1, <1>2, <1>3, <1>4, <1>6
<1>7. CASE ~(~g.gateOpen \/ s \notin Ready(t))
  <2>1. g \in TableType /\ said \in SUBSET Seats BY <1>1 DEF Fit, TableType
  <2> HIDE DEF w, said
  <2>2. u = [g EXCEPT !.gateReady = said] BY <1>2, <1>7
  <2>3. OnlyGate(g, u) /\ u.gateOpen = g.gateOpen /\ u.gateReady = said
    BY <2>1, <2>2 DEF OnlyGate, TableType
  <2>4. Fit(u) /\ [w EXCEPT !.gate = u.gateOpen, !.ready = u.gateReady] = ViewOf(u)
    BY <1>1, <2>3, OnlyGateSees DEF w
  <2>5. [w EXCEPT !.gate = g.gateOpen] = w BY <1>1 DEF w, ViewOf, View
  <2>6. [w EXCEPT !.ready = said] = ViewOf(u)
    <3>1. [w EXCEPT !.gate = g.gateOpen, !.ready = said] = ViewOf(u) BY <2>3, <2>4
    <3> QED BY <2>5, <3>1
  <2>7. HostView!SaysReady(ViewOf(t), s, ready) = [w EXCEPT !.ready = said]
    BY <1>1, <1>3, <1>4, <1>5, <1>7 DEF said
  <2> QED BY <2>4, <2>6, <2>7
<1> QED BY <1>6, <1>7

\* advanceStartGate
LEMMA AdvanceStartGateSees ==
    ASSUME NEW t, Fit(t), NEW elapsed \in BOOLEAN, NEW u, u = AdvanceStartGate(t, elapsed)
    PROVE  Fit(u) /\ ViewOf(u) \in HostView!PassGate(ViewOf(t), elapsed)
<1> DEFINE g == EnsureStartGate(t)
           w == ViewOf(g)
           passes == g.gateOpen /\ (Ready(t) = g.gateReady \/ (t.gateOpen /\ elapsed))
<1>1. /\ Fit(g) /\ OnlyGate(t, g) /\ Ready(g) = Ready(t) /\ w = HostView!OpenGate(ViewOf(t))
      /\ g.gateOpen => ~Playing(t.hand) /\ ~(Cardinality(Ready(t)) < MinPlayers)
      /\ w.gate = g.gateOpen
  BY GateSees
<1>2. u = IF passes THEN StartHand(g) ELSE g BY DEF AdvanceStartGate
<1>3. HostView!PassGate(ViewOf(t), elapsed) =
         IF w.gate /\ (HostView!Playable(ViewOf(t)) = w.ready \/ (ViewOf(t).gate /\ elapsed))
         THEN HostView!DealHand(w) ELSE {w}
  BY <1>1 DEF HostView!PassGate
<1>4. g.gateOpen => HostView!Playable(ViewOf(t)) = Ready(t) BY <1>1, ReadySees
<1>5. w.ready = g.gateReady /\ ViewOf(t).gate = t.gateOpen
  BY <1>1, ViewOfFields DEF Fit
<1>6. HostView!PassGate(ViewOf(t), elapsed) = IF passes THEN HostView!DealHand(w) ELSE {w}
  BY <1>1, <1>3, <1>4, <1>5
<1> HIDE DEF g
<1>7. CASE passes
  <2>1. g.hand = t.hand BY <1>1 DEF OnlyGate
  <2>2. Fit(u) /\ ViewOf(u) \in HostView!DealHand(ViewOf(g))
    BY <1>1, <1>2, <1>7, <2>1, StartHandSees
  <2> QED BY <1>6, <1>7, <2>2
<1>8. CASE ~passes BY <1>1, <1>2, <1>6, <1>8
<1> QED BY <1>7, <1>8

\* beginNextHandIfReady
LEMMA BeginNextHandSees ==
    ASSUME NEW t, Fit(t), NEW u, u = BeginNextHandIfReady(t)
    PROVE  Fit(u) /\ ViewOf(u) \in HostView!DealsNext(ViewOf(t))
<1> DEFINE v == ViewOf(t)
<1>1. /\ HostView!FirstHandWaiting(v) <=> FirstHandPending(t)
      /\ v.phase = "none" <=> NoHand(t)
      /\ NoHand(t) => ~Playing(t.hand)
      /\ ~Playing(t.hand) => (HostView!Cardinality(HostView!Playable(v)) >= HostView!MinimumToPlay
                              <=> Cardinality(Ready(t)) >= MinPlayers)
  BY WaitingSees
<1>2. HostView!DealsNext(v) =
         IF v.phase # "none" THEN {v}
         ELSE IF HostView!FirstHandWaiting(v) THEN {HostView!OpenGate(v)}
         ELSE IF HostView!Cardinality(HostView!Playable(v)) >= HostView!MinimumToPlay
         THEN HostView!DealHand(v) ELSE {v}
  BY DEF HostView!DealsNext
<1>3. CASE ~NoHand(t) BY <1>1, <1>2, <1>3 DEF BeginNextHandIfReady
<1>4. CASE FirstHandPending(t)
  <2>1. NoHand(t) /\ u = EnsureStartGate(t) BY <1>4 DEF BeginNextHandIfReady, FirstHandPending
  <2>2. Fit(u) /\ ViewOf(u) = HostView!OpenGate(v) BY <2>1, GateSees
  <2> QED BY <1>1, <1>2, <1>4, <2>1, <2>2
<1>5. CASE NoHand(t) /\ ~FirstHandPending(t) /\ Cardinality(Ready(t)) >= MinPlayers
  <2>1. u = StartHand(t) BY <1>5 DEF BeginNextHandIfReady
  <2>2. ~(Cardinality(Ready(t)) < MinPlayers)
    <3>1. IsFiniteSet(Ready(t))
      <4>1. Ready(t) \subseteq Seats BY DEF Ready
      <4> QED BY <4>1, SeatsFinite, FS_Subset
    <3>2. Cardinality(Ready(t)) \in Nat BY <3>1, FS_CardinalityType
    <3> QED BY <1>5, <3>2 DEF MinPlayers
  <2>3. Fit(u) /\ ViewOf(u) \in HostView!DealHand(v) BY <1>1, <1>5, <2>1, <2>2, StartHandSees
  <2> QED BY <1>1, <1>2, <1>5, <2>3
<1>6. CASE NoHand(t) /\ ~FirstHandPending(t) /\ ~(Cardinality(Ready(t)) >= MinPlayers)
  BY <1>1, <1>2, <1>6 DEF BeginNextHandIfReady
<1> QED BY <1>3, <1>4, <1>5, <1>6

\* advanceToNextHand
LEMMA AdvanceToNextHandSees ==
    ASSUME NEW t, Fit(t), ~Playing(t.hand), NEW u, u = AdvanceToNextHand(t)
    PROVE  Fit(u) /\ ViewOf(u) \in HostView!ClearsHand(ViewOf(t))
<1> DEFINE v == [t EXCEPT !.hand = NullHand]
           w == ViewOf(t)
<1>1. t \in TableType /\ Placed(t) BY DEF Fit
<1>2. NullHand \in HandType /\ NullHand.phase = "none" BY NullHandType
<1>3. \A s \in Seats : NullHand.status[s] = "none" BY DEF NullHand
<1> HIDE DEF NullHand
<1>4. /\ v \in TableType /\ v.hand = NullHand /\ v.seatStatus = t.seatStatus
      /\ v.seatStack = t.seatStack /\ v.sittingOut = t.sittingOut
      /\ v.button = t.button /\ v.gateOpen = t.gateOpen /\ v.gateReady = t.gateReady
  BY <1>1, <1>2 DEF TableType
<1>5. u = BeginNextHandIfReady(v) BY DEF AdvanceToNextHand
<1> HIDE DEF v
<1>6. ~Playing(v.hand) BY <1>2, <1>4 DEF Playing
<1>7. Fit(v)
  <2>1. HandsSeated(v) /\ Rested(v) BY <1>3, <1>4 DEF HandsSeated, Rested, InHand
  <2>2. Placed(v) BY <1>1, <1>4 DEF Placed, Seated
  <2> QED BY <1>4, <1>6, <2>1, <2>2 DEF Fit
<1>8. ViewOf(v) = View(v, {}, "none", NoSeat, {}) BY <1>2, <1>4, <1>6, RestSees
<1>9. w = View(t, {}, t.hand.phase, NoSeat, {}) BY <1>1, RestSees
<1>10. /\ SeatsTaken(v) = SeatsTaken(t) /\ SeatsOut(v) = SeatsOut(t)
       /\ SeatsBroke(v) = SeatsBroke(t) /\ Dealt(v.hand) = {}
  BY <1>3, <1>4, <1>6 DEF SeatsTaken, SeatsOut, SeatsBroke, Seated, Dealt
<1>11. [w EXCEPT !.phase = "none", !.dealt = {}, !.live = {}] = ViewOf(v)
  <2> DEFINE R(dealt, phase) ==
                [seated |-> SeatsTaken(t), out |-> SeatsOut(t), broke |-> SeatsBroke(t),
                 dealt |-> dealt, live |-> {}, phase |-> phase, turn |-> NoSeat,
                 pending |-> {}, first |-> (t.button = NoSeat), gate |-> t.gateOpen,
                 ready |-> t.gateReady]
             x == [w EXCEPT !.phase = "none"]
             y == [x EXCEPT !.dealt = {}]
             z == [y EXCEPT !.live = {}]
  <2>1. w = R(Dealt(t.hand), t.hand.phase) /\ ViewOf(v) = R({}, "none")
    BY <1>4, <1>8, <1>9, <1>10 DEF View
  <2> HIDE DEF w
  <2>2. x = R(Dealt(t.hand), "none") BY <2>1
  <2> HIDE DEF x
  <2>3. y = R({}, "none") BY <2>2
  <2> HIDE DEF y
  <2>4. z = R({}, "none") BY <2>3
  <2> HIDE DEF z, R
  <2>5. z = [w EXCEPT !.phase = "none", !.dealt = {}, !.live = {}] BY DEF x, y, z
  <2> QED BY <2>1, <2>4, <2>5
<1>12. Fit(u) /\ ViewOf(u) \in HostView!DealsNext(ViewOf(v)) BY <1>5, <1>7, BeginNextHandSees
<1> HIDE DEF w
<1>13. HostView!ClearsHand(w) = HostView!DealsNext(ViewOf(v)) BY <1>11 DEF HostView!ClearsHand
<1> QED BY <1>12, <1>13 DEF w

-----------------------------------------------------------------------------
(* Seats, as the host sees them.                                            *)

\* What the host sees where only seats change.
LEMMA SeatsSee ==
    ASSUME NEW t, NEW u, u.hand = t.hand, SameDoor(t, u)
    PROVE  LET v == ViewOf(t)
           IN  /\ SeatsOut(u) = SeatsOut(t) /\ SeatsBroke(u) = SeatsBroke(t)
                      => [v EXCEPT !.seated = SeatsTaken(u)] = ViewOf(u)
               /\ SeatsTaken(u) = SeatsTaken(t)
                      => [v EXCEPT !.broke = SeatsBroke(u), !.out = SeatsOut(u)] = ViewOf(u)
               /\ [v EXCEPT !.seated = SeatsTaken(u), !.out = SeatsOut(u), !.broke = SeatsBroke(u)]
                      = ViewOf(u)
<1> DEFINE l == IF Playing(t.hand) THEN Contenders(t.hand) ELSE {}
           p == ShownPhase(t.hand)
           q == IF ShownPhase(t.hand) = "betting" THEN t.hand.turn ELSE NoSeat
           d == IF Playing(t.hand) THEN t.hand.pending ELSE {}
           R(seated, out, broke) ==
             [seated |-> seated, out |-> out, broke |-> broke, dealt |-> Dealt(t.hand),
              live |-> l, phase |-> p, turn |-> q, pending |-> d,
              first |-> (t.button = NoSeat), gate |-> t.gateOpen, ready |-> t.gateReady]
           v == ViewOf(t)
           b1 == [v EXCEPT !.broke = SeatsBroke(u)]
           b2 == [b1 EXCEPT !.out = SeatsOut(u)]
           c1 == [v EXCEPT !.seated = SeatsTaken(u)]
           c2 == [c1 EXCEPT !.out = SeatsOut(u)]
           c3 == [c2 EXCEPT !.broke = SeatsBroke(u)]
<1>1. /\ v = R(SeatsTaken(t), SeatsOut(t), SeatsBroke(t))
      /\ ViewOf(u) = R(SeatsTaken(u), SeatsOut(u), SeatsBroke(u))
  BY DEF ViewOf, View, SameDoor
<1> HIDE DEF l, p, q, d, v
<1>2. b1 = R(SeatsTaken(t), SeatsOut(t), SeatsBroke(u)) BY <1>1
<1>3. c1 = R(SeatsTaken(u), SeatsOut(t), SeatsBroke(t)) BY <1>1
<1> HIDE DEF b1, c1
<1>4. b2 = R(SeatsTaken(t), SeatsOut(u), SeatsBroke(u)) BY <1>2
<1>5. c2 = R(SeatsTaken(u), SeatsOut(u), SeatsBroke(t)) BY <1>3
<1> HIDE DEF b2, c2
<1>6. c3 = R(SeatsTaken(u), SeatsOut(u), SeatsBroke(u)) BY <1>5
<1> HIDE DEF c3, R
<1>7. b2 = [v EXCEPT !.broke = SeatsBroke(u), !.out = SeatsOut(u)] BY DEF b1, b2
<1>8. c3 = [v EXCEPT !.seated = SeatsTaken(u), !.out = SeatsOut(u), !.broke = SeatsBroke(u)]
  BY DEF c1, c2, c3
<1>9. c1 = [v EXCEPT !.seated = SeatsTaken(u)] BY DEF c1
<1> QED BY <1>1, <1>3, <1>4, <1>6, <1>7, <1>8, <1>9 DEF v

\* From t to u only the seat of s, who is in no hand, changes.
OneSeat(t, u, s) ==
    /\ u \in TableType /\ u.hand = t.hand /\ SameDoor(t, u)
    /\ \A r \in Seats \ {s} : SameSeat(t, u, r) /\ u.seatStack[r] = t.seatStack[r]

\* Such a change leaves a table as it is found, if the seat of s is.
LEMMA OneSeatFit ==
    ASSUME NEW t, Fit(t), NEW u, NEW s \in Seats, OneSeat(t, u, s),
           Playing(t.hand) => ~InHand(t, s),
           InHand(t, s) => Seated(u, s) /\ u.seatStack[s] > 0,
           u.sittingOut[s] => Seated(u, s),
           u.seatStatus[s] \in {"sitting_out", "busted"} => u.sittingOut[s]
    PROVE  Fit(u)
<1>1. /\ u \in TableType /\ u.hand = t.hand
      /\ \A r \in Seats \ {s} : SameSeat(t, u, r) /\ u.seatStack[r] = t.seatStack[r]
  BY DEF OneSeat
<1>2. HandsSeated(u) BY <1>1 DEF Fit, HandsSeated, InHand, SameSeat, Seated
<1>3. Placed(u) BY <1>1 DEF Fit, Placed, SameSeat, Seated
<1>4. CASE Playing(t.hand)
  <2>1. Going(u) BY <1>1, <1>4 DEF Fit, Going, Funded, InHand
  <2> QED BY <1>1, <1>2, <1>3, <2>1 DEF Fit, Going
<1>5. CASE ~Playing(t.hand)
  <2>1. u.seatStack[s] > 0 => u.seatStack[s] # 0 OBVIOUS
  <2>2. Rested(u) BY <1>1, <1>5, <2>1 DEF Fit, Rested, InHand, SameSeat
  <2> QED BY <1>1, <1>2, <1>3, <1>5, <2>2 DEF Fit
<1> QED BY <1>4, <1>5

\* The seat of s gets the status and the mark given.
MarkSeat(t, u, s, status, out) ==
    /\ u = [t EXCEPT !.sittingOut = Put(t.sittingOut, s, out),
                     !.seatStatus = Put(t.seatStatus, s, status)]
    /\ status \in SeatStatuses \ {"empty"} /\ out \in BOOLEAN

\* Nothing else changes then.
LEMMA MarkSeatTells ==
    ASSUME NEW t \in TableType, NEW s \in Seats, Seated(t, s), NEW status, NEW out, NEW u,
           MarkSeat(t, u, s, status, out)
    PROVE  SeatTold(t, u, s) /\ u.seatStatus[s] = status /\ (u.sittingOut[s] <=> out)
<1> DEFINE a == Put(t.seatStatus, s, status)
           c == Put(t.sittingOut, s, out)
<1>1. /\ a \in [Seats -> SeatStatuses] /\ c \in [Seats -> BOOLEAN]
  BY DEF MarkSeat, TableType, Put
<1>2. /\ a[s] = status /\ c[s] = out
      /\ \A r \in Seats \ {s} : a[r] = t.seatStatus[r] /\ c[r] = t.sittingOut[r]
  BY DEF TableType, Put
<1>3. u = [t EXCEPT !.sittingOut = c, !.seatStatus = a] /\ status # "empty" BY DEF MarkSeat
<1> HIDE DEF a, c
<1>4. /\ u \in TableType /\ u.hand = t.hand /\ SameDoor(t, u)
      /\ u.seatStatus = a /\ u.seatStack = t.seatStack /\ u.sittingOut = c
  BY <1>1, <1>3 DEF TableType, SameDoor
<1> QED BY <1>2, <1>3, <1>4 DEF SeatTold, SameSeat, Seated

\* seatPlayer
LEMMA SeatPlayerSees ==
    ASSUME NEW t, Fit(t), NEW s \in Seats, CanSeat(t, s), NEW stack \in Nat \ {0},
           NEW u, u = SeatPlayer(t, s, stack)
    PROVE  Fit(u) /\ ViewOf(u) = HostView!TakesSeat(ViewOf(t), s)
<1>1. t \in TableType /\ HandsSeated(t) /\ Placed(t) BY DEF Fit
<1>2. ~Seated(t, s) /\ ~InHand(t, s) /\ ~t.sittingOut[s]
  BY <1>1 DEF CanSeat, HandsSeated, Placed
<1>3. stack > 0 /\ (stack = 0) = FALSE OBVIOUS
<1>4. u = [t EXCEPT !.seatStatus[s] = "active", !.seatStack[s] = stack, !.sittingOut[s] = FALSE]
  BY <1>3 DEF SeatPlayer
<1>5. /\ u \in TableType /\ u.hand = t.hand /\ SameDoor(t, u)
      /\ u.seatStatus[s] = "active" /\ u.seatStack[s] = stack /\ ~u.sittingOut[s]
      /\ \A r \in Seats \ {s} : SameSeat(t, u, r) /\ u.seatStack[r] = t.seatStack[r]
  <2> DEFINE a == Put(t.seatStatus, s, "active")
             b == Put(t.seatStack, s, stack)
             c == Put(t.sittingOut, s, FALSE)
  <2>1. /\ a \in [Seats -> SeatStatuses] /\ b \in [Seats -> Nat] /\ c \in [Seats -> BOOLEAN]
    BY <1>1 DEF TableType, Put, SeatStatuses
  <2>2. /\ a[s] = "active" /\ b[s] = stack /\ ~c[s]
        /\ \A r \in Seats \ {s} : /\ a[r] = t.seatStatus[r] /\ b[r] = t.seatStack[r]
                                  /\ c[r] = t.sittingOut[r]
    BY <1>1 DEF TableType, Put
  <2>3. u = [t EXCEPT !.seatStatus = a, !.seatStack = b, !.sittingOut = c] BY <1>4 DEF Put
  <2> HIDE DEF a, b, c
  <2>4. /\ u \in TableType /\ u.hand = t.hand /\ SameDoor(t, u)
        /\ u.seatStatus = a /\ u.seatStack = b /\ u.sittingOut = c
    BY <1>1, <2>1, <2>3 DEF TableType, SameDoor
  <2> QED BY <2>2, <2>4 DEF SameSeat
<1>6. Seated(u, s) BY <1>5 DEF Seated
<1>7. Fit(u) BY <1>2, <1>5, <1>6, OneSeatFit DEF OneSeat
<1>8. SeatsTaken(u) = SeatsTaken(t) \cup {s}
  BY <1>5, <1>6 DEF SeatsTaken, Seated, SameSeat
<1>9. SeatsOut(u) = SeatsOut(t) BY <1>2, <1>5 DEF SeatsOut, SameSeat
<1>10. SeatsBroke(u) = SeatsBroke(t)
  <2>1. u.seatStack[s] # 0 BY <1>5
  <2> QED BY <1>2, <1>5, <2>1 DEF SeatsBroke, Seated, SameSeat, InHand
<1>11. [ViewOf(t) EXCEPT !.seated = SeatsTaken(u)] = ViewOf(u) BY <1>5, <1>9, <1>10, SeatsSee
<1>12. ViewOf(t).seated = SeatsTaken(t) BY <1>1, ViewOfFields
<1> QED BY <1>7, <1>8, <1>11, <1>12 DEF HostView!TakesSeat

\* removePlayer
LEMMA RemovePlayerSees ==
    ASSUME NEW t, Fit(t), NEW s \in Seats, ~InHand(t, s), NEW u, u = RemovePlayer(t, s)
    PROVE  Fit(u) /\ ViewOf(u) = HostView!GivesUpSeat(ViewOf(t), {s})
<1>1. t \in TableType BY DEF Fit
<1>2. /\ u \in TableType /\ u.hand = t.hand /\ SameDoor(t, u)
      /\ u.seatStatus[s] = "empty" /\ ~u.sittingOut[s]
      /\ \A r \in Seats \ {s} : SameSeat(t, u, r) /\ u.seatStack[r] = t.seatStack[r]
  BY <1>1 DEF RemovePlayer, TableType, SeatStatuses, SameDoor, SameSeat
<1>3. ~Seated(u, s) BY <1>2 DEF Seated
<1>4. Fit(u) BY <1>2, OneSeatFit DEF OneSeat
<1>5. SeatsTaken(u) = SeatsTaken(t) \ {s} BY <1>2, <1>3 DEF SeatsTaken, Seated, SameSeat
<1>6. SeatsOut(u) = SeatsOut(t) \ {s} BY <1>2 DEF SeatsOut, SameSeat
<1>7. SeatsBroke(u) = SeatsBroke(t) \ {s}
  BY <1>2, <1>3 DEF SeatsBroke, Seated, SameSeat, InHand
<1> DEFINE v == ViewOf(t)
<1>8. [v EXCEPT !.seated = SeatsTaken(u), !.out = SeatsOut(u), !.broke = SeatsBroke(u)] = ViewOf(u)
  BY <1>2, SeatsSee
<1>9. v.seated = SeatsTaken(t) /\ v.out = SeatsOut(t) /\ v.broke = SeatsBroke(t)
  BY <1>1, ViewOfFields
<1> HIDE DEF v
<1>10. HostView!GivesUpSeat(v, {s}) = ViewOf(u)
  BY <1>5, <1>6, <1>7, <1>8, <1>9 DEF HostView!GivesUpSeat
<1> QED BY <1>4, <1>10 DEF v

\* setSittingOut, of a player who comes back
LEMMA ComesBackSees ==
    ASSUME NEW t, Fit(t), NEW s \in Seats, Seated(t, s), NEW u, u = SetSittingOut(t, s, FALSE)
    PROVE  Fit(u) /\ ViewOf(u) = HostView!ComesBack(ViewOf(t), s)
<1> DEFINE broke == t.seatStack[s] = 0
           playing == InPlay(t) /\ s \in Dealt(t.hand)
           v == ViewOf(t)
<1>1. t \in TableType BY DEF Fit
<1>2. playing <=> Playing(t.hand) /\ InHand(t, s) BY DEF InPlay, Playing, Dealt, InHand
<1>3. /\ v.seated = SeatsTaken(t) /\ v.out = SeatsOut(t) /\ v.broke = SeatsBroke(t)
      /\ v.dealt = Dealt(t.hand) /\ (HostView!Playing(v) <=> Playing(t.hand))
  BY <1>1, ViewOfFields
<1>4. s \in v.seated BY <1>3 DEF SeatsTaken
<1>5. s \in v.broke <=> broke /\ ~playing BY <1>2, <1>3 DEF SeatsBroke
<1>6. CASE broke /\ ~playing
  <2>1. u = [t EXCEPT !.sittingOut[s] = TRUE, !.seatStatus[s] = "busted"]
    BY <1>6 DEF SetSittingOut
  <2>2. SeatGone(t, u, s)
    <3>1. MarkSeat(t, u, s, "busted", TRUE) BY <2>1 DEF MarkSeat, Put, SeatStatuses
    <3> QED BY <1>1, <3>1, MarkSeatTells DEF SeatGone
  <2>3. Fit(u) /\ ViewOf(u) = HostView!SitsOut(v, s)
    BY <1>1, <2>2, SeatGoneFit, SeatGoneSees
  <2>4. ~(HostView!Playing(v) /\ s \in v.dealt) BY <1>3, <1>6 DEF InPlay, Playing
  <2> HIDE DEF v
  <2>5. HostView!ComesBack(v, s) = HostView!SitsOut(v, s)
    BY <1>4, <1>5, <1>6, <2>4 DEF HostView!ComesBack
  <2> QED BY <2>3, <2>5 DEF v
<1>7. CASE ~(broke /\ ~playing)
  <2>1. u = [t EXCEPT !.sittingOut[s] = FALSE, !.seatStatus[s] = "active"]
    BY <1>7 DEF SetSittingOut
  <2>2. SeatTold(t, u, s) /\ ~u.sittingOut[s] /\ u.seatStatus[s] = "active"
    <3>1. MarkSeat(t, u, s, "active", FALSE) BY <2>1 DEF MarkSeat, Put, SeatStatuses
    <3> QED BY <1>1, <3>1, MarkSeatTells
  <2>3. Fit(u) BY <1>2, <1>7, <2>2, SeatToldFit
  <2>4. SeatsOut(u) = SeatsOut(t) \ {s} /\ [v EXCEPT !.out = SeatsOut(u)] = ViewOf(u)
    BY <1>1, <2>2, SeatToldSees
  <2> HIDE DEF v
  <2>5. HostView!ComesBack(v, s) = [v EXCEPT !.out = v.out \ {s}]
    BY <1>4, <1>5, <1>7 DEF HostView!ComesBack
  <2> QED BY <1>3, <2>3, <2>4, <2>5 DEF v
<1> QED BY <1>6, <1>7

\* rebuy
LEMMA RebuySees ==
    ASSUME NEW t, Fit(t), NEW s \in Seats, CanRebuy(t, s), NEW amount \in Nat \ {0},
           NEW u, u = Rebuy(t, s, amount)
    PROVE  /\ Fit(u) /\ ViewOf(u) = HostView!BuysIn(ViewOf(t), s)
           /\ ~Playing(t.hand) /\ s \in ViewOf(t).out \cup ViewOf(t).broke
<1>1. t \in TableType /\ Placed(t) BY DEF Fit
<1>2. /\ ~Playing(t.hand) /\ Seated(t, s)
      /\ t.seatStack[s] = 0 \/ t.seatStatus[s] = "busted"
  BY DEF CanRebuy, BetweenHands, InPlay, Playing
<1>3. /\ u \in TableType /\ u.hand = t.hand /\ SameDoor(t, u)
      /\ u.seatStatus[s] = "active" /\ u.seatStack[s] = amount /\ ~u.sittingOut[s]
      /\ \A r \in Seats \ {s} : SameSeat(t, u, r) /\ u.seatStack[r] = t.seatStack[r]
  BY <1>1 DEF Rebuy, TableType, SeatStatuses, SameDoor, SameSeat
<1>4. Seated(u, s) /\ u.seatStack[s] > 0 /\ u.seatStack[s] # 0 BY <1>3 DEF Seated
<1>5. Fit(u) BY <1>2, <1>3, <1>4, OneSeatFit DEF OneSeat
<1>6. SeatsTaken(u) = SeatsTaken(t)
  BY <1>2, <1>3, <1>4 DEF SeatsTaken, Seated, SameSeat
<1>7. SeatsOut(u) = SeatsOut(t) \ {s} BY <1>3 DEF SeatsOut, SameSeat
<1>8. SeatsBroke(u) = SeatsBroke(t) \ {s}
  BY <1>3, <1>4 DEF SeatsBroke, Seated, SameSeat, InHand
<1> DEFINE v == ViewOf(t)
<1>9. [v EXCEPT !.broke = SeatsBroke(u), !.out = SeatsOut(u)] = ViewOf(u)
  BY <1>3, <1>6, SeatsSee
<1>10. v.out = SeatsOut(t) /\ v.broke = SeatsBroke(t) BY <1>1, ViewOfFields
<1>11. s \in v.out \cup v.broke
  <2>1. t.seatStatus[s] = "busted" => t.sittingOut[s] BY <1>1 DEF Placed
  <2> QED BY <1>2, <1>10, <2>1 DEF SeatsOut, SeatsBroke
<1> HIDE DEF v
<1>12. HostView!BuysIn(v, s) = ViewOf(u) BY <1>7, <1>8, <1>9, <1>10 DEF HostView!BuysIn
<1> QED BY <1>2, <1>5, <1>11, <1>12 DEF v

-----------------------------------------------------------------------------
(* Every step is one the host expects.                                      *)

\* The steps of what the host sees.
LEMMA SeatStepsAre ==
    ASSUME NEW v
    PROVE  LET steps == HostView!TableSteps(v)
           IN  /\ \A p \in Seats \ v.seated :
                     HostView!DealsNext(HostView!TakesSeat(v, p)) \subseteq steps
               /\ \A p \in v.seated \ v.dealt :
                     HostView!DealsNext(HostView!GivesUpSeat(v, {p})) \subseteq steps
               /\ \A p \in v.seated :
                     HostView!DealsNext(HostView!ComesBack(v, p)) \subseteq steps
               /\ ~HostView!Playing(v) => \A p \in v.seated : HostView!SitsOut(v, p) \in steps
               /\ ~HostView!Playing(v) =>
                     \A p \in v.out \cup v.broke : HostView!BuysIn(v, p) \in steps
               /\ \A p \in v.seated, ready \in BOOLEAN, elapsed \in BOOLEAN :
                     HostView!PassGate(HostView!SaysReady(v, p, ready), elapsed) \subseteq steps
               /\ HostView!PassGate(v, TRUE) \subseteq steps
               /\ ~HostView!Playing(v) => HostView!ClearsHand(v) \subseteq steps
<1> DEFINE steps == HostView!TableSteps(v)
           S == HostView!SeatSteps(v)
           Taken == {HostView!DealsNext(HostView!TakesSeat(v, p)) : p \in Seats \ v.seated}
           Freed == {HostView!DealsNext(HostView!GivesUpSeat(v, {p})) : p \in v.seated \ v.dealt}
           BackIn == {HostView!DealsNext(HostView!ComesBack(v, p)) : p \in v.seated}
           SatOut == IF HostView!Playing(v) THEN {}
                     ELSE {{HostView!SitsOut(v, p)} : p \in v.seated}
           Bought == IF HostView!Playing(v) THEN {}
                   ELSE {{HostView!BuysIn(v, p)} : p \in v.out \cup v.broke}
           Said == {HostView!PassGate(HostView!SaysReady(v, p, ready), elapsed) :
                       p \in v.seated, ready, elapsed \in BOOLEAN}
           Passed == {HostView!PassGate(v, TRUE)}
           Cleared == IF HostView!Playing(v) THEN {} ELSE {HostView!ClearsHand(v)}
<1>1. S = UNION {Taken, Freed, BackIn, SatOut, Bought, Said, Passed, Cleared}
  BY DEF HostView!SeatSteps
<1>2. \A x \in S : x \subseteq steps BY DEF HostView!TableSteps
<1>3. \A p \in Seats \ v.seated : HostView!DealsNext(HostView!TakesSeat(v, p)) \in Taken
  OBVIOUS
<1>4. \A p \in v.seated \ v.dealt : HostView!DealsNext(HostView!GivesUpSeat(v, {p})) \in Freed
  OBVIOUS
<1>5. \A p \in v.seated : HostView!DealsNext(HostView!ComesBack(v, p)) \in BackIn
  OBVIOUS
<1>6. ~HostView!Playing(v) => \A p \in v.seated : {HostView!SitsOut(v, p)} \in SatOut
  OBVIOUS
<1>7. ~HostView!Playing(v) => \A p \in v.out \cup v.broke : {HostView!BuysIn(v, p)} \in Bought
  OBVIOUS
<1>8. \A p \in v.seated, ready \in BOOLEAN, elapsed \in BOOLEAN :
         HostView!PassGate(HostView!SaysReady(v, p, ready), elapsed) \in Said
  OBVIOUS
<1>9. HostView!PassGate(v, TRUE) \in Passed OBVIOUS
<1>10. ~HostView!Playing(v) => HostView!ClearsHand(v) \in Cleared OBVIOUS
<1> HIDE DEF steps, S, Taken, Freed, BackIn, SatOut, Bought, Said, Passed, Cleared
<1>11. /\ Taken \subseteq S /\ Freed \subseteq S /\ BackIn \subseteq S /\ SatOut \subseteq S
       /\ Bought \subseteq S /\ Said \subseteq S /\ Passed \subseteq S /\ Cleared \subseteq S
  BY <1>1
<1>12. ~HostView!Playing(v) => \A p \in v.seated : HostView!SitsOut(v, p) \in steps
  BY <1>2, <1>6, <1>11
<1>13. ~HostView!Playing(v) => \A p \in v.out \cup v.broke : HostView!BuysIn(v, p) \in steps
  BY <1>2, <1>7, <1>11
<1>14. \A p \in Seats \ v.seated : HostView!DealsNext(HostView!TakesSeat(v, p)) \subseteq steps
  BY <1>2, <1>3, <1>11
<1>15. \A p \in v.seated \ v.dealt :
          HostView!DealsNext(HostView!GivesUpSeat(v, {p})) \subseteq steps
  BY <1>2, <1>4, <1>11
<1>16. \A p \in v.seated : HostView!DealsNext(HostView!ComesBack(v, p)) \subseteq steps
  BY <1>2, <1>5, <1>11
<1>17. \A p \in v.seated, ready \in BOOLEAN, elapsed \in BOOLEAN :
          HostView!PassGate(HostView!SaysReady(v, p, ready), elapsed) \subseteq steps
  BY <1>2, <1>8, <1>11
<1>18. HostView!PassGate(v, TRUE) \subseteq steps BY <1>2, <1>9, <1>11
<1>19. ~HostView!Playing(v) => HostView!ClearsHand(v) \subseteq steps BY <1>2, <1>10, <1>11
<1> QED BY <1>12, <1>13, <1>14, <1>15, <1>16, <1>17, <1>18, <1>19 DEF steps

\* The steps of the hand it sees.
LEMMA HandStepsAre ==
    ASSUME NEW v
    PROVE  LET steps == HostView!TableSteps(v)
           IN  /\ \A p \in v.live :
                     HostView!OnTurnNow(v, p) => HostView!ActNow(v, p) \subseteq steps
               /\ HostView!ClockRunsOut(v) \subseteq steps
               /\ v.phase = "pause" => HostView!PauseIsOver(v) \subseteq steps
               /\ v.phase = "discard" =>
                     /\ \A p \in v.pending : HostView!GiveCard(v, p) \subseteq steps
                     /\ HostView!GiveAllCards(v) \subseteq steps
               /\ \A p \in v.seated : HostView!Vanish(v, p) \subseteq steps
<1> DEFINE steps == HostView!TableSteps(v)
           S == HostView!HandSteps(v)
<1>1. \A x \in S : x \subseteq steps BY DEF HostView!TableSteps
<1>2. \A p \in v.live : HostView!OnTurnNow(v, p) => HostView!ActNow(v, p) \in S
  BY DEF HostView!HandSteps
<1>3. HostView!ClockRunsOut(v) \in S BY DEF HostView!HandSteps
<1>4. v.phase = "pause" => HostView!PauseIsOver(v) \in S BY DEF HostView!HandSteps
<1>5. v.phase = "discard" => \A p \in v.pending : HostView!GiveCard(v, p) \in S
  BY DEF HostView!HandSteps
<1>6. v.phase = "discard" => HostView!GiveAllCards(v) \in S BY DEF HostView!HandSteps
<1>7. \A p \in v.seated : HostView!Vanish(v, p) \in S BY DEF HostView!HandSteps
<1> HIDE DEF steps, S
<1> QED BY <1>1, <1>2, <1>3, <1>4, <1>5, <1>6, <1>7 DEF steps

\* The table u is as tables are found, and one step of what the host sees from t, or none.
Seen(t, u) ==
    /\ Fit(u)
    /\ ViewOf(u) = ViewOf(t) \/ ViewOf(u) \in HostView!TableSteps(ViewOf(t))

\* And nobody has taken or left a seat.
Played(t, u) == Seen(t, u) /\ SameSeating(t, u)

\* The tables the host deals with: with all that is known of them.
FitInv ==
    /\ HonestInv /\ HandInv /\ Fit(table)
    /\ \A s \in away : Seated(table, s)

\* A player in the hand has the stack the hand says, and his seat is not given up.
LEMMA FitFacts ==
    ASSUME FitInv
    PROVE  /\ table \in TableType /\ Fit(table) /\ HandsSeated(table)
           /\ Counted(table) /\ Rules(table.hand) /\ BetsAreCommitted(table.hand)
           /\ Playing(table.hand) =>
                 Going(table) /\ StacksAgree(table) /\ Chipped(table.hand)
           /\ away \subseteq Seats
BY DEF FitInv, HonestInv, HandInv, IInv, TableInv, Accounts, Sound, Fit, StacksAgree, Rules,
       ChipRules, Hand

\* What players and clocks do in a hand
LEMMA HandIsSeen ==
    ASSUME NEW t, Fit(t), Playing(t.hand), Rules(t.hand), BetsAreCommitted(t.hand), StacksAgree(t)
    PROVE  /\ \A s \in Seats, action \in Actions :
                 Accepts(t.hand, s, action) => Played(t, ApplyAction(t, s, action))
           /\ t.hand.phase = "discard" => \A s \in t.hand.pending :
                 \A u \in ApplyDiscard(t, s) : Played(t, u)
           /\ t.hand.phase = "discard" => \A u \in AutoDiscard(t) : Played(t, u)
           /\ t.hand.phase = "betting" /\ ~t.hand.waiting /\ ~AutoActionThrows(t.hand)
                 => Played(t, AutoAction(t))
<1> DEFINE v == ViewOf(t)
<1>1. t \in TableType /\ Going(t) /\ HandsSeated(t) /\ Chipped(t.hand)
  BY DEF Fit, Rules, ChipRules
<1>2. /\ v.live = Contenders(t.hand) /\ v.phase = ShownPhase(t.hand)
      /\ v.turn = IF ShownPhase(t.hand) = "betting" THEN t.hand.turn ELSE NoSeat
      /\ v.pending = t.hand.pending
  BY <1>1, ViewOfFields
<1>3. ASSUME NEW s \in Seats, NEW action \in Actions, Accepts(t.hand, s, action)
      PROVE  /\ Played(t, ApplyAction(t, s, action))
             /\ v.phase = "betting" /\ v.turn = s
             /\ ViewOf(ApplyAction(t, s, action)) \in HostView!ActNow(v, s)
  <2> DEFINE u == ApplyAction(t, s, action)
  <2>1. /\ Goes(t, u) /\ ViewOf(u) \in HostView!ActNow(v, s) /\ s \in Contenders(t.hand)
        /\ v = View(t, Contenders(t.hand), "betting", s, {})
    BY <1>1, <1>3, ApplyActionSees
  <2>2. u \in TableType BY <1>1, <1>3, ApplyActionKeeps DEF Keeps
  <2> HIDE DEF u, v
  <2>3. Fit(u) BY <2>1, <2>2, GoesFit
  <2>4. v.phase = "betting" /\ v.turn = s BY <2>1, ViewFields
  <2>5. HostView!OnTurnNow(v, s) BY <2>4 DEF HostView!OnTurnNow
  <2>6. HostView!ActNow(v, s) \subseteq HostView!TableSteps(v)
    BY <1>2, <2>1, <2>5, HandStepsAre
  <2>7. SameSeating(t, u) BY <2>1, GoesSeating
  <2> QED BY <2>1, <2>3, <2>4, <2>6, <2>7 DEF Played, Seen, u, v
<1>4. ASSUME t.hand.phase = "discard", NEW s \in t.hand.pending, NEW u \in ApplyDiscard(t, s)
      PROVE  Played(t, u)
  <2>1. Goes(t, u) /\ ViewOf(u) \in HostView!GiveCard(v, s) BY <1>1, <1>4, DiscardSees
  <2>2. s \in Seats BY <1>1, <1>4, HandIsTyped DEF HandType
  <2>3. u \in TableType BY <1>1, <1>4, <2>2, ApplyDiscardKeeps DEF Keeps
  <2>4. Fit(u) BY <2>1, <2>3, GoesFit
  <2>5. v.phase = "discard" /\ s \in v.pending BY <1>2, <1>4 DEF ShownPhase
  <2> HIDE DEF v
  <2>6. HostView!GiveCard(v, s) \subseteq HostView!TableSteps(v) BY <2>5, HandStepsAre
  <2>7. SameSeating(t, u) BY <2>1, GoesSeating
  <2> QED BY <2>1, <2>4, <2>6, <2>7 DEF Played, Seen, v
<1>5. ASSUME t.hand.phase = "discard", NEW u \in AutoDiscard(t) PROVE Played(t, u)
  <2>1. Goes(t, u) /\ ViewOf(u) \in HostView!GiveAllCards(v) BY <1>1, <1>5, AllDiscardsSee
  <2>2. u \in TableType BY <1>1, <1>5, AutoDiscardKeeps DEF Keeps
  <2>3. Fit(u) BY <2>1, <2>2, GoesFit
  <2>4. v.phase = "discard" BY <1>2, <1>5 DEF ShownPhase
  <2> HIDE DEF v
  <2>5. HostView!GiveAllCards(v) \subseteq HostView!TableSteps(v) BY <2>4, HandStepsAre
  <2>6. SameSeating(t, u) BY <2>1, GoesSeating
  <2> QED BY <2>1, <2>3, <2>5, <2>6 DEF Played, Seen, v
<1>6. ASSUME t.hand.phase = "betting", ~t.hand.waiting, ~AutoActionThrows(t.hand)
      PROVE  Played(t, AutoAction(t))
  <2>1. CASE AutoAction(t) = t BY <2>1 DEF Played, Seen, SameSeating
  <2>2. CASE AutoAction(t) # t
    <3>1. \E s \in Seats, action \in Actions :
             Accepts(t.hand, s, action) /\ AutoAction(t) = ApplyAction(t, s, action)
      BY <1>1, <1>6, <2>2, AutoActionIsAction
    <3> QED BY <1>3, <3>1
  <2> QED BY <2>1, <2>2
<1> QED BY <1>3, <1>4, <1>5, <1>6

\* The end of a pause: of one in a hand that is over, nothing shows.
LEMMA PauseIsSeen ==
    ASSUME NEW t, Fit(t), Rules(t.hand), t.hand.waiting, NEW u \in AdvancePendingPhase(t)
    PROVE  Played(t, u)
<1>1. t \in TableType /\ t.hand \in HandType BY HandIsTyped DEF Fit
<1>2. CASE t.hand.phase = "betting"
  <2>1. Going(t) /\ HandsSeated(t) /\ Playing(t.hand) BY <1>2 DEF Fit, Playing
  <2>2. /\ Goes(t, u) /\ ViewOf(u) \in HostView!PauseIsOver(ViewOf(t))
        /\ ViewOf(t) = View(t, Contenders(t.hand), "pause", NoSeat, {})
    BY <1>2, <2>1, PauseSees
  <2>3. u \in TableType BY <1>1, AdvancePendingPhaseKeeps DEF Keeps
  <2>4. Fit(u) BY <2>1, <2>2, <2>3, GoesFit
  <2>5. SameSeating(t, u) BY <2>2, GoesSeating
  <2>6. ViewOf(t).phase = "pause" BY <2>2, ViewFields
  <2>7. HostView!PauseIsOver(ViewOf(t)) \subseteq HostView!TableSteps(ViewOf(t))
    BY <2>6, HandStepsAre
  <2> QED BY <2>2, <2>4, <2>5, <2>7 DEF Played, Seen
<1>3. CASE t.hand.phase # "betting"
  <2> DEFINE h == [t.hand EXCEPT !.waiting = FALSE]
  <2>1. /\ h \in HandType /\ h.phase = t.hand.phase /\ h.status = t.hand.status
        /\ h.stack = t.hand.stack /\ h.bet = t.hand.bet /\ h.committed = t.hand.committed
        /\ h.acted = t.hand.acted /\ h.currentBet = t.hand.currentBet
        /\ h.pending = t.hand.pending /\ h.turn = t.hand.turn
    BY <1>1 DEF HandType
  <2>2. u = WithHand(t, h) BY <1>3, <2>1 DEF AdvancePendingPhase
  <2> HIDE DEF h
  <2>3. /\ u \in TableType /\ u.hand = h
        /\ u.seatStack = t.seatStack /\ u.sittingOut = t.sittingOut
        /\ u.seatStatus = t.seatStatus
    BY <1>1, <2>1, <2>2, WithHandEffect
  <2>4. SameDoor(t, u) BY <1>1, <2>2, HandAlone
  <2>5. SameSeating(t, u) BY <2>3 DEF SameSeating, Seated
  <2>6. /\ Contenders(h) = Contenders(t.hand) /\ Active(h) = Active(t.hand)
        /\ Dealt(h) = Dealt(t.hand) /\ (Playing(h) <=> Playing(t.hand))
        /\ ShownPhase(h) = ShownPhase(t.hand)
    BY <1>3, <2>1 DEF Contenders, Active, Dealt, Playing, ShownPhase
  <2>7. Fit(u)
    BY <2>1, <2>3, <2>6
       DEF Fit, HandsSeated, Placed, Going, Rested, Heard, Owing, Funded, InHand, Seated
  <2>8. ViewOf(u) = ViewOf(t)
    BY <2>1, <2>3, <2>4, <2>6
       DEF ViewOf, View, SeatsTaken, SeatsOut, SeatsBroke, SameDoor, InHand, Seated
  <2> QED BY <2>5, <2>7, <2>8 DEF Played, Seen
<1> QED BY <1>2, <1>3

\* Dealing where one can changes no seat.
LEMMA DealingSeating ==
    ASSUME NEW t \in TableType
    PROVE  /\ SameSeating(t, BeginNextHandIfReady(t))
           /\ \A elapsed \in BOOLEAN : SameSeating(t, AdvanceStartGate(t, elapsed))
<1>1. Proceeds(t, BeginNextHandIfReady(t)) BY BeginNextHandProceeds
<1>2. \A elapsed \in BOOLEAN : Proceeds(t, AdvanceStartGate(t, elapsed))
  BY AdvanceStartGateProceeds
<1> QED BY <1>1, <1>2 DEF Proceeds, SameSeating, SameSeat, Seated

\* What the players, the clocks and the connections do is seen coming, and whoever is lost
\* keeps a seat until it is given up.
LEMMA NextIsSeen ==
    ASSUME FitInv, [Next]_vars
    PROVE  Seen(table, table') /\ \A s \in away' : Seated(table', s)
<1> DEFINE Goal == Seen(table, table') /\ \A s \in away' : Seated(table', s)
           t == table
           steps == HostView!TableSteps(ViewOf(t))
<1>1. /\ t \in TableType /\ Fit(t) /\ HandsSeated(t) /\ Counted(t) /\ Rules(t.hand)
      /\ BetsAreCommitted(t.hand)
      /\ Playing(t.hand) => StacksAgree(t)
      /\ away \subseteq Seats
      /\ \A s \in away : Seated(t, s)
  <2>1. \A s \in away : Seated(t, s) BY DEF FitInv
  <2> QED BY <2>1, FitFacts
<1>2. /\ \A s \in Seats : s \in ViewOf(t).seated <=> Seated(t, s)
      /\ ViewOf(t).dealt = Dealt(t.hand)
      /\ HostView!Playing(ViewOf(t)) <=> Playing(t.hand)
  BY <1>1, ViewOfFields DEF SeatsTaken
<1>3. ASSUME NEW R, BecomesOneOf(R), \A u \in R : Played(t, u), UNCHANGED away PROVE Goal
  <2>1. PICK u \in R : table' = u BY <1>3 DEF BecomesOneOf
  <2>2. Played(t, u) /\ away' = away BY <1>3, <2>1
  <2> QED BY <1>1, <2>1, <2>2 DEF Played, SameSeating
<1>4. ASSUME NEW v, NEW x, Fit(v), ViewOf(v) = x, HostView!DealsNext(x) \subseteq steps,
             Becomes(BeginNextHandIfReady(v)), \A s \in away' : Seated(v, s) /\ s \in Seats
      PROVE  Goal
  <2> DEFINE u == BeginNextHandIfReady(v)
  <2>1. Fit(u) /\ ViewOf(u) \in HostView!DealsNext(x) BY <1>4, BeginNextHandSees
  <2>2. SameSeating(v, u) BY <1>4, DealingSeating DEF Fit
  <2>3. table' = u BY <1>4 DEF Becomes, BecomesOneOf
  <2> HIDE DEF u
  <2> QED BY <1>4, <2>1, <2>2, <2>3 DEF Seen, SameSeating
<1> HIDE DEF steps
<1>5. ASSUME NEW s \in Seats, NEW stack \in BuyIns, Join(s, stack) PROVE Goal
  <2> DEFINE v == SeatPlayer(t, s, stack)
  <2>1. CanSeat(t, s) /\ Becomes(BeginNextHandIfReady(v)) /\ away' = away
    BY <1>5 DEF Join
  <2>2. stack \in Nat \ {0} BY StacksAssumption
  <2> HIDE DEF v
  <2>3. Fit(v) /\ ViewOf(v) = HostView!TakesSeat(ViewOf(t), s)
    BY <1>1, <2>1, <2>2, SeatPlayerSees DEF v
  <2>4. s \in Seats \ ViewOf(t).seated BY <1>2, <2>1 DEF CanSeat
  <2>5. HostView!DealsNext(HostView!TakesSeat(ViewOf(t), s)) \subseteq steps
    BY <2>4, SeatStepsAre DEF steps
  <2>6. \A r \in Seats : Seated(t, r) => Seated(v, r)
    BY <1>1 DEF v, SeatPlayer, Seated, TableType
  <2> QED BY <1>1, <1>4, <2>1, <2>3, <2>5, <2>6
<1>6. ASSUME NEW s \in Seats, NEW action \in Actions, Act(s, action) PROVE Goal
  <2>1. Accepts(t.hand, s, action) BY <1>6 DEF Act, Hand
  <2>2. Playing(t.hand) BY <2>1 DEF Accepts, OnTurn, Playing
  <2>3. Played(t, ApplyAction(t, s, action)) BY <1>1, <2>1, <2>2, HandIsSeen
  <2> QED BY <1>3, <1>6, <2>3 DEF Act, Becomes
<1>7. ASSUME NEW s \in Seats, Discard(s) PROVE Goal
  <2>1. t.hand.phase = "discard" /\ s \in t.hand.pending BY <1>7 DEF Discard, Hand
  <2>2. Playing(t.hand) BY <2>1 DEF Playing
  <2>3. \A u \in ApplyDiscard(t, s) : Played(t, u) BY <1>1, <2>1, <2>2, HandIsSeen
  <2> QED BY <1>3, <1>7, <2>3 DEF Discard
<1>8. ASSUME NEW s \in Seats, NEW ready \in BOOLEAN, ReadyForHand(s, ready) PROVE Goal
  <2> DEFINE v == SetReadyForHand(t, s, ready)
             u == AdvanceStartGate(v, FALSE)
  <2>1. Seated(t, s) /\ table' = u /\ away' = away
    BY <1>8 DEF ReadyForHand, Present, Becomes, BecomesOneOf
  <2> HIDE DEF v, u
  <2>2. Fit(v) /\ ViewOf(v) = HostView!SaysReady(ViewOf(t), s, ready)
    BY <1>1, ReadyForHandSees DEF v
  <2>3. Fit(u) /\ ViewOf(u) \in HostView!PassGate(ViewOf(v), FALSE)
    BY <2>2, AdvanceStartGateSees DEF u
  <2>4. HostView!PassGate(HostView!SaysReady(ViewOf(t), s, ready), FALSE) \subseteq steps
    BY <1>2, <2>1, SeatStepsAre DEF steps
  <2>5. SameSeating(v, u) BY <2>2, DealingSeating DEF u, Fit
  <2>6. SameSeating(t, v)
    <3>1. ViewOf(v).seated = ViewOf(t).seated
      <4> DEFINE g == EnsureStartGate(t)
      <4>1. v.seatStatus = t.seatStatus
        <5>1. g \in TableType /\ g.seatStatus = t.seatStatus
          BY <1>1, EnsureStartGateSeats
        <5> HIDE DEF g
        <5>2. \/ v = g
              \/ v = [g EXCEPT !.gateReady = IF ready THEN @ \cup {s} ELSE @ \ {s}]
          BY DEF SetReadyForHand, v, g
        <5> QED BY <5>1, <5>2 DEF TableType
      <4>2. SeatsTaken(v) = SeatsTaken(t) BY <4>1 DEF SeatsTaken, Seated
      <4> QED BY <1>1, <2>2, <4>2, ViewOfFields DEF Fit
    <3> QED BY <1>1, <2>2, <3>1, ViewOfFields DEF Fit, SeatsTaken, SameSeating
  <2> QED BY <1>1, <2>1, <2>2, <2>3, <2>4, <2>5, <2>6 DEF Seen, SameSeating, steps
<1>9. ASSUME NEW s \in Seats, LeaveSeat(s) PROVE Goal
  <2> DEFINE u == SitOut(t, s)
  <2>1. Seated(t, s) /\ ~Playing(t.hand) /\ table' = u /\ away' = away
    BY <1>9 DEF LeaveSeat, Present, CanSitOut, BetweenHands, InPlay, Playing, Becomes,
                BecomesOneOf
  <2>2. SeatGone(t, u, s) BY <1>1, <2>1, SittingOutGoes
  <2> HIDE DEF u
  <2>3. Fit(u) /\ ViewOf(u) = HostView!SitsOut(ViewOf(t), s)
    BY <1>1, <2>2, SeatGoneFit, SeatGoneSees
  <2>4. HostView!SitsOut(ViewOf(t), s) \in steps
    BY <1>2, <2>1, SeatStepsAre DEF steps
  <2>5. SameSeating(t, u)
    BY <2>2 DEF SeatGone, SeatTold, SameSeating, SameSeat, Seated
  <2> QED BY <1>1, <2>1, <2>3, <2>4, <2>5 DEF Seen, SameSeating, steps
<1>10. ASSUME NEW s \in Seats, NEW amount \in BuyIns, BuyBackIn(s, amount) PROVE Goal
  <2> DEFINE u == Rebuy(t, s, amount)
  <2>1. CanRebuy(t, s) /\ table' = u /\ away' = away
    BY <1>10 DEF BuyBackIn, Becomes, BecomesOneOf
  <2>2. amount \in Nat \ {0} BY StacksAssumption
  <2> HIDE DEF u
  <2>3. /\ Fit(u) /\ ViewOf(u) = HostView!BuysIn(ViewOf(t), s)
        /\ ~Playing(t.hand) /\ s \in ViewOf(t).out \cup ViewOf(t).broke
    BY <1>1, <2>1, <2>2, RebuySees DEF u
  <2>4. HostView!BuysIn(ViewOf(t), s) \in steps BY <1>2, <2>3, SeatStepsAre DEF steps
  <2>5. \A r \in Seats : Seated(t, r) => Seated(u, r)
    BY <1>1 DEF u, Rebuy, Seated, TableType
  <2> QED BY <1>1, <2>1, <2>3, <2>4, <2>5 DEF Seen, steps
<1>11. CASE NextHand
  <2> DEFINE u == AdvanceToNextHand(t)
             v == WithHand(t, NullHand)
  <2>1. ~Playing(t.hand) /\ table' = u /\ away' = away
    BY <1>11 DEF NextHand, CanAdvanceToNextHand, InPlay, Playing, Becomes, BecomesOneOf
  <2>2. u = BeginNextHandIfReady(v) BY DEF AdvanceToNextHand, WithHand
  <2>3. v \in TableType /\ v.seatStatus = t.seatStatus
    BY <1>1, NullHandType, WithHandEffect
  <2> HIDE DEF u, v
  <2>4. SameSeating(v, u) BY <2>2, <2>3, DealingSeating
  <2>5. SameSeating(t, u) BY <2>3, <2>4 DEF SameSeating, Seated
  <2>6. Fit(u) /\ ViewOf(u) \in HostView!ClearsHand(ViewOf(t))
    BY <1>1, <2>1, AdvanceToNextHandSees DEF u
  <2>7. HostView!ClearsHand(ViewOf(t)) \subseteq steps
    BY <1>2, <2>1, SeatStepsAre DEF steps
  <2> QED BY <1>1, <2>1, <2>5, <2>6, <2>7 DEF Seen, SameSeating, steps
<1>12. ASSUME NEW s \in Seats, Disconnect(s) PROVE Goal
  <2>1. /\ Seated(t, s) /\ away' = away \cup {s}
        /\ \E u \in LosesPlayer(t, s) : table' = u
    BY <1>12 DEF Disconnect, Present, BecomesOneOf
  <2>2. PICK u \in LosesPlayer(t, s) : table' = u BY <2>1
  <2>3. Fit(u) /\ SameSeating(t, u) /\ ViewOf(u) \in HostView!Vanish(ViewOf(t), s)
    BY <1>1, <2>1, LosesPlayerSees
  <2>4. HostView!Vanish(ViewOf(t), s) \subseteq steps BY <1>2, <2>1, HandStepsAre DEF steps
  <2> QED BY <1>1, <2>1, <2>2, <2>3, <2>4 DEF Seen, SameSeating, steps
<1>13. ASSUME NEW s \in Seats, Return(s) PROVE Goal
  <2> DEFINE v == SetSittingOut(t, s, FALSE)
  <2>1. Seated(t, s) /\ Becomes(BeginNextHandIfReady(v)) /\ away' = away \ {s}
    BY <1>13 DEF Return
  <2> HIDE DEF v
  <2>2. Fit(v) /\ ViewOf(v) = HostView!ComesBack(ViewOf(t), s)
    BY <1>1, <2>1, ComesBackSees DEF v
  <2>3. HostView!DealsNext(HostView!ComesBack(ViewOf(t), s)) \subseteq steps
    BY <1>2, <2>1, SeatStepsAre DEF steps
  <2>4. \A r \in Seats \ {s} : Seated(t, r) => Seated(v, r)
    BY <1>1 DEF v, SetSittingOut, Seated, TableType
  <2> QED BY <1>1, <1>4, <2>1, <2>2, <2>3, <2>4
<1>14. ASSUME NEW s \in Seats, Release(s) PROVE Goal
  <2> DEFINE v == RemovePlayer(t, s)
  <2>1. /\ s \in away /\ ~InHand(t, s)
        /\ Becomes(BeginNextHandIfReady(v)) /\ away' = away \ {s}
    BY <1>14 DEF Release, Hand, Dealt, InHand
  <2> HIDE DEF v
  <2>2. Fit(v) /\ ViewOf(v) = HostView!GivesUpSeat(ViewOf(t), {s})
    BY <1>1, <2>1, RemovePlayerSees DEF v
  <2>3. s \in ViewOf(t).seated \ ViewOf(t).dealt
    BY <1>1, <1>2, <2>1 DEF Dealt, InHand
  <2>4. HostView!DealsNext(HostView!GivesUpSeat(ViewOf(t), {s})) \subseteq steps
    BY <2>3, SeatStepsAre DEF steps
  <2>5. \A r \in Seats \ {s} : Seated(t, r) => Seated(v, r)
    BY <1>1 DEF v, RemovePlayer, Seated, TableType
  <2> QED BY <1>1, <1>4, <2>1, <2>2, <2>4, <2>5
<1>15. CASE StartCountdownEnds
  <2> DEFINE u == AdvanceStartGate(t, TRUE)
  <2>1. table' = u /\ away' = away
    BY <1>15 DEF StartCountdownEnds, Becomes, BecomesOneOf
  <2>2. SameSeating(t, u) BY <1>1, DealingSeating
  <2>3. Fit(u) /\ ViewOf(u) \in HostView!PassGate(ViewOf(t), TRUE)
    BY <1>1, AdvanceStartGateSees
  <2> HIDE DEF u
  <2>4. HostView!PassGate(ViewOf(t), TRUE) \subseteq steps BY SeatStepsAre DEF steps
  <2> QED BY <1>1, <2>1, <2>2, <2>3, <2>4 DEF Seen, SameSeating, steps
<1>16. CASE PauseEnds
  <2>1. t.hand.waiting BY <1>16 DEF PauseEnds, Hand
  <2>2. \A u \in AdvancePendingPhase(t) : Played(t, u) BY <1>1, <2>1, PauseIsSeen
  <2> QED BY <1>3, <1>16, <2>2 DEF PauseEnds
<1>17. CASE ActionTimeout
  <2>1. t.hand.phase = "betting" /\ ~t.hand.waiting /\ ~AutoActionThrows(t.hand)
    BY <1>17 DEF ActionTimeout, Hand
  <2>2. Playing(t.hand) BY <2>1 DEF Playing
  <2>3. Played(t, AutoAction(t)) BY <1>1, <2>1, <2>2, HandIsSeen
  <2> QED BY <1>3, <1>17, <2>3 DEF ActionTimeout, Becomes
<1>18. CASE DiscardTimeout
  <2>1. t.hand.phase = "discard" BY <1>18 DEF DiscardTimeout, Hand
  <2>2. Playing(t.hand) BY <2>1 DEF Playing
  <2>3. \A u \in AutoDiscard(t) : Played(t, u) BY <1>1, <2>1, <2>2, HandIsSeen
  <2> QED BY <1>3, <1>18, <2>3 DEF DiscardTimeout
<1>19. CASE UNCHANGED vars
  <2>1. table' = table /\ away' = away BY <1>19 DEF vars
  <2> QED BY <1>1, <2>1 DEF Seen
<1> QED
  BY <1>5, <1>6, <1>7, <1>8, <1>9, <1>10, <1>11, <1>12, <1>13, <1>14, <1>15, <1>16, <1>17,
     <1>18, <1>19 DEF Next, Deadlines

\* A new table is as tables are found, and nobody is lost.
LEMMA InitFit == Init => FitInv
<1> SUFFICES ASSUME Init PROVE FitInv OBVIOUS
<1>1. IInv /\ Rules(Hand) /\ Sound(table, away)
  BY InitKeepsInvariant, InitRules, InitSound
<1>2. table \in TableType BY <1>1 DEF IInv, TableInv
<1>3. PICK f \in [Seats -> InitialStacks] : table = SeatedTable(f) /\ away = {} BY DEF Init
<1> DEFINE status == [s \in Seats |-> IF f[s] > 0 THEN "active" ELSE "empty"]
           out == [s \in Seats |-> FALSE]
<1>4. table.hand = NullHand /\ table.seatStatus = status /\ table.sittingOut = out
  BY <1>3 DEF SeatedTable, EmptyTable
<1>5. ~Playing(table.hand) /\ \A s \in Seats : ~InHand(table, s)
  BY <1>4 DEF Playing, NullHand, InHand
<1>6. \A s \in Seats : /\ ~table.sittingOut[s]
                       /\ table.seatStatus[s] \notin {"sitting_out", "busted"}
  BY <1>4
<1>7. Fit(table) BY <1>2, <1>5, <1>6 DEF Fit, HandsSeated, Placed, Rested
<1> QED BY <1>1, <1>3, <1>7 DEF FitInv, HonestInv, HandInv

\* The table stays as tables are found.
LEMMA NextKeepsFit == FitInv /\ [Next]_vars => FitInv'
<1> SUFFICES ASSUME FitInv, [Next]_vars PROVE FitInv' OBVIOUS
<1>1. HonestInv /\ HandInv /\ IInv BY DEF FitInv, HonestInv
<1>2. IInv' /\ Sound(table, away)' /\ Rules(Hand)'
  BY <1>1, NextKeepsInvariant, NextSound, NextKeepsRules
<1>3. Fit(table') /\ \A s \in away' : Seated(table', s) BY NextIsSeen DEF Seen
<1>4. Fit(table)' BY <1>3
<1>5. (\A s \in away : Seated(table, s))' BY <1>3 DEF Seated
<1> QED BY <1>2, <1>4, <1>5 DEF FitInv, HonestInv, HandInv

\* Whatever the table does, for any players, chips, cards and lost connections, is something
\* the match expects of a table (table.ts, all of its public operations, as pdhMatch.ts and
\* the legacy server rely on them).
THEOREM TableKeepsToView == Spec => KeepsToView
<1> DEFINE Keep == HostSees' = HostSees \/ HostSees' \in HostView!TableSteps(HostSees)
<1>1. Init => FitInv BY InitFit
<1>2. FitInv /\ [Next]_vars => FitInv' BY NextKeepsFit
<1>3. FitInv /\ [Next]_vars => Keep BY NextIsSeen, HostSeesTable DEF Seen
<1>4. [][Keep]_vars => KeepsToView BY DEF KeepsToView
<1>5. FitInv /\ [Next]_vars => [Keep]_vars BY <1>3
<1> QED BY <1>1, <1>2, <1>4, <1>5, PTL DEF Spec
=============================================================================
