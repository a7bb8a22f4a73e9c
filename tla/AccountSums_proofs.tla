-------------------------- MODULE AccountSums_proofs -------------------------
(***************************************************************************)
(* The facts about TotalOf the invariance proofs use: it is 0 when nobody  *)
(* holds anything, it is at least the balance of every account, changing   *)
(* one balance changes it by the same amount, and it is monotone, additive *)
(* and linear.  None of them is proved by induction: units are counted     *)
(* with bijections.  The arithmetic the contracts share comes first.       *)
(***************************************************************************)
EXTENDS AccountSums, Integers, FiniteSetTheorems, Functions, TLAPS

-----------------------------------------------------------------------------
(* Arithmetic of the rounded products that the contracts compute with.     *)

(* Quotients of naturals are naturals. *)
LEMMA DivNat ==
  ASSUME NEW a \in Nat, NEW b \in Nat \ {0}
  PROVE  a \div b \in Nat
OBVIOUS

(* Products of naturals are naturals. *)
LEMMA MulNat ==
  ASSUME NEW a \in Nat, NEW b \in Nat
  PROVE  a * b \in Nat
OBVIOUS

(* A quotient of at least the divisor is positive. *)
LEMMA DivPositive ==
  ASSUME NEW a \in Nat, NEW b \in Nat \ {0}, a >= b
  PROVE  a \div b >= 1
OBVIOUS

(* Division keeps the order of the dividends. *)
LEMMA DivMono ==
  ASSUME NEW a \in Nat, NEW b \in Nat, NEW n \in Nat \ {0}, a <= b
  PROVE  a \div n <= b \div n
OBVIOUS

(* Multiplication keeps the order of naturals. *)
LEMMA MulMono ==
  ASSUME NEW a \in Nat, NEW b \in Nat, NEW n \in Nat, a <= b
  PROVE  n * a <= n * b
OBVIOUS

(* A product divided by one of its factors is the other factor. *)
LEMMA DivCancel ==
  ASSUME NEW a \in Nat, NEW n \in Nat \ {0}
  PROVE  (a * n) \div n = a
OBVIOUS

(* A multiple of the divisor goes through a division. *)
LEMMA DivShift ==
  ASSUME NEW a \in Nat, NEW k \in Nat, NEW n \in Nat \ {0}
  PROVE  (a + k * n) \div n = (a \div n) + k
<1> DEFINE q == a \div n
           r == a % n
<1>1. q \in Nat /\ r \in Nat /\ r < n /\ a = q * n + r
  OBVIOUS
<1> HIDE DEF q, r
<1>2. a + k * n = (q + k) * n + r
  BY <1>1
<1>3. ((q + k) * n + r) \div n = q + k
  BY <1>1
<1>4. QED
  BY <1>2, <1>3 DEF q

-----------------------------------------------------------------------------
(* Sums.                                                                   *)

(* One account holds as many units as its balance says. *)
LEMMA UnitsCount ==
  ASSUME NEW a, NEW n \in Nat
  PROVE  /\ IsFiniteSet({a} \X (1 .. n))
         /\ Cardinality({a} \X (1 .. n)) = n
<1>1. IsFiniteSet(1 .. n)
  BY FS_Interval
<1>2. Cardinality(1 .. n) = n
  <2>1. Cardinality(1 .. n) = IF 1 > n THEN 0 ELSE n - 1 + 1
    BY FS_Interval
  <2>2. QED
    BY <2>1
<1>3. IsFiniteSet({a}) /\ Cardinality({a}) = 1
  BY FS_Singleton
<1>4. Cardinality({a} \X (1 .. n)) = 1 * n
  BY SMTT(40), <1>1, <1>2, <1>3, FS_Product
<1>5. QED
  BY <1>1, <1>3, <1>4, FS_Product

(* The units of a mapping over a finite set of accounts are finitely many. *)
LEMMA UnitsFinite ==
  ASSUME NEW S, IsFiniteSet(S), NEW f \in [S -> Nat]
  PROVE  IsFiniteSet(UNION {UnitsOf(f, a) : a \in S})
<1> DEFINE T == {UnitsOf(f, a) : a \in S}
<1> DEFINE g == [a \in S |-> UnitsOf(f, a)]
<1>1. g \in Surjection(S, T)
  BY DEF Surjection
<1>2. IsFiniteSet(T)
  BY <1>1, FS_Surjection
<1>3. ASSUME NEW U \in T PROVE IsFiniteSet(U)
  <2>1. PICK a \in S : U = {a} \X (1 .. f[a])
    BY DEF UnitsOf
  <2>2. QED
    BY <2>1, UnitsCount
<1>4. QED
  BY <1>2, <1>3, FS_UNION

(* The total of a mapping is a natural number. *)
LEMMA TotalIsNat ==
  ASSUME NEW S, IsFiniteSet(S), NEW f \in [S -> Nat]
  PROVE  TotalOf(f) \in Nat
<1>1. DOMAIN f = S
  OBVIOUS
<1>2. QED
  BY <1>1, UnitsFinite, FS_CardinalityType DEF TotalOf

(* The mapping that holds nothing sums to zero. *)
LEMMA TotalOfNothing ==
  ASSUME NEW S, NEW f \in [S -> Nat], \A a \in S : f[a] = 0
  PROVE  TotalOf(f) = 0
<1>1. \A a \in S : UnitsOf(f, a) = {}
  BY DEF UnitsOf
<1>2. UNION {UnitsOf(f, a) : a \in DOMAIN f} = {}
  BY <1>1
<1>3. QED
  BY <1>2, FS_EmptySet DEF TotalOf

(* The total splits into the balance of one account and the units of the   *)
(* others.                                                                 *)
LEMMA TotalSplit ==
  ASSUME NEW S, IsFiniteSet(S), NEW f \in [S -> Nat], NEW a \in S
  PROVE  LET rest == UNION {UnitsOf(f, b) : b \in S \ {a}}
         IN  /\ IsFiniteSet(rest)
             /\ Cardinality(rest) \in Nat
             /\ TotalOf(f) = Cardinality(rest) + f[a]
<1> DEFINE rest == UNION {UnitsOf(f, b) : b \in S \ {a}}
<1> DEFINE mine == UnitsOf(f, a)
<1> DEFINE all  == UNION {UnitsOf(f, b) : b \in S}
<1>1. IsFiniteSet(all)
  BY UnitsFinite
<1>2. all = rest \cup mine
  OBVIOUS
<1>3. rest \cap mine = {}
  BY DEF UnitsOf
<1>4. IsFiniteSet(rest) /\ IsFiniteSet(mine)
  BY <1>1, <1>2, FS_Subset
<1>5. Cardinality(mine) = f[a] /\ f[a] \in Nat
  BY UnitsCount DEF UnitsOf
<1>6. Cardinality(rest \cap mine) = 0
  BY <1>3, FS_EmptySet
<1>7. Cardinality(rest) \in Nat
  BY <1>4, FS_CardinalityType
<1>8. Cardinality(all) = Cardinality(rest) + f[a]
  <2>1. Cardinality(rest \cup mine)
          = Cardinality(rest) + Cardinality(mine) - Cardinality(rest \cap mine)
    BY <1>4, FS_Union
  <2> HIDE DEF rest, mine, all
  <2>2. QED
    BY <1>2, <1>5, <1>6, <1>7, <2>1
<1>9. DOMAIN f = S
  OBVIOUS
<1>10. QED
  BY <1>4, <1>7, <1>8, <1>9 DEF TotalOf

(* No account holds more than the total. *)
LEMMA TotalAtLeastMember ==
  ASSUME NEW S, IsFiniteSet(S), NEW f \in [S -> Nat], NEW a \in S
  PROVE  f[a] <= TotalOf(f)
<1> DEFINE rest == UNION {UnitsOf(f, b) : b \in S \ {a}}
<1>1. Cardinality(rest) \in Nat /\ TotalOf(f) = Cardinality(rest) + f[a]
  BY TotalSplit
<1>2. f[a] \in Nat
  OBVIOUS
<1> HIDE DEF rest
<1>3. QED
  BY <1>1, <1>2

(* Setting one balance to v moves the total by v less the old balance.     *)
LEMMA TotalOfUpdate ==
  ASSUME NEW S, IsFiniteSet(S), NEW f \in [S -> Nat], NEW a \in S, NEW v \in Nat
  PROVE  TotalOf([f EXCEPT ![a] = v]) = TotalOf(f) - f[a] + v
<1> DEFINE g == [f EXCEPT ![a] = v]
<1> DEFINE restF == UNION {UnitsOf(f, b) : b \in S \ {a}}
<1> DEFINE restG == UNION {UnitsOf(g, b) : b \in S \ {a}}
<1>1. g \in [S -> Nat] /\ g[a] = v
  OBVIOUS
<1>2. \A b \in S \ {a} : UnitsOf(f, b) = UnitsOf(g, b)
  BY DEF UnitsOf
<1>3. restF = restG
  BY <1>2
<1>4. TotalOf(f) = Cardinality(restF) + f[a] /\ Cardinality(restF) \in Nat
  BY TotalSplit
<1>5. TotalOf(g) = Cardinality(restG) + g[a]
  <2> HIDE DEF g
  <2>1. QED
    BY <1>1, TotalSplit
<1>6. f[a] \in Nat
  OBVIOUS
<1>7. TotalOf(g) = TotalOf(f) - f[a] + v
  <2> HIDE DEF g, restF, restG
  <2>1. QED
    BY <1>1, <1>3, <1>4, <1>5, <1>6
<1>8. QED
  BY <1>7

(* If everybody holds no less, so do all together. *)
LEMMA TotalMono ==
  ASSUME NEW S, IsFiniteSet(S), NEW f \in [S -> Nat], NEW g \in [S -> Nat],
         \A a \in S : f[a] <= g[a]
  PROVE  TotalOf(f) <= TotalOf(g)
<1> DEFINE F == UNION {UnitsOf(f, a) : a \in S}
<1> DEFINE G == UNION {UnitsOf(g, a) : a \in S}
<1>1. ASSUME NEW a \in S PROVE UnitsOf(f, a) \subseteq UnitsOf(g, a)
  <2>1. f[a] \in Nat /\ g[a] \in Nat /\ f[a] <= g[a]
    OBVIOUS
  <2>2. 1 .. f[a] \subseteq 1 .. g[a]
    BY <2>1
  <2>3. QED
    BY <2>2 DEF UnitsOf
<1>2. F \in SUBSET G
  BY <1>1
<1>3. IsFiniteSet(G)
  BY UnitsFinite
<1>4. Cardinality(F) <= Cardinality(G)
  <2> HIDE DEF F, G
  <2>1. QED
    BY <1>2, <1>3, FS_Subset
<1>5. DOMAIN f = S /\ DOMAIN g = S
  OBVIOUS
<1>6. QED
  BY <1>4, <1>5 DEF TotalOf

(* A bijection, given by its graph, between two finite sets.               *)
LEMMA SameCount ==
  ASSUME NEW S, NEW T, IsFiniteSet(S), NEW h \in [S -> T],
         \A x, y \in S : h[x] = h[y] => x = y,
         \A t \in T : \E x \in S : h[x] = t
  PROVE  IsFiniteSet(T) /\ Cardinality(T) = Cardinality(S)
<1>1. h \in Bijection(S, T)
  BY DEF Bijection, Injection, Surjection, IsInjective
<1>2. ExistsBijection(S, T)
  BY <1>1 DEF ExistsBijection
<1>3. QED
  BY <1>2, FS_Bijection

(* Totals add up. *)
LEMMA TotalAdd ==
  ASSUME NEW S, IsFiniteSet(S), NEW f \in [S -> Nat], NEW g \in [S -> Nat]
  PROVE  TotalOf([a \in S |-> f[a] + g[a]]) = TotalOf(f) + TotalOf(g)
<1> DEFINE h == [a \in S |-> f[a] + g[a]]
<1> DEFINE F == UNION {UnitsOf(f, a) : a \in S}
<1> DEFINE G == UNION {UnitsOf(g, a) : a \in S}
<1> DEFINE H == UNION {UnitsOf(h, a) : a \in S}
<1> DEFINE E == H \ F
<1> DEFINE shift == [x \in G |-> <<x[1], x[2] + f[x[1]]>>]
<1>1. h \in [S -> Nat] /\ \A a \in S : h[a] = f[a] + g[a] /\ f[a] \in Nat /\ g[a] \in Nat
  OBVIOUS
<1>2. IsFiniteSet(F) /\ IsFiniteSet(G)
  BY UnitsFinite
<1>3. /\ \A x : x \in F <=> \E a \in S, i \in Nat : x = <<a, i>> /\ 1 <= i /\ i <= f[a]
      /\ \A x : x \in G <=> \E a \in S, i \in Nat : x = <<a, i>> /\ 1 <= i /\ i <= g[a]
      /\ \A x : x \in H <=> \E a \in S, i \in Nat : x = <<a, i>> /\ 1 <= i /\ i <= f[a] + g[a]
  BY <1>1 DEF UnitsOf
<1> HIDE DEF h, F, G, H
<1>4. \A x : x \in E <=> \E a \in S, i \in Nat : x = <<a, i>> /\ f[a] < i /\ i <= f[a] + g[a]
  BY <1>1, <1>3
<1>5. F \subseteq H
  BY <1>1, <1>3
<1>6. IsFiniteSet(E) /\ Cardinality(E) = Cardinality(G)
  <2>1. shift \in [G -> E]
    <3>1. ASSUME NEW x \in G PROVE <<x[1], x[2] + f[x[1]]>> \in E
      <4>1. PICK a \in S, i \in Nat : x = <<a, i>> /\ 1 <= i /\ i <= g[a]
        BY <1>3
      <4>2. i + f[a] \in Nat /\ f[a] < i + f[a] /\ i + f[a] <= f[a] + g[a]
        BY <1>1, <4>1
      <4>3. QED
        BY <1>4, <4>1, <4>2
    <3> HIDE DEF E
    <3>2. QED
      BY <3>1
  <2>2. ASSUME NEW x \in G, NEW y \in G, shift[x] = shift[y] PROVE x = y
    <3>1. PICK a \in S, i \in Nat : x = <<a, i>>
      BY <1>3
    <3>2. PICK b \in S, j \in Nat : y = <<b, j>>
      BY <1>3
    <3>3. shift[x] = <<a, i + f[a]>> /\ shift[y] = <<b, j + f[b]>>
      BY <3>1, <3>2
    <3>4. a = b /\ i + f[a] = j + f[a] /\ f[a] \in Nat
      BY <1>1, <2>2, <3>3
    <3>5. i = j
      BY <3>4
    <3>6. QED
      BY <3>1, <3>2, <3>4, <3>5
  <2>3. ASSUME NEW t \in E PROVE \E x \in G : shift[x] = t
    <3>1. PICK a \in S, i \in Nat : t = <<a, i>> /\ f[a] < i /\ i <= f[a] + g[a]
      BY <1>4
    <3>2. i - f[a] \in Nat /\ 1 <= i - f[a] /\ i - f[a] <= g[a] /\ (i - f[a]) + f[a] = i
      BY <1>1, <3>1
    <3>3. <<a, i - f[a]>> \in G
      BY <1>3, <3>2
    <3>4. shift[<<a, i - f[a]>>] = <<a, i>>
      BY <3>2, <3>3
    <3>5. QED
      BY <3>1, <3>3, <3>4
  <2> HIDE DEF shift, E
  <2>4. QED
    BY <1>2, <2>1, <2>2, <2>3, SameCount
<1>7. H = F \cup E /\ F \cap E = {}
  BY <1>5
<1>8. Cardinality(F \cup E) = Cardinality(F) + Cardinality(E) - Cardinality(F \cap E)
  BY <1>2, <1>6, FS_Union
<1>9. Cardinality(F \cap E) = 0
  BY <1>7, FS_EmptySet
<1>10. Cardinality(F) \in Nat /\ Cardinality(G) \in Nat
  BY <1>2, FS_CardinalityType
<1>11. TotalOf(f) = Cardinality(F) /\ TotalOf(g) = Cardinality(G) /\ TotalOf(h) = Cardinality(H)
  <2>1. DOMAIN f = S /\ DOMAIN g = S /\ DOMAIN h = S
    BY <1>1
  <2>2. QED
    BY <2>1 DEF TotalOf, F, G, H
<1>12. Cardinality(H) = Cardinality(F) + Cardinality(G)
  <2> HIDE DEF E
  <2>1. QED
    BY <1>6, <1>7, <1>8, <1>9, <1>10
<1>13. QED
  BY <1>11, <1>12 DEF h

(* A number has one quotient and remainder.                                *)
LEMMA OneQuotient ==
  ASSUME NEW k \in Nat, NEW i \in Nat \ {0}, NEW j \in 1 .. k,
         NEW p \in Nat \ {0}, NEW q \in 1 .. k,
         (i - 1) * k + j = (p - 1) * k + q
  PROVE  i = p /\ j = q
<1>1. ASSUME NEW x \in Nat, NEW y \in Nat, x < y PROVE k * y >= k * x + k
  <2>1. k * (x + 1) <= k * y
    BY <1>1, MulMono
  <2>2. k * (x + 1) = k * x + k
    OBVIOUS
  <2>3. k * x \in Nat /\ k * y \in Nat
    BY MulNat
  <2>4. QED
    BY <2>1, <2>2, <2>3
<1> DEFINE x == i - 1
<1> DEFINE y == p - 1
<1>2. x \in Nat /\ y \in Nat /\ x * k = k * x /\ y * k = k * y
  OBVIOUS
<1>3. k * x \in Nat /\ k * y \in Nat
  BY <1>2, MulNat
<1>4. k * x + j = k * y + q
  BY <1>2
<1>5. j \in Nat /\ q \in Nat /\ 1 <= j /\ j <= k /\ 1 <= q /\ q <= k
  OBVIOUS
<1>6. x = y
  <2>1. ~(x < y)
    <3>1. x < y => k * y >= k * x + k
      BY <1>1, <1>2
    <3> HIDE DEF x, y
    <3>2. QED
      BY <1>3, <1>4, <1>5, <3>1
  <2>2. ~(y < x)
    <3>1. y < x => k * x >= k * y + k
      BY <1>1, <1>2
    <3> HIDE DEF x, y
    <3>2. QED
      BY <1>3, <1>4, <1>5, <3>1
  <2> HIDE DEF x, y
  <2>3. QED
    BY <1>2, <2>1, <2>2
<1>7. j = q
  <2> HIDE DEF x, y
  <2>1. QED
    BY <1>3, <1>4, <1>5, <1>6
<1>8. QED
  BY <1>6, <1>7

(* If everybody holds k times as much, so do all together. *)
LEMMA TotalScale ==
  ASSUME NEW S, IsFiniteSet(S), NEW f \in [S -> Nat], NEW k \in Nat
  PROVE  TotalOf([a \in S |-> f[a] * k]) = TotalOf(f) * k
<1> DEFINE h == [a \in S |-> f[a] * k]
<1> DEFINE F == UNION {UnitsOf(f, a) : a \in S}
<1> DEFINE H == UNION {UnitsOf(h, a) : a \in S}
<1> DEFINE P == F \X (1 .. k)
<1> DEFINE cell == [z \in P |-> <<z[1][1], (z[1][2] - 1) * k + z[2]>>]
<1>1. h \in [S -> Nat] /\ \A a \in S : h[a] = f[a] * k /\ f[a] \in Nat /\ f[a] * k \in Nat
  BY MulNat
<1>2. IsFiniteSet(F)
  BY UnitsFinite
<1>3. /\ \A x : x \in F <=> \E a \in S, i \in Nat : x = <<a, i>> /\ 1 <= i /\ i <= f[a]
      /\ \A x : x \in H <=> \E a \in S, i \in Nat : x = <<a, i>> /\ 1 <= i /\ i <= f[a] * k
  BY <1>1 DEF UnitsOf
<1>4. IsFiniteSet(1 .. k) /\ Cardinality(1 .. k) = k
  <2>1. Cardinality(1 .. k) = IF 1 > k THEN 0 ELSE k - 1 + 1
    BY FS_Interval
  <2>2. QED
    BY <2>1, FS_Interval
<1> HIDE DEF h, F, H
<1>5. IsFiniteSet(P) /\ Cardinality(P) = Cardinality(F) * k
  BY <1>2, <1>4, FS_Product
<1>6. ASSUME NEW z \in P
      PROVE  \E a \in S, i \in Nat \ {0}, j \in 1 .. k :
               z = <<<<a, i>>, j>> /\ i <= f[a] /\ cell[z] = <<a, (i - 1) * k + j>>
  <2>1. z[1] \in F /\ z[2] \in 1 .. k /\ z = <<z[1], z[2]>>
    OBVIOUS
  <2>2. PICK a \in S, i \in Nat : z[1] = <<a, i>> /\ 1 <= i /\ i <= f[a]
    BY <1>3, <2>1
  <2>3. i \in Nat \ {0}
    BY <2>2
  <2>4. cell[z] = <<a, (i - 1) * k + z[2]>>
    BY <2>2
  <2>5. QED
    BY <2>1, <2>2, <2>3, <2>4
<1>7. cell \in [P -> H]
  <2>1. ASSUME NEW z \in P PROVE cell[z] \in H
    <3>1. PICK a \in S, i \in Nat \ {0}, j \in 1 .. k :
            z = <<<<a, i>>, j>> /\ i <= f[a] /\ cell[z] = <<a, (i - 1) * k + j>>
      BY <1>6
    <3> DEFINE x == i - 1
    <3> DEFINE n == k * x
    <3>2. x \in Nat /\ x + 1 <= f[a] /\ f[a] \in Nat
      BY <1>1, <3>1
    <3>3. n \in Nat /\ k * (x + 1) = n + k
      BY <3>2, MulNat
    <3>4. k * (x + 1) <= k * f[a] /\ k * f[a] = f[a] * k
      BY <3>2, MulMono
    <3>5. (i - 1) * k + j = n + j
      BY <3>2
    <3> HIDE DEF x, n
    <3>6. n + j \in Nat /\ 1 <= n + j /\ n + j <= f[a] * k
      BY <1>1, <3>3, <3>4
    <3>7. QED
      BY <1>3, <3>1, <3>5, <3>6
  <2> DEFINE val(z) == <<z[1][1], (z[1][2] - 1) * k + z[2]>>
  <2>2. cell = [z \in P |-> val(z)]
    OBVIOUS
  <2>3. \A z \in P : cell[z] = val(z)
    BY <2>2
  <2> HIDE DEF cell, P, val
  <2>4. \A z \in P : val(z) \in H
    BY <2>1, <2>3
  <2>5. QED
    BY <2>2, <2>4
<1>8. ASSUME NEW y \in P, NEW z \in P, cell[y] = cell[z] PROVE y = z
  <2>1. PICK a \in S, i \in Nat \ {0}, j \in 1 .. k :
          y = <<<<a, i>>, j>> /\ cell[y] = <<a, (i - 1) * k + j>>
    BY <1>6
  <2>2. PICK b \in S, p \in Nat \ {0}, q \in 1 .. k :
          z = <<<<b, p>>, q>> /\ cell[z] = <<b, (p - 1) * k + q>>
    BY <1>6
  <2>3. a = b /\ (i - 1) * k + j = (p - 1) * k + q
    BY <1>8, <2>1, <2>2
  <2>4. i = p /\ j = q
    BY <2>3, OneQuotient
  <2>5. QED
    BY <2>1, <2>2, <2>3, <2>4
<1>9. ASSUME NEW t \in H PROVE \E z \in P : cell[z] = t
  <2>1. PICK a \in S, n \in Nat : t = <<a, n>> /\ 1 <= n /\ n <= f[a] * k
    BY <1>3
  <2>2. k # 0
    <3>1. k = 0 => f[a] * k = 0
      BY <1>1
    <3>2. QED
      BY <2>1, <3>1
  <2> DEFINE x == (n - 1) \div k
  <2> DEFINE j == ((n - 1) % k) + 1
  <2>3. x \in Nat /\ j \in 1 .. k /\ n = k * x + j
    BY <2>1, <2>2
  <2>4. x + 1 <= f[a]
    <3>1. SUFFICES ASSUME f[a] <= x PROVE FALSE
      BY <1>1, <2>3
    <3>2. k * f[a] <= k * x /\ k * x \in Nat /\ k * f[a] = f[a] * k
      BY <1>1, <2>3, <3>1, MulMono, MulNat
    <3> HIDE DEF x, j
    <3>3. QED
      BY <1>1, <2>1, <2>3, <3>2
  <2> HIDE DEF x, j
  <2>5. <<a, x + 1>> \in F
    <3>1. x + 1 \in Nat /\ 1 <= x + 1
      BY <2>3
    <3>2. QED
      BY <1>3, <2>4, <3>1
  <2>6. <<<<a, x + 1>>, j>> \in P
    BY <2>3, <2>5
  <2>7. cell[<<<<a, x + 1>>, j>>] = <<a, ((x + 1) - 1) * k + j>>
    BY <2>6
  <2>8. ((x + 1) - 1) * k + j = n
    BY <2>3
  <2>9. QED
    BY <2>1, <2>6, <2>7, <2>8
<1>10. Cardinality(H) = Cardinality(P)
  <2> HIDE DEF cell, P
  <2>1. QED
    BY <1>5, <1>7, <1>8, <1>9, SameCount
<1>11. TotalOf(f) = Cardinality(F) /\ TotalOf(h) = Cardinality(H)
  <2>1. DOMAIN f = S /\ DOMAIN h = S
    BY <1>1
  <2>2. QED
    BY <2>1 DEF TotalOf, F, H
<1>12. QED
  BY <1>5, <1>10, <1>11 DEF h
=============================================================================
