--------------------------- MODULE LedgerProofs ---------------------------
(***************************************************************************)
(* Proofs about the ledger, for every log of rows.                         *)
(*                                                                         *)
(* The portfolio engine and the tax ledger replay a log by two programs.   *)
(* What they have in common is the line of shares in the order sales take  *)
(* them (SameLine): every operation moves that line alike, whether a lot   *)
(* is split into parts, raised, scaled or appended to.  By the table of    *)
(* the books after each row (Books, TaxBooks) both are in step after each  *)
(* row (InStep), adjusted lots are in front (Ordered), and what has been   *)
(* reported balances what is carried on (Settled).                         *)
(***************************************************************************)
EXTENDS Ledger, FiniteSetTheorems, TLAPS

\* A set of numbers has a least.
LEMMA LeastOf ==
  ASSUME NEW S \in SUBSET Nat, S # {}
  PROVE  \E m \in S : \A n \in S : m <= n
<1>1. PICK m \in S : \A n \in S : ~ (<<n, m>> \in OpToRel(<, Nat))
  BY NatLessThanWellFounded, WFMin
<1>2. \A n \in S : ~ (n < m)
  BY <1>1 DEF OpToRel
<1>3. QED
  BY <1>2

\* Induction up to m, for the set of the numbers that have a property.
LEMMA UpTo ==
  ASSUME NEW m \in Nat, NEW S, 0 \in S, \A k \in 1..m : k - 1 \in S => k \in S
  PROVE  \A k \in 0..m : k \in S
<1> DEFINE Out == {k \in 0..m : k \notin S}
<1>1. SUFFICES ASSUME Out # {} PROVE FALSE
  OBVIOUS
<1>2. PICK k \in Out : \A n \in Out : k <= n
  <2>1. Out \in SUBSET Nat
    OBVIOUS
  <2>2. QED
    BY <1>1, <2>1, LeastOf
<1>3. k \in 1..m /\ k - 1 \in 0..m /\ k - 1 \notin Out
  BY <1>2
<1>4. QED
  BY <1>2, <1>3

\* f is the table, up to n, of a recursion that starts at base.
IsTable(f, T, n, base, step) ==
  f \in [0..n -> T] /\ f[0] = base /\ \A k \in 1..n : f[k] = step[<<k, f[k - 1]>>]

\* Whatever step computes from T into T has a table of its iterates.
LEMMA TableOf ==
  ASSUME NEW T, NEW m \in Nat, NEW base \in T, NEW step,
         \A k \in 1..m, x \in T : step[<<k, x>>] \in T
  PROVE  \E f : IsTable(f, T, m, base, step)
<1> DEFINE S == {n \in 0..m : \E f : IsTable(f, T, n, base, step)}
<1>1. 0 \in S
  <2>1. IsTable([k \in 0..0 |-> base], T, 0, base, step)
    BY DEF IsTable
  <2>2. QED
    BY <2>1
<1>2. ASSUME NEW n \in 1..m, n - 1 \in S PROVE n \in S
  <2>1. PICK f : IsTable(f, T, n - 1, base, step)
    BY <1>2
  <2> DEFINE g == [k \in 0..n |-> IF k = n THEN step[<<n, f[n - 1]>>] ELSE f[k]]
  <2>2. n - 1 \in 0..(n - 1) /\ f[n - 1] \in T /\ \A k \in 0..(n - 1) : f[k] \in T
    BY <2>1 DEF IsTable
  <2>3. g \in [0..n -> T] /\ g[0] = base
    BY <2>1, <2>2 DEF IsTable
  <2>4. ASSUME NEW k \in 1..n PROVE g[k] = step[<<k, g[k - 1]>>]
    <3>1. k - 1 \in 0..n /\ k - 1 # n /\ g[k - 1] = f[k - 1] /\ k \in 0..n
      OBVIOUS
    <3>2. CASE k = n
      BY <3>1, <3>2
    <3>3. CASE k # n
      <4>1. k \in 1..(n - 1) /\ g[k] = f[k]
        BY <3>1, <3>3
      <4>2. QED
        BY <2>1, <3>1, <4>1 DEF IsTable
    <3>4. QED
      BY <3>2, <3>3
  <2>5. IsTable(g, T, n, base, step)
    BY <2>3, <2>4 DEF IsTable
  <2>6. QED
    BY <2>5
<1>3. m \in S
  <2> HIDE DEF S
  <2>1. QED
    BY <1>1, <1>2, UpTo
<1>4. QED
  BY <1>3

-----------------------------------------------------------------------------
(* Sums.                                                                    *)

\* The table of sums of a sequence of integers, as equations.
LEMMA SumsAre ==
  ASSUME NEW a \in Seq(Int)
  PROVE  /\ Sums(a)[0] = 0 /\ \A k \in 0..Len(a) : Sums(a)[k] \in Int
         /\ \A k \in 1..Len(a) :
               /\ Sums(a)[k] = Sums(a)[k - 1] + a[k]
               /\ a[k] \in Int /\ Sums(a)[k - 1] \in Int /\ Sums(a)[k] \in Int
<1> DEFINE m == Len(a)
           step == [p \in (1..m) \X Int |-> p[2] + a[p[1]]]
           IsSum(f) == f = [k \in 0..Len(a) |-> IF k = 0 THEN 0 ELSE f[k - 1] + a[k]]
<1>1. m \in Nat /\ \A k \in 1..m : a[k] \in Int
  OBVIOUS
<1>2. \A k \in 1..m, x \in Int : step[<<k, x>>] = x + a[k] /\ step[<<k, x>>] \in Int
  BY <1>1
<1>3. PICK f : IsTable(f, Int, m, 0, step)
  <2> HIDE DEF step, m
  <2>1. \A k \in 1..m, x \in Int : step[<<k, x>>] \in Int
    BY <1>2
  <2>2. m \in Nat /\ 0 \in Int
    BY <1>1
  <2>3. QED
    BY <2>1, <2>2, TableOf
<1>4. /\ f \in [0..m -> Int] /\ f[0] = 0
      /\ \A k \in 1..m : f[k] = f[k - 1] + a[k]
  <2>1. \A k \in 1..m : f[k - 1] \in Int
    BY <1>1, <1>3 DEF IsTable
  <2> HIDE DEF step
  <2>2. QED
    BY <1>2, <1>3, <2>1 DEF IsTable
<1>5. IsSum(f)
  BY <1>4
<1>6. Sums(a) = CHOOSE g : IsSum(g)
  BY DEF Sums
<1>7. IsSum(Sums(a))
  BY <1>5, <1>6
<1> DEFINE F == Sums(a)
<1>8. DOMAIN F = 0..m /\ F[0] = 0 /\ \A k \in 1..m : F[k] = F[k - 1] + a[k]
  BY <1>1, <1>7
<1>9. \A k \in 0..m : F[k] \in Int
  <2> DEFINE S == {k \in 0..m : F[k] \in Int}
  <2>1. 0 \in S
    BY <1>1, <1>8
  <2>2. \A k \in 1..m : k - 1 \in S => k \in S
    BY <1>1, <1>8
  <2>3. \A k \in 0..m : k \in S
    <3> HIDE DEF S, m
    <3>1. QED
      BY <1>1, <2>1, <2>2, UpTo
  <2>4. QED
    BY <2>3
<1>10. \A k \in 1..m : k - 1 \in 0..m /\ k \in 0..m
  BY <1>1
<1>11. QED
  BY <1>1, <1>8, <1>9, <1>10

\* Sums of the same amounts are the same, as far as they go.
LEMMA SumsAgree ==
  ASSUME NEW a \in Seq(Int), NEW b \in Seq(Int), NEW n \in Nat, n <= Len(a), n <= Len(b),
         \A i \in 1..n : a[i] = b[i]
  PROVE  \A k \in 0..n : Sums(a)[k] = Sums(b)[k]
<1> DEFINE S == {k \in 0..n : Sums(a)[k] = Sums(b)[k]}
<1>1. 0 \in S
  BY SumsAre
<1>2. ASSUME NEW k \in 1..n, k - 1 \in S PROVE k \in S
  <2>1. k \in 1..Len(a) /\ k \in 1..Len(b)
    OBVIOUS
  <2>2. Sums(a)[k] = Sums(a)[k - 1] + a[k] /\ Sums(b)[k] = Sums(b)[k - 1] + b[k]
    BY <2>1, SumsAre
  <2>3. QED
    BY <1>2, <2>2
<1>3. \A k \in 0..n : k \in S
  <2> HIDE DEF S
  <2>1. QED
    BY <1>1, <1>2, UpTo
<1>4. QED
  BY <1>3

\* No amount is negative: the sums are not, and grow.
LEMMA SumsGrow ==
  ASSUME NEW a \in Seq(Int), \A i \in 1..Len(a) : a[i] >= 0
  PROVE  \A k \in 0..Len(a) : \A j \in 0..k :
            Sums(a)[j] \in Nat /\ Sums(a)[k] \in Nat /\ Sums(a)[j] <= Sums(a)[k]
<1> DEFINE S == {k \in 0..Len(a) : \A j \in 0..k :
                    Sums(a)[j] \in Nat /\ Sums(a)[k] \in Nat /\ Sums(a)[j] <= Sums(a)[k]}
<1>0. Len(a) \in Nat
  OBVIOUS
<1>1. 0 \in S
  BY SumsAre
<1>2. ASSUME NEW k \in 1..Len(a), k - 1 \in S PROVE k \in S
  <2>1. Sums(a)[k] = Sums(a)[k - 1] + a[k] /\ a[k] \in Nat
    BY SumsAre
  <2>2. k - 1 \in 0..(k - 1) /\ Sums(a)[k - 1] \in Nat
    BY <1>2
  <2>3. \A j \in 0..k : j = k \/ j \in 0..(k - 1)
    OBVIOUS
  <2>4. QED
    BY <1>2, <2>1, <2>2, <2>3
<1>3. \A k \in 0..Len(a) : k \in S
  <2> HIDE DEF S
  <2>1. QED
    BY <1>0, <1>1, <1>2, UpTo
<1>4. QED
  BY <1>3

\* Sums of pointwise sums.
LEMMA SumsAdd ==
  ASSUME NEW a \in Seq(Int), NEW b \in Seq(Int), NEW c \in Seq(Int),
         Len(b) = Len(a), Len(c) = Len(a),
         \A i \in 1..Len(a) : c[i] = a[i] + b[i]
  PROVE  \A k \in 0..Len(a) : Sums(c)[k] = Sums(a)[k] + Sums(b)[k]
<1> DEFINE S == {k \in 0..Len(a) : Sums(c)[k] = Sums(a)[k] + Sums(b)[k]}
<1>0. Len(a) \in Nat
  OBVIOUS
<1>1. 0 \in S
  BY SumsAre
<1>2. ASSUME NEW k \in 1..Len(a), k - 1 \in S PROVE k \in S
  <2>1. /\ Sums(a)[k] = Sums(a)[k - 1] + a[k] /\ Sums(b)[k] = Sums(b)[k - 1] + b[k]
        /\ Sums(c)[k] = Sums(c)[k - 1] + c[k] /\ a[k] \in Int /\ b[k] \in Int
        /\ Sums(a)[k - 1] \in Int /\ Sums(b)[k - 1] \in Int
    BY SumsAre
  <2>2. Sums(c)[k - 1] = Sums(a)[k - 1] + Sums(b)[k - 1] /\ c[k] = a[k] + b[k]
    BY <1>2
  <2>3. Sums(c)[k] = Sums(a)[k] + Sums(b)[k]
    BY <2>1, <2>2
  <2>4. QED
    BY <2>3
<1>3. \A k \in 0..Len(a) : k \in S
  <2> HIDE DEF S
  <2>1. QED
    BY <1>0, <1>1, <1>2, UpTo
<1>4. QED
  BY <1>3

\* Scaling the amounts scales their sums.
LEMMA SumsScale ==
  ASSUME NEW a \in Seq(Int), NEW b \in Seq(Int), NEW r \in Int,
         Len(b) = Len(a), \A i \in 1..Len(a) : b[i] = a[i] * r
  PROVE  \A k \in 0..Len(a) : Sums(b)[k] = Sums(a)[k] * r
<1> DEFINE S == {k \in 0..Len(a) : Sums(b)[k] = Sums(a)[k] * r}
<1>0. Len(a) \in Nat
  OBVIOUS
<1>1. 0 \in S
  BY SumsAre
<1>2. ASSUME NEW k \in 1..Len(a), k - 1 \in S PROVE k \in S
  <2>1. /\ Sums(a)[k] = Sums(a)[k - 1] + a[k] /\ Sums(b)[k] = Sums(b)[k - 1] + b[k]
        /\ a[k] \in Int /\ Sums(a)[k - 1] \in Int
    BY SumsAre
  <2>2. \A x \in Int, y \in Int : (x + y) * r = x * r + y * r
    OBVIOUS
  <2>3. Sums(b)[k - 1] = Sums(a)[k - 1] * r /\ b[k] = a[k] * r
    BY <1>2
  <2>4. Sums(b)[k] = (Sums(a)[k - 1] + a[k]) * r
    BY <2>1, <2>2, <2>3
  <2>5. QED
    BY <2>1, <2>4
<1>3. \A k \in 0..Len(a) : k \in S
  <2> HIDE DEF S
  <2>1. QED
    BY <1>0, <1>1, <1>2, UpTo
<1>4. QED
  BY <1>3

\* The sums along two sequences, one behind the other.
LEMMA SumsConcat ==
  ASSUME NEW a \in Seq(Int), NEW b \in Seq(Int)
  PROVE  /\ \A k \in 0..Len(a) : Sums(a \o b)[k] = Sums(a)[k]
         /\ \A k \in 0..Len(b) : Sums(a \o b)[Len(a) + k] = Total(a) + Sums(b)[k]
         /\ Total(a \o b) = Total(a) + Total(b)
<1> DEFINE c == a \o b
           m == Len(a)
           S == {k \in 0..Len(b) : Sums(c)[m + k] = Sums(a)[m] + Sums(b)[k]}
<1>0. /\ c \in Seq(Int) /\ Len(c) = m + Len(b) /\ m \in Nat /\ Len(b) \in Nat
      /\ \A k \in 1..m : c[k] = a[k]
      /\ \A k \in 1..Len(b) : c[m + k] = b[k]
  OBVIOUS
<1> HIDE DEF c
<1>1. \A k \in 0..m : Sums(c)[k] = Sums(a)[k]
  <2>1. m = Len(a) /\ m \in Nat /\ Len(c) = m + Len(b) /\ Len(b) \in Nat /\ c \in Seq(Int)
    BY <1>0
  <2>2. \A i \in 1..m : a[i] = c[i]
    BY <1>0
  <2> HIDE DEF m
  <2>3. m <= Len(a) /\ m <= Len(c)
    BY <2>1
  <2>4. \A k \in 0..m : Sums(a)[k] = Sums(c)[k]
    BY <2>1, <2>2, <2>3, SumsAgree
  <2>5. QED
    BY <2>4
<1>2. 0 \in S
  <2>1. m + 0 = m /\ m \in 0..m /\ 0 \in 0..Len(b)
    BY <1>0
  <2>2. Sums(c)[m + 0] = Sums(a)[m] /\ Sums(b)[0] = 0 /\ Sums(a)[m] \in Int
    BY <1>1, <2>1, SumsAre
  <2>3. QED
    BY <2>1, <2>2
<1>3. ASSUME NEW k \in 1..Len(b), k - 1 \in S PROVE k \in S
  <2>1. m + k \in 1..Len(c) /\ (m + k) - 1 = m + (k - 1)
    BY <1>0
  <2>2. /\ Sums(c)[m + k] = Sums(c)[m + (k - 1)] + c[m + k] /\ Sums(b)[k] = Sums(b)[k - 1] + b[k]
        /\ b[k] \in Int /\ Sums(a)[m] \in Int /\ Sums(b)[k - 1] \in Int
    <3>1. Sums(c)[m + k] = Sums(c)[m + (k - 1)] + c[m + k]
      BY <1>0, <2>1, SumsAre
    <3>2. Sums(b)[k] = Sums(b)[k - 1] + b[k] /\ b[k] \in Int /\ Sums(b)[k - 1] \in Int
      BY SumsAre
    <3>3. m \in 0..Len(a)
      BY <1>0
    <3>4. QED
      BY <3>1, <3>2, <3>3, SumsAre
  <2>3. c[m + k] = b[k]
    BY <1>0
  <2>4. QED
    BY <1>3, <2>2, <2>3
<1>4. \A k \in 0..Len(b) : k \in S
  <2> HIDE DEF S
  <2>1. QED
    BY <1>0, <1>2, <1>3, UpTo
<1>5. Len(b) \in 0..Len(b) /\ Len(c) = m + Len(b)
  BY <1>0
<1>6. QED
  BY <1>1, <1>4, <1>5 DEF c, Total

\* One more amount adds to the total.
LEMMA TotalAppend ==
  ASSUME NEW a \in Seq(Int), NEW x \in Int
  PROVE  Append(a, x) \in Seq(Int) /\ Total(Append(a, x)) = Total(a) + x
<1> DEFINE c == Append(a, x)
<1>1. /\ c \in Seq(Int) /\ Len(c) = Len(a) + 1 /\ Len(a) \in Nat /\ c[Len(c)] = x
      /\ \A i \in 1..Len(a) : c[i] = a[i]
  OBVIOUS
<1> HIDE DEF c
<1>2. Sums(c)[Len(a)] = Sums(a)[Len(a)]
  <2> DEFINE n == Len(a)
  <2>1. /\ n \in Nat /\ n <= Len(a) /\ n <= Len(c) /\ n \in 0..n
        /\ \A i \in 1..n : a[i] = c[i]
    BY <1>1
  <2> HIDE DEF n
  <2>2. \A k \in 0..n : Sums(a)[k] = Sums(c)[k]
    BY <1>1, <2>1, SumsAgree
  <2>3. QED
    BY <2>1, <2>2 DEF n
<1>3. Sums(c)[Len(c)] = Sums(c)[Len(c) - 1] + c[Len(c)] /\ Len(c) - 1 = Len(a)
  BY <1>1, SumsAre
<1>4. QED
  BY <1>1, <1>2, <1>3 DEF Total, c

\* f is the table of Chosen's recursion: the elements chosen among the first k.
Picks(f, s, S, T) ==
  /\ \A k \in 0..Len(s) : f[k] \in Seq(T)
  /\ f[0] = <<>>
  /\ \A k \in 1..Len(s) :
        f[k - 1] \in Seq(T) /\ f[k] = IF k \in S THEN Append(f[k - 1], s[k]) ELSE f[k - 1]

\* Chosen is the last entry of the table of what is chosen of each beginning.
LEMMA ChosenIs ==
  ASSUME NEW T, NEW s \in Seq(T), NEW S
  PROVE  /\ \E f : Picks(f, s, S, T) /\ Chosen(s, S) = f[Len(s)]
         /\ Chosen(s, S) \in Seq(T)
<1> DEFINE m == Len(s)
           none == <<>>
           next(k, x) == IF k \in S THEN Append(x, s[k]) ELSE x
           step == [p \in (1..m) \X Seq(T) |-> next(p[1], p[2])]
           Is(f) == f = [k \in 0..m |-> IF k = 0 THEN none ELSE next(k, f[k - 1])]
           F == CHOOSE f : Is(f)
<1>1. m \in Nat /\ none \in Seq(T) /\ \A k \in 1..m : k - 1 \in 0..m
  OBVIOUS
<1>2. \A k \in 1..m, x \in Seq(T) : next(k, x) \in Seq(T)
  OBVIOUS
<1>3. Chosen(s, S) = F[m]
  BY DEF Chosen
<1> HIDE DEF none, next
<1>4. PICK f : IsTable(f, Seq(T), m, none, step)
  <2>1. \A k \in 1..m, x \in Seq(T) : step[<<k, x>>] \in Seq(T)
    BY <1>2
  <2> HIDE DEF step, m
  <2>2. QED
    BY <1>1, <2>1, TableOf
<1>5. /\ f \in [0..m -> Seq(T)] /\ f[0] = none
      /\ \A k \in 1..m : f[k] = next(k, f[k - 1])
  <2>1. \A k \in 1..m : f[k - 1] \in Seq(T)
    BY <1>1, <1>4 DEF IsTable
  <2>2. \A k \in 1..m : step[<<k, f[k - 1]>>] = next(k, f[k - 1])
    BY <2>1
  <2> HIDE DEF step
  <2>3. QED
    BY <1>4, <2>2 DEF IsTable
<1>6. Is(f)
  BY <1>5
<1>7. Is(F)
  BY <1>6
<1> HIDE DEF F
<1>8. F[0] = none /\ \A k \in 1..m : F[k] = next(k, F[k - 1])
  BY <1>1, <1>7
<1>9. \A k \in 0..m : F[k] \in Seq(T)
  <2> DEFINE G == {k \in 0..m : F[k] \in Seq(T)}
  <2>1. 0 \in G
    BY <1>1, <1>8
  <2>2. \A k \in 1..m : k - 1 \in G => k \in G
    BY <1>1, <1>2, <1>8
  <2>3. \A k \in 0..m : k \in G
    <3> HIDE DEF G, m
    <3>1. QED
      BY <1>1, <2>1, <2>2, UpTo
  <2>4. QED
    BY <2>3
<1>10. m \in 0..m
  BY <1>1
<1>11. Picks(F, s, S, T)
  BY <1>1, <1>8, <1>9 DEF Picks, none, next
<1>12. QED
  BY <1>3, <1>9, <1>10, <1>11

\* A sum along the chosen elements: those not chosen count for nothing.
LEMMA ChosenTotal ==
  ASSUME NEW T, NEW s \in Seq(T), NEW S, NEW w \in [T -> Int]
  PROVE  Total([j \in DOMAIN Chosen(s, S) |-> w[Chosen(s, S)[j]]])
           = Total([i \in DOMAIN s |-> IF i \in S THEN w[s[i]] ELSE 0])
<1> DEFINE m == Len(s)
           a == [i \in DOMAIN s |-> IF i \in S THEN w[s[i]] ELSE 0]
           b(r) == [j \in DOMAIN r |-> w[r[j]]]
<1>1. PICK f : Picks(f, s, S, T) /\ Chosen(s, S) = f[Len(s)]
  BY ChosenIs
<1>2. m \in Nat /\ a \in Seq(Int) /\ Len(a) = m /\ \A i \in 1..m : s[i] \in T
  OBVIOUS
<1>3. \A r \in Seq(T) : b(r) \in Seq(Int) /\ Len(b(r)) = Len(r)
  OBVIOUS
<1> DEFINE G == {k \in 0..m : Total(b(f[k])) = Sums(a)[k]}
<1>3a. b(<<>>) = <<>>
  OBVIOUS
<1>3b. ASSUME NEW r \in Seq(T), NEW x \in T PROVE b(Append(r, x)) = Append(b(r), w[x])
  OBVIOUS
<1> HIDE DEF b
<1>4. 0 \in G
  <2>1. f[0] = <<>> /\ b(<<>>) = <<>> /\ <<>> \in Seq(Int) /\ Len(<<>>) = 0
    BY <1>1, <1>2, <1>3a DEF Picks
  <2>2. Total(<<>>) = 0 /\ Sums(a)[0] = 0
    BY <1>2, <2>1, SumsAre DEF Total
  <2>3. QED
    BY <1>2, <2>1, <2>2
<1>5. ASSUME NEW k \in 1..m, k - 1 \in G PROVE k \in G
  <2>1. f[k - 1] \in Seq(T) /\ f[k] = IF k \in S THEN Append(f[k - 1], s[k]) ELSE f[k - 1]
    BY <1>1, <1>2 DEF Picks
  <2>2. Sums(a)[k] = Sums(a)[k - 1] + a[k] /\ Sums(a)[k - 1] \in Int
    BY <1>2, SumsAre
  <2>3. CASE k \in S
    <3>1. b(f[k]) = Append(b(f[k - 1]), w[s[k]])
      BY <1>2, <1>3b, <2>1, <2>3
    <3>2. w[s[k]] \in Int /\ a[k] = w[s[k]]
      BY <1>2, <2>3
    <3>3. Total(b(f[k])) = Total(b(f[k - 1])) + w[s[k]]
      BY <1>3, <2>1, <3>1, <3>2, TotalAppend
    <3>4. QED
      BY <1>5, <2>2, <3>2, <3>3
  <2>4. CASE k \notin S
    BY <1>5, <2>1, <2>2, <2>4
  <2>5. QED
    BY <2>3, <2>4
<1>6. \A k \in 0..m : k \in G
  <2> HIDE DEF G, m
  <2>1. QED
    BY <1>2, <1>4, <1>5, UpTo
<1>7. m \in 0..m
  BY <1>2
<1>8. Total(b(f[m])) = Sums(a)[m]
  BY <1>6, <1>7
<1>9. Total(a) = Sums(a)[m]
  BY <1>2 DEF Total
<1>10. Total(b(Chosen(s, S))) = Total(a)
  BY <1>1, <1>8, <1>9
<1>11. QED
  BY <1>10 DEF b

\* What the elements of a sequence weigh.
Weights(w, s) == [i \in DOMAIN s |-> w[s[i]]]

\* What the elements of a sequence weigh, one by one.
LEMMA WeightsAre ==
  ASSUME NEW T, NEW s \in Seq(T), NEW w \in [T -> Int]
  PROVE  /\ Weights(w, s) \in Seq(Int) /\ Len(Weights(w, s)) = Len(s)
         /\ \A i \in 1..Len(s) : Weights(w, s)[i] = w[s[i]]
         /\ \A x \in T : Weights(w, Append(s, x)) = Append(Weights(w, s), w[x])
  BY DEF Weights

\* When only elements without weight are left out, the others keep their place in
\* the sums.
LEMMA ChosenPlaces ==
  ASSUME NEW T, NEW s \in Seq(T), NEW S, NEW w \in [T -> Nat],
         \A i \in 1..Len(s) : i \notin S => w[s[i]] = 0
  PROVE  /\ Total(Weights(w, Chosen(s, S))) = Total(Weights(w, s))
         /\ \A i \in 1..Len(s) : w[s[i]] > 0 =>
               \E j \in 1..Len(Chosen(s, S)) :
                  /\ Chosen(s, S)[j] = s[i]
                  /\ Sums(Weights(w, Chosen(s, S)))[j - 1] = Sums(Weights(w, s))[i - 1]
                  /\ Sums(Weights(w, Chosen(s, S)))[j] = Sums(Weights(w, s))[i]
<1> DEFINE m == Len(s)
           a == Weights(w, s)
           At(r, i) == \E j \in 1..Len(r) :
                          /\ r[j] = s[i]
                          /\ Sums(Weights(w, r))[j - 1] = Sums(a)[i - 1]
                          /\ Sums(Weights(w, r))[j] = Sums(a)[i]
<1>0. w \in [T -> Int]
  OBVIOUS
<1>1. PICK f : Picks(f, s, S, T) /\ Chosen(s, S) = f[Len(s)]
  BY ChosenIs
<1>2. m \in Nat /\ a \in Seq(Int) /\ Len(a) = m /\ \A i \in 1..m : s[i] \in T /\ a[i] = w[s[i]]
  BY <1>0, WeightsAre
<1>3. \A r \in Seq(T) : Weights(w, r) \in Seq(Int) /\ Len(Weights(w, r)) = Len(r)
  BY <1>0, WeightsAre
<1> DEFINE G == {k \in 0..m : /\ Total(Weights(w, f[k])) = Sums(a)[k]
                              /\ \A i \in 1..k : w[s[i]] > 0 => At(f[k], i)}
<1>4. 0 \in G
  <2>1. f[0] = <<>> /\ Weights(w, <<>>) = <<>> /\ <<>> \in Seq(Int) /\ Len(<<>>) = 0
    BY <1>1, <1>2 DEF Picks, Weights
  <2>2. Total(<<>>) = 0 /\ Sums(a)[0] = 0
    BY <1>2, <2>1, SumsAre DEF Total
  <2>3. QED
    BY <1>2, <2>1, <2>2
<1>5. ASSUME NEW k \in 1..m, k - 1 \in G PROVE k \in G
  <2> DEFINE old == f[k - 1]
             new == f[k]
  <2>1. old \in Seq(T) /\ new = IF k \in S THEN Append(old, s[k]) ELSE old
    BY <1>1, <1>2 DEF Picks
  <2>2. Sums(a)[k] = Sums(a)[k - 1] + a[k] /\ Sums(a)[k - 1] \in Int /\ a[k] = w[s[k]]
    BY <1>2, SumsAre
  <2>2a. /\ Total(Weights(w, old)) = Sums(a)[k - 1]
         /\ \A i \in 1..(k - 1) : w[s[i]] > 0 => At(old, i)
    BY <1>5
  <2>3. CASE k \in S
    <3> DEFINE b == Weights(w, old)
               c == Weights(w, new)
               n == Len(old)
    <3>1. new = Append(old, s[k]) /\ s[k] \in T /\ w[s[k]] \in Int
      BY <1>0, <1>2, <2>1, <2>3
    <3>2. /\ c = Append(b, w[s[k]]) /\ b \in Seq(Int) /\ Len(b) = n
          /\ n \in Nat /\ Len(new) = n + 1 /\ new[n + 1] = s[k] /\ \A j \in 1..n : new[j] = old[j]
      <4>1. c = Append(b, w[s[k]]) /\ b \in Seq(Int) /\ Len(b) = n
        <5> HIDE DEF old, new
        <5>1. old \in Seq(T) /\ s[k] \in T
          BY <2>1, <3>1
        <5>2. QED
          BY <1>0, <3>1, <5>1, WeightsAre
      <4>2. QED
        BY <2>1, <3>1, <4>1
    <3>3. c \in Seq(Int) /\ Total(c) = Total(b) + w[s[k]]
      BY <3>1, <3>2, TotalAppend
    <3>4. Len(c) = n + 1 /\ \A j \in 1..n : b[j] = c[j]
      BY <3>1, <3>2
    <3> HIDE DEF b, c, n, old, new
    <3>5. \A j \in 0..n : Sums(b)[j] = Sums(c)[j]
      <4>1. n <= Len(b) /\ n <= Len(c)
        BY <3>2, <3>4
      <4>2. QED
        BY <3>2, <3>3, <3>4, <4>1, SumsAgree
    <3>6. Sums(c)[n + 1] = Total(c) /\ Sums(c)[n] = Total(b)
      BY <3>2, <3>4, <3>5 DEF Total
    <3>7. Total(c) = Sums(a)[k]
      BY <2>2, <2>2a, <3>3 DEF b
    <3>8. At(new, k)
      <4>1. n + 1 \in 1..Len(new) /\ (n + 1) - 1 = n
        BY <3>2
      <4>2. new[n + 1] = s[k] /\ Sums(c)[(n + 1) - 1] = Sums(a)[k - 1] /\ Sums(c)[n + 1] = Sums(a)[k]
        BY <2>2a, <3>2, <3>6, <3>7, <4>1 DEF b
      <4>3. QED
        BY <4>1, <4>2 DEF c
    <3>9. ASSUME NEW i \in 1..(k - 1), w[s[i]] > 0 PROVE At(new, i)
      <4>1. PICK j \in 1..n : /\ old[j] = s[i]
                              /\ Sums(b)[j - 1] = Sums(a)[i - 1] /\ Sums(b)[j] = Sums(a)[i]
        BY <2>2a, <3>9 DEF b, n
      <4>2. j \in 0..n /\ j - 1 \in 0..n /\ j \in 1..Len(new)
        BY <3>2
      <4>3. new[j] = s[i] /\ Sums(c)[j - 1] = Sums(a)[i - 1] /\ Sums(c)[j] = Sums(a)[i]
        BY <3>2, <3>5, <4>1, <4>2
      <4>4. QED
        BY <4>2, <4>3 DEF c
    <3>10. \A i \in 1..k : i = k \/ i \in 1..(k - 1)
      OBVIOUS
    <3>11. Total(Weights(w, f[k])) = Sums(a)[k] /\ \A i \in 1..k : w[s[i]] > 0 => At(f[k], i)
      <4> HIDE DEF At
      <4>1. QED
        BY <3>7, <3>8, <3>9, <3>10 DEF c, new
    <3>12. QED
      BY <3>11
  <2>4. CASE k \notin S
    <3>1. new = old /\ w[s[k]] = 0
      BY <2>1, <2>4
    <3>2. Sums(a)[k] = Sums(a)[k - 1]
      BY <2>2, <3>1
    <3>3. \A i \in 1..k : w[s[i]] > 0 => i \in 1..(k - 1)
      BY <3>1
    <3> HIDE DEF At
    <3>4. QED
      BY <2>2a, <3>1, <3>2, <3>3
  <2>5. QED
    BY <2>3, <2>4
<1>6. \A k \in 0..m : k \in G
  <2> HIDE DEF G, m
  <2>1. QED
    BY <1>2, <1>4, <1>5, UpTo
<1>7. m \in 0..m /\ Total(a) = Sums(a)[m]
  BY <1>2 DEF Total
<1>8. m \in G
  BY <1>6, <1>7
<1>9. QED
  BY <1>1, <1>7, <1>8

\* The chosen elements come from places of their own, in their order.
LEMMA ChosenFrom ==
  ASSUME NEW T, NEW s \in Seq(T), NEW S
  PROVE  \E at \in [1..Len(Chosen(s, S)) -> 1..Len(s)] :
            /\ \A j \in 1..Len(Chosen(s, S)) : at[j] \in S /\ Chosen(s, S)[j] = s[at[j]]
            /\ \A j, l \in 1..Len(Chosen(s, S)) : j < l => at[j] < at[l]
            /\ \A i \in 1..Len(s) : i \in S => \E j \in 1..Len(Chosen(s, S)) : at[j] = i
<1> DEFINE m == Len(s)
           From(at, r, k) ==
              /\ at \in [1..Len(r) -> 1..k]
              /\ \A j \in 1..Len(r) : at[j] \in S /\ r[j] = s[at[j]]
              /\ \A j, l \in 1..Len(r) : j < l => at[j] < at[l]
              /\ \A i \in 1..k : i \in S => \E j \in 1..Len(r) : at[j] = i
<1>1. PICK f : Picks(f, s, S, T) /\ Chosen(s, S) = f[Len(s)]
  BY ChosenIs
<1>2. m \in Nat /\ \A i \in 1..m : s[i] \in T
  OBVIOUS
<1> DEFINE G == {k \in 0..m : \E at : From(at, f[k], k)}
<1>3. 0 \in G
  <2>1. f[0] = <<>> /\ Len(f[0]) = 0
    BY <1>1, <1>2 DEF Picks
  <2>2. From([j \in 1..0 |-> 0], f[0], 0)
    BY <2>1
  <2> HIDE DEF From
  <2>3. QED
    BY <1>2, <2>2
<1>4. ASSUME NEW k \in 1..m, k - 1 \in G PROVE k \in G
  <2> DEFINE old == f[k - 1]
             new == f[k]
             n   == Len(old)
  <2>1. old \in Seq(T) /\ new = IF k \in S THEN Append(old, s[k]) ELSE old
    BY <1>1, <1>2 DEF Picks
  <2>2. PICK at : From(at, old, k - 1)
    BY <1>4
  <2>3. n \in Nat
    BY <2>1
  <2>4. CASE k \in S
    <3> DEFINE to == [j \in 1..(n + 1) |-> IF j = n + 1 THEN k ELSE at[j]]
    <3>1. Len(new) = n + 1 /\ new[n + 1] = s[k] /\ \A j \in 1..n : new[j] = old[j]
      BY <1>2, <2>1, <2>4
    <3> HIDE DEF old, new, n
    <3>2. /\ at \in [1..n -> 1..(k - 1)]
          /\ \A j \in 1..n : at[j] \in S /\ old[j] = s[at[j]]
          /\ \A j, l \in 1..n : j < l => at[j] < at[l]
          /\ \A i \in 1..(k - 1) : i \in S => \E j \in 1..n : at[j] = i
      BY <2>2 DEF n
    <3>3. \A j \in 1..(n + 1) : j = n + 1 \/ (j \in 1..n /\ j # n + 1)
      BY <2>3
    <3>4. to \in [1..(n + 1) -> 1..k]
      BY <2>3, <3>2, <3>3
    <3>5. to[n + 1] = k /\ \A j \in 1..n : to[j] = at[j] /\ at[j] < k
      BY <2>3, <3>2
    <3>6. \A j \in 1..(n + 1) : to[j] \in S /\ new[j] = s[to[j]]
      BY <2>4, <3>1, <3>2, <3>3, <3>5
    <3>7. \A j, l \in 1..(n + 1) : j < l => to[j] < to[l]
      BY <2>3, <3>2, <3>3, <3>5
    <3>8. \A i \in 1..k : i \in S => \E j \in 1..(n + 1) : to[j] = i
      <4>1. \A i \in 1..k : i = k \/ i \in 1..(k - 1)
        OBVIOUS
      <4>2. n + 1 \in 1..(n + 1) /\ \A j \in 1..n : j \in 1..(n + 1)
        BY <2>3
      <4> HIDE DEF to
      <4>3. QED
        BY <3>2, <3>5, <4>1, <4>2
    <3>9. From(to, new, k)
      BY <3>1, <3>4, <3>6, <3>7, <3>8
    <3> HIDE DEF From, to
    <3>10. QED
      BY <3>9 DEF new
  <2>5. CASE k \notin S
    <3>1. new = old
      BY <2>1, <2>5
    <3>2. From(at, old, k)
      BY <2>2, <2>5
    <3> HIDE DEF From
    <3>3. QED
      BY <3>1, <3>2
  <2>6. QED
    BY <2>4, <2>5
<1>5. \A k \in 0..m : k \in G
  <2> HIDE DEF G, m
  <2>1. QED
    BY <1>2, <1>3, <1>4, UpTo
<1>5a. m \in G
  <2>1. m \in 0..m
    BY <1>2
  <2> HIDE DEF G
  <2>2. QED
    BY <1>5, <2>1
<1>6. PICK at : From(at, f[m], m)
  <2> HIDE DEF From
  <2>1. QED
    BY <1>5a
<1>7. QED
  BY <1>1, <1>6

\* R is a strict total order on S: what an instance of Before or of a sort is.
StrictOrder(S, R) ==
  /\ \A i \in S : <<i, i>> \notin R
  /\ \A i, j, k \in S : <<i, j>> \in R /\ <<j, k>> \in R => <<i, k>> \in R
  /\ \A i, j \in S : i # j => <<i, j>> \in R \/ <<j, i>> \in R

Rank(S, R, i) == Cardinality({j \in S : <<j, i>> \in R})

\* Under a strict total order each rank is taken once.
LEMMA Ranks ==
  ASSUME NEW S, IsFiniteSet(S), NEW R, StrictOrder(S, R)
  PROVE  /\ Cardinality(S) \in Nat
         /\ \A i \in S : Rank(S, R, i) \in 0..(Cardinality(S) - 1)
         /\ \A i, j \in S : <<i, j>> \in R <=> Rank(S, R, i) < Rank(S, R, j)
         /\ \A i, j \in S : Rank(S, R, i) = Rank(S, R, j) => i = j
         /\ \A k \in 0..(Cardinality(S) - 1) : \E i \in S : Rank(S, R, i) = k
<1> DEFINE n == Cardinality(S)
           B(i) == {j \in S : <<j, i>> \in R}
           c(i) == Rank(S, R, i)
<1>1. n \in Nat
  BY FS_CardinalityType
<1>2. ASSUME NEW i \in S PROVE IsFiniteSet(B(i)) /\ c(i) \in 0..(n - 1)
  <2>1. B(i) \in SUBSET S /\ i \notin B(i) /\ B(i) # S
    BY DEF StrictOrder
  <2>2. IsFiniteSet(B(i)) /\ Cardinality(B(i)) <= n /\ Cardinality(B(i)) # n
    BY <2>1, FS_Subset
  <2>3. Cardinality(B(i)) \in Nat
    BY <2>2, FS_CardinalityType
  <2>4. QED
    BY <1>1, <2>2, <2>3 DEF Rank
<1>a. \A i \in S : IsFiniteSet(B(i)) /\ c(i) \in Nat
  <2> TAKE i \in S
  <2>1. c(i) \in 0..(n - 1) /\ IsFiniteSet(B(i))
    BY <1>2
  <2> HIDE DEF B, c, n
  <2>2. QED
    BY <1>1, <2>1
<1>3. ASSUME NEW i \in S, NEW j \in S, <<i, j>> \in R PROVE c(i) < c(j)
  <2>1. B(i) \in SUBSET B(j) /\ i \in B(j) /\ i \notin B(i)
    BY <1>3 DEF StrictOrder
  <2>2. IsFiniteSet(B(j)) /\ c(i) \in Nat /\ c(j) \in Nat
    BY <1>a
  <2>3. Cardinality(B(i)) <= Cardinality(B(j)) /\ Cardinality(B(i)) # Cardinality(B(j))
    BY <2>1, <2>2, FS_Subset
  <2>4. QED
    BY <2>2, <2>3 DEF Rank
<1>4. \A i, j \in S : <<i, j>> \in R <=> c(i) < c(j)
  <2>1. SUFFICES ASSUME NEW i \in S, NEW j \in S, c(i) < c(j) PROVE <<i, j>> \in R
    BY <1>3
  <2>2. c(i) \in Nat /\ c(j) \in Nat
    BY <1>a
  <2>3. i # j /\ <<j, i>> \notin R
    BY <1>3, <2>1, <2>2
  <2>4. QED
    BY <2>3 DEF StrictOrder
<1>5. \A i, j \in S : c(i) = c(j) => i = j
  <2>1. SUFFICES ASSUME NEW i \in S, NEW j \in S, c(i) = c(j), i # j PROVE FALSE
    OBVIOUS
  <2>2. c(i) \in Nat /\ c(j) \in Nat
    BY <1>a
  <2>3. c(i) < c(j) \/ c(j) < c(i)
    BY <1>4, <2>1 DEF StrictOrder
  <2>4. QED
    BY <2>1, <2>2, <2>3
<1>6. \A k \in 0..(n - 1) : \E i \in S : c(i) = k
  <2> DEFINE f == [i \in S |-> c(i)]
             K == 0..(n - 1)
  <2>1. f \in Injection(S, K)
    BY <1>2, <1>5 DEF Injection, IsInjective
  <2>2. IsFiniteSet(K) /\ Cardinality(K) = n
    <3>1. 0 \in Int /\ n - 1 \in Int /\ (n - 1) - 0 + 1 = n /\ (0 > n - 1 => n = 0)
      BY <1>1
    <3> HIDE DEF n
    <3>2. QED
      BY <3>1, FS_Interval
  <2>3. f \in Surjection(S, K)
    <3> HIDE DEF f, K
    <3>1. QED
      BY <2>1, <2>2, FS_Injection DEF n
  <2>4. QED
    BY <2>3 DEF Surjection
<1>7. QED
  BY <1>1, <1>2, <1>4, <1>5, <1>6

\* What a strict total order puts in line comes once each, in that order.
LEMMA LineIs ==
  ASSUME NEW S, IsFiniteSet(S), NEW R, StrictOrder(S, R)
  PROVE  /\ Cardinality(S) \in Nat
         /\ InLine(S, R) \in [1..Cardinality(S) -> S]
         /\ \A k, l \in 1..Cardinality(S) : k < l <=> <<InLine(S, R)[k], InLine(S, R)[l]>> \in R
         /\ \A k, l \in 1..Cardinality(S) : InLine(S, R)[k] = InLine(S, R)[l] => k = l
         /\ \A i \in S : \E k \in 1..Cardinality(S) : InLine(S, R)[k] = i
<1> DEFINE n == Cardinality(S)
           L == InLine(S, R)
           ranked == {[rank |-> Rank(S, R, i), elem |-> i] : i \in S}
           at(k) == (CHOOSE r \in ranked : r.rank = k - 1).elem
<1>1. L = [k \in 1..n |-> at(k)]
  BY DEF InLine, Rank
<1>2. /\ n \in Nat
      /\ \A i \in S : Rank(S, R, i) \in 0..(n - 1)
      /\ \A i, j \in S : <<i, j>> \in R <=> Rank(S, R, i) < Rank(S, R, j)
      /\ \A i, j \in S : Rank(S, R, i) = Rank(S, R, j) => i = j
      /\ \A k \in 0..(n - 1) : \E i \in S : Rank(S, R, i) = k
  BY Ranks
<1>3. ASSUME NEW k \in 1..n PROVE at(k) \in S /\ Rank(S, R, at(k)) = k - 1
  <2>1. k - 1 \in 0..(n - 1)
    BY <1>2
  <2>2. PICK i \in S : Rank(S, R, i) = k - 1
    BY <1>2, <2>1
  <2>3. [rank |-> Rank(S, R, i), elem |-> i] \in ranked
    OBVIOUS
  <2>4. \E r \in ranked : r.rank = k - 1
    BY <2>2, <2>3
  <2>5. PICK r \in ranked : r.rank = k - 1 /\ at(k) = r.elem
    BY <2>4
  <2>6. QED
    BY <2>5
<1> HIDE DEF at, ranked
<1>4. \A k \in 1..n : L[k] \in S /\ Rank(S, R, L[k]) = k - 1
  BY <1>1, <1>3
<1>5. L \in [1..n -> S]
  BY <1>1, <1>3
<1> HIDE DEF L, n
<1>6. \A k, l \in 1..n : k < l <=> <<L[k], L[l]>> \in R
  BY <1>2, <1>4
<1>7. \A k, l \in 1..n : L[k] = L[l] => k = l
  BY <1>2, <1>4
<1>8. ASSUME NEW i \in S PROVE \E k \in 1..n : L[k] = i
  <2>1. Rank(S, R, i) \in 0..(n - 1)
    BY <1>2
  <2>2. Rank(S, R, i) + 1 \in 1..n /\ (Rank(S, R, i) + 1) - 1 = Rank(S, R, i)
    BY <1>2, <2>1
  <2>3. QED
    BY <1>2, <1>4, <2>2
<1>9. QED
  BY <1>2, <1>5, <1>6, <1>7, <1>8 DEF L, n

\* What every order of a log's rows is: each row once.
Permutes(f, n) ==
  /\ f \in [1..n -> 1..n]
  /\ \A k, l \in 1..n : f[k] = f[l] => k = l
  /\ \A i \in 1..n : \E k \in 1..n : f[k] = i

\* Rows replay by instant, then by id.
LEMMA ReplayOrderIs ==
  ASSUME NEW rows \in Seq(Rows)
  PROVE  /\ Permutes(ReplayOrder(rows), Len(rows))
         /\ \A k, l \in 1..Len(rows) :
               k < l <=> Before(rows, ReplayOrder(rows)[k], ReplayOrder(rows)[l])
<1> DEFINE S == DOMAIN rows
           n == Len(rows)
           R == {p \in S \X S : Before(rows, p[1], p[2])}
<1>1. n \in Nat /\ S = 1..n /\ \A i \in S : rows[i].ts \in Int
  <2>1. \A i \in S : rows[i] \in Rows
    OBVIOUS
  <2>2. \A r \in Rows : r.ts \in Int
    BY DEF Rows
  <2>3. QED
    BY <2>1, <2>2
<1>2. IsFiniteSet(S) /\ Cardinality(S) = n
  <2>1. 1 \in Int /\ n \in Int /\ n - 1 + 1 = n /\ (1 > n => n = 0)
    BY <1>1
  <2> HIDE DEF n, S
  <2>2. QED
    BY <1>1, <2>1, FS_Interval
<1>3. \A i, j \in S : <<i, j>> \in R <=> Before(rows, i, j)
  OBVIOUS
<1>4. StrictOrder(S, R)
  <2>1. \A i \in S : ~Before(rows, i, i)
    BY <1>1 DEF Before
  <2>2. \A i, j, k \in S : Before(rows, i, j) /\ Before(rows, j, k) => Before(rows, i, k)
    BY <1>1 DEF Before
  <2>3. \A i, j \in S : i # j => Before(rows, i, j) \/ Before(rows, j, i)
    BY <1>1 DEF Before
  <2> HIDE DEF S, R
  <2>4. QED
    BY <1>3, <2>1, <2>2, <2>3 DEF StrictOrder
<1>5. ReplayOrder(rows) = InLine(S, R)
  BY DEF ReplayOrder
<1> HIDE DEF S, R, n
<1>6. /\ InLine(S, R) \in [1..n -> S]
      /\ \A k, l \in 1..n : k < l <=> <<InLine(S, R)[k], InLine(S, R)[l]>> \in R
      /\ \A k, l \in 1..n : InLine(S, R)[k] = InLine(S, R)[l] => k = l
      /\ \A i \in S : \E k \in 1..n : InLine(S, R)[k] = i
  BY <1>2, <1>4, LineIs
<1>7. QED
  BY <1>1, <1>3, <1>5, <1>6 DEF Permutes, n

\* The library's Max and Min of two integers.
LEMMA GreaterAndLess ==
  ASSUME NEW a \in Int, NEW b \in Int
  PROVE  /\ Max({a, b}) = IF a >= b THEN a ELSE b
         /\ Min({a, b}) = IF a <= b THEN a ELSE b
<1>1. /\ Max({a, b}) \in {a, b} /\ \A y \in {a, b} : Max({a, b}) >= y
  <2>1. \E x \in {a, b} : \A y \in {a, b} : x >= y
    OBVIOUS
  <2>2. QED
    BY <2>1 DEF Max
<1>2. /\ Min({a, b}) \in {a, b} /\ \A y \in {a, b} : Min({a, b}) <= y
  <2>1. \E x \in {a, b} : \A y \in {a, b} : x <= y
    OBVIOUS
  <2>2. QED
    BY <2>1 DEF Min
<1>3. QED
  BY <1>1, <1>2

\* Elements with a quantity that can be set.
Stock(T) ==
  \A x \in T : /\ x.qty \in Nat
               /\ \A q \in Nat : [x EXCEPT !.qty = q] \in T /\ [x EXCEPT !.qty = q].qty = q

\* Stock of purchases.
Lots(T) ==
  /\ Stock(T)
  /\ \A x \in T : /\ x.buy \in Nat /\ x.unit \in Int
                  /\ \A q \in Nat : /\ [x EXCEPT !.qty = q].buy = x.buy
                                    /\ [x EXCEPT !.qty = q].unit = x.unit

\* The quantities of a sequence, one by one.
LEMMA QtyIs ==
  ASSUME NEW T, \A x \in T : x.qty \in Int, NEW s \in Seq(T)
  PROVE  /\ Qty(s) \in Seq(Int) /\ Len(Qty(s)) = Len(s) /\ DOMAIN Qty(s) = 1..Len(s)
         /\ \A i \in 1..Len(s) : Qty(s)[i] = s[i].qty
         /\ Qty(s) = Weights([x \in T |-> x.qty], s)
<1>1. \A i \in 1..Len(s) : s[i].qty \in Int
  OBVIOUS
<1>2. QED
  BY <1>1 DEF Qty, Weights

\* What is handed out is no debt.
LEMMA InOrderIs ==
  ASSUME NEW T, \A x \in T : x.qty \in Int, NEW s \in Seq(T), NEW n \in Int
  PROVE  /\ InOrder(s, n) \in [1..Len(s) -> Nat] /\ InOrder(s, n) \in Seq(Int)
         /\ Len(InOrder(s, n)) = Len(s)
         /\ \A i \in 1..Len(s) :
               LET q == s[i].qty
                   left == n - Sums(Qty(s))[i - 1]
               IN  InOrder(s, n)[i] =
                      IF left <= 0 \/ q <= 0 THEN 0 ELSE IF q <= left THEN q ELSE left
<1> DEFINE P == Sums(Qty(s))
           t == InOrder(s, n)
           left(i) == n - P[i - 1]
           of(q, l) == IF l <= 0 \/ q <= 0 THEN 0 ELSE IF q <= l THEN q ELSE l
<1>1. Qty(s) \in Seq(Int) /\ Len(Qty(s)) = Len(s)
  BY QtyIs
<1>2. \A i \in 1..Len(s) : P[i - 1] \in Int
  BY <1>1, SumsAre
<1>3. DOMAIN s = 1..Len(s) /\ Len(s) \in Nat /\ \A i \in 1..Len(s) : s[i].qty \in Int
  OBVIOUS
<1>4. \A q, l \in Int : Max({0, Min({q, l})}) = of(q, l) /\ of(q, l) \in Nat
  <2> TAKE q, l \in Int
  <2> DEFINE less == IF q <= l THEN q ELSE l
  <2>1. Min({q, l}) = less /\ less \in Int
    BY GreaterAndLess
  <2>2. Max({0, less}) = IF 0 >= less THEN 0 ELSE less
    <3> HIDE DEF less
    <3>1. QED
      BY <2>1, GreaterAndLess
  <2>3. Max({0, Min({q, l})}) = Max({0, less})
    BY <2>1
  <2>4. QED
    BY <2>2, <2>3
<1>5. t = [i \in 1..Len(s) |-> Max({0, Min({s[i].qty, left(i)})})]
  BY <1>3 DEF InOrder
<1>6. \A i \in 1..Len(s) : left(i) \in Int
  BY <1>2
<1> HIDE DEF P, of, left, t
<1>7. \A i \in 1..Len(s) : t[i] = of(s[i].qty, left(i)) /\ t[i] \in Nat
  BY <1>3, <1>4, <1>5, <1>6
<1>8. t \in [1..Len(s) -> Nat] /\ t \in Seq(Int) /\ Len(t) = Len(s)
  BY <1>3, <1>5, <1>7
<1>9. QED
  BY <1>7, <1>8 DEF t, of, left, P

\* Handed out along the first k elements: all they have, or all there is to hand
\* out.
LEMMA InOrderSums ==
  ASSUME NEW T, Stock(T), NEW s \in Seq(T), NEW n \in Nat
  PROVE  /\ \A i \in 1..Len(s) : InOrder(s, n)[i] <= s[i].qty
         /\ \A k \in 0..Len(s) :
               Sums(InOrder(s, n))[k] = IF Sums(Qty(s))[k] <= n THEN Sums(Qty(s))[k] ELSE n
<1> DEFINE P == Sums(Qty(s))
           t == InOrder(s, n)
           m == Len(s)
<1>1. (\A x \in T : x.qty \in Int) /\ m \in Nat /\ n \in Int /\ \A i \in 1..m : s[i].qty \in Nat
  BY DEF Stock
<1>2. Qty(s) \in Seq(Int) /\ Len(Qty(s)) = m /\ \A i \in 1..m : Qty(s)[i] = s[i].qty
  BY <1>1, QtyIs
<1>3. /\ P[0] = 0
      /\ \A i \in 1..m : P[i] = P[i - 1] + s[i].qty /\ P[i - 1] \in Int
  BY <1>2, SumsAre
<1>4. /\ t \in Seq(Int) /\ Len(t) = m
      /\ \A i \in 1..m : t[i] = IF n - P[i - 1] <= 0 \/ s[i].qty <= 0 THEN 0
                                ELSE IF s[i].qty <= n - P[i - 1] THEN s[i].qty ELSE n - P[i - 1]
  BY <1>1, InOrderIs
<1>5. /\ Sums(t)[0] = 0
      /\ \A i \in 1..m : Sums(t)[i] = Sums(t)[i - 1] + t[i] /\ Sums(t)[i - 1] \in Int
  BY <1>4, SumsAre
<1>6. \A i \in 1..m : t[i] <= s[i].qty
  BY <1>1, <1>3, <1>4
<1> DEFINE G == {k \in 0..m : Sums(t)[k] = IF P[k] <= n THEN P[k] ELSE n}
<1> HIDE DEF P, t, m
<1>7. 0 \in G
  BY <1>1, <1>3, <1>5
<1>8. ASSUME NEW k \in 1..m, k - 1 \in G PROVE k \in G
  <2>1. k \in 0..m /\ s[k].qty \in Nat /\ P[k - 1] \in Int
    BY <1>1, <1>3
  <2>2. P[k] = P[k - 1] + s[k].qty /\ Sums(t)[k] = Sums(t)[k - 1] + t[k]
    BY <1>3, <1>5
  <2>3. t[k] = IF n - P[k - 1] <= 0 \/ s[k].qty <= 0 THEN 0
                ELSE IF s[k].qty <= n - P[k - 1] THEN s[k].qty ELSE n - P[k - 1]
    BY <1>4
  <2>4. Sums(t)[k - 1] = IF P[k - 1] <= n THEN P[k - 1] ELSE n
    BY <1>8
  <2>5. Sums(t)[k] = IF P[k] <= n THEN P[k] ELSE n
    BY <1>1, <2>1, <2>2, <2>3, <2>4
  <2>6. QED
    BY <2>1, <2>5
<1>9. \A k \in 0..m : k \in G
  <2> HIDE DEF G
  <2>1. QED
    BY <1>1, <1>7, <1>8, UpTo
<1>10. QED
  BY <1>6, <1>9 DEF P, t, m

-----------------------------------------------------------------------------
(* Whose the shares are.                                                    *)

\* The sums of a stock never fall.
LEMMA StockSums ==
  ASSUME NEW T, Stock(T), NEW s \in Seq(T)
  PROVE  /\ Qty(s) \in Seq(Int) /\ Len(Qty(s)) = Len(s) /\ Len(s) \in Nat
         /\ Sums(Qty(s))[0] = 0 /\ Shares(s) = Sums(Qty(s))[Len(s)] /\ Shares(s) \in Nat
         /\ \A k \in 0..Len(s) : Sums(Qty(s))[k] \in Nat
         /\ \A k \in 0..Len(s) : \A j \in 0..k : Sums(Qty(s))[j] <= Sums(Qty(s))[k]
         /\ \A k \in 1..Len(s) : /\ Sums(Qty(s))[k] = Sums(Qty(s))[k - 1] + s[k].qty
                                 /\ s[k].qty \in Nat /\ s[k] \in T
<1>1. (\A x \in T : x.qty \in Int) /\ Len(s) \in Nat /\ \A i \in 1..Len(s) : s[i] \in T /\ s[i].qty \in Nat
  BY DEF Stock
<1>2. Qty(s) \in Seq(Int) /\ Len(Qty(s)) = Len(s) /\ \A i \in 1..Len(s) : Qty(s)[i] = s[i].qty
  BY <1>1, QtyIs
<1>3. \A i \in 1..Len(Qty(s)) : Qty(s)[i] >= 0
  BY <1>1, <1>2
<1>4. \A k \in 0..Len(s) : \A j \in 0..k :
         Sums(Qty(s))[j] \in Nat /\ Sums(Qty(s))[k] \in Nat /\ Sums(Qty(s))[j] <= Sums(Qty(s))[k]
  BY <1>2, <1>3, SumsGrow
<1>5. Sums(Qty(s))[0] = 0 /\ \A k \in 1..Len(s) : Sums(Qty(s))[k] = Sums(Qty(s))[k - 1] + s[k].qty
  BY <1>2, SumsAre
<1>6. Shares(s) = Sums(Qty(s))[Len(s)]
  BY <1>2 DEF Shares, Total
<1>7. \A k \in 0..Len(s) : k \in 0..k /\ Len(s) \in 0..Len(s)
  BY <1>1
<1>8. QED
  BY <1>1, <1>2, <1>4, <1>5, <1>6, <1>7

\* Each share has its place.
LEMMA PlaceOf ==
  ASSUME NEW T, Stock(T), NEW s \in Seq(T), NEW n \in 1..Shares(s)
  PROVE  \E i \in 1..Len(s) : Sums(Qty(s))[i - 1] < n /\ n <= Sums(Qty(s))[i]
<1> DEFINE P == Sums(Qty(s))
           m == Len(s)
           G == {k \in 0..m : P[k] < n}
<1>1. m \in Nat /\ P[0] = 0 /\ Shares(s) = P[m] /\ \A k \in 0..m : P[k] \in Nat
  BY StockSums
<1> HIDE DEF P, m
<1>2. SUFFICES ASSUME \A i \in 1..m : ~ (P[i - 1] < n /\ n <= P[i]) PROVE FALSE
  BY DEF P, m
<1>3. 0 \in G
  BY <1>1
<1>4. \A k \in 1..m : k - 1 \in G => k \in G
  BY <1>1, <1>2
<1>5. \A k \in 0..m : k \in G
  <2> HIDE DEF G
  <2>1. QED
    BY <1>1, <1>3, <1>4, UpTo
<1>6. m \in 0..m
  BY <1>1
<1>7. QED
  BY <1>1, <1>5, <1>6

\* The owner of a share is the purchase at its place.
LEMMA OwnerAt ==
  ASSUME NEW T, Stock(T), NEW s \in Seq(T), NEW n \in Int, NEW i \in 1..Len(s),
         Sums(Qty(s))[i - 1] < n, n <= Sums(Qty(s))[i]
  PROVE  Owner(s, n) = s[i].buy
<1> DEFINE P == Sums(Qty(s))
           m == Len(s)
           At(j) == P[j - 1] < n /\ n <= P[j]
           c == CHOOSE j \in DOMAIN s : At(j)
<1>1. /\ m \in Nat /\ \A k \in 0..m : P[k] \in Nat
      /\ \A k \in 0..m : \A j \in 0..k : P[j] <= P[k]
  BY StockSums
<1>2. c \in 1..m /\ At(c)
  <2>1. DOMAIN s = 1..m /\ i \in 1..m /\ At(i)
    OBVIOUS
  <2> HIDE DEF At, m
  <2>2. QED
    BY <2>1
<1>3. Owner(s, n) = s[c].buy
  BY DEF Owner
<1> HIDE DEF c
<1>4. \A j \in 1..m : j - 1 \in 0..m /\ j \in 0..m
  BY <1>1
<1>5. \A j, k \in 1..m : j < k => j \in 0..(k - 1)
  BY <1>1
<1> HIDE DEF P, m
<1>6. At(i) /\ i \in 1..m
  BY DEF P, m
<1>7. ~ (c < i) /\ ~ (i < c)
  BY <1>1, <1>2, <1>4, <1>5, <1>6
<1>8. QED
  BY <1>2, <1>3, <1>6, <1>7

\* Two sequences of lots stand for one line of shares: purchase by purchase, share by
\* share, in the order sales take them.
SameLine(s, t) ==
  /\ Shares(s) = Shares(t)
  /\ \A n \in 1..Shares(s) : Owner(s, n) = Owner(t, n)

\* Whatever has a place in s has one in t.
LEMMA SameByPlaces ==
  ASSUME NEW T, Stock(T), NEW s \in Seq(T), NEW U, Stock(U), NEW t \in Seq(U),
         Shares(s) = Shares(t),
         \A i \in 1..Len(s), n \in Int :
            Sums(Qty(s))[i - 1] < n /\ n <= Sums(Qty(s))[i] =>
               \E j \in 1..Len(t) : /\ Sums(Qty(t))[j - 1] < n /\ n <= Sums(Qty(t))[j]
                                    /\ t[j].buy = s[i].buy
  PROVE  SameLine(s, t)
<1>1. ASSUME NEW n \in 1..Shares(s) PROVE Owner(s, n) = Owner(t, n)
  <2>0. Shares(s) \in Nat /\ n \in Int
    BY StockSums
  <2>1. PICK i \in 1..Len(s) : Sums(Qty(s))[i - 1] < n /\ n <= Sums(Qty(s))[i]
    BY PlaceOf
  <2>2. PICK j \in 1..Len(t) : /\ Sums(Qty(t))[j - 1] < n /\ n <= Sums(Qty(t))[j]
                               /\ t[j].buy = s[i].buy
    BY <2>0, <2>1
  <2>3. Owner(s, n) = s[i].buy
    BY <2>0, <2>1, OwnerAt
  <2>4. Owner(t, n) = t[j].buy
    BY <2>0, <2>2, OwnerAt
  <2>5. QED
    BY <2>2, <2>3, <2>4
<1>2. QED
  BY <1>1 DEF SameLine

\* Elements without a share do not show in the line.
LEMMA FilledSame ==
  ASSUME NEW T, Stock(T), NEW s \in Seq(T)
  PROVE  /\ Filled(s) \in Seq(T) /\ SameLine(s, Filled(s)) /\ SameLine(Filled(s), s)
         /\ \A j \in 1..Len(Filled(s)) : /\ Filled(s)[j].qty > 0
                                         /\ \E i \in 1..Len(s) : Filled(s)[j] = s[i]
<1> DEFINE w == [x \in T |-> x.qty]
           S == {i \in DOMAIN s : s[i].qty > 0}
           t == Filled(s)
<1>1. /\ w \in [T -> Nat] /\ t = Chosen(s, S) /\ Len(s) \in Nat /\ (\A x \in T : x.qty \in Int)
      /\ \A i \in 1..Len(s) : s[i] \in T /\ w[s[i]] = s[i].qty /\ i \in DOMAIN s
  BY DEF Stock, Filled
<1>2. \A i \in 1..Len(s) : i \notin S => w[s[i]] = 0
  BY <1>1
<1>3. t \in Seq(T)
  BY <1>1, ChosenIs
<1>4. Weights(w, s) = Qty(s) /\ Weights(w, t) = Qty(t)
  BY <1>1, <1>3, QtyIs
<1>5. /\ Total(Weights(w, t)) = Total(Weights(w, s))
      /\ \A i \in 1..Len(s) : w[s[i]] > 0 =>
            \E j \in 1..Len(t) :
               /\ t[j] = s[i]
               /\ Sums(Weights(w, t))[j - 1] = Sums(Weights(w, s))[i - 1]
               /\ Sums(Weights(w, t))[j] = Sums(Weights(w, s))[i]
  <2> DEFINE c == Chosen(s, S)
  <2>1. w \in [T -> Nat]
    BY <1>1
  <2>2. /\ Total(Weights(w, c)) = Total(Weights(w, s))
        /\ \A i \in 1..Len(s) : w[s[i]] > 0 =>
              \E j \in 1..Len(c) :
                 /\ c[j] = s[i]
                 /\ Sums(Weights(w, c))[j - 1] = Sums(Weights(w, s))[i - 1]
                 /\ Sums(Weights(w, c))[j] = Sums(Weights(w, s))[i]
    <3> HIDE DEF w, S
    <3>1. QED
      BY <1>2, <2>1, ChosenPlaces
  <2>3. t = c
    BY <1>1
  <2> HIDE DEF w, S, c, t
  <2>4. QED
    BY <2>2, <2>3
<1>6. \A i \in 1..Len(s) : s[i].qty \in Nat /\ Sums(Qty(s))[i] = Sums(Qty(s))[i - 1] + s[i].qty
                           /\ Sums(Qty(s))[i - 1] \in Int
  <2>1. \A i \in 1..Len(s) : i - 1 \in 0..Len(s)
    BY <1>1
  <2>2. QED
    BY <2>1, StockSums
<1>7. Shares(s) = Shares(t)
  BY <1>4, <1>5 DEF Shares
<1>8. \A i \in 1..Len(s), n \in Int :
         Sums(Qty(s))[i - 1] < n /\ n <= Sums(Qty(s))[i] =>
            \E j \in 1..Len(t) : /\ Sums(Qty(t))[j - 1] < n /\ n <= Sums(Qty(t))[j]
                                 /\ t[j].buy = s[i].buy
  <2> TAKE i \in 1..Len(s), n \in Int
  <2> HAVE Sums(Qty(s))[i - 1] < n /\ n <= Sums(Qty(s))[i]
  <2>1. w[s[i]] > 0
    BY <1>1, <1>6
  <2>2. QED
    BY <1>4, <1>5, <2>1
<1>9. SameLine(s, t)
  <2> HIDE DEF t
  <2>1. QED
    BY <1>3, <1>7, <1>8, SameByPlaces
<1>10. SameLine(t, s)
  BY <1>9 DEF SameLine
<1>11. \A j \in 1..Len(t) : t[j].qty > 0 /\ \E i \in 1..Len(s) : t[j] = s[i]
  <2>1. PICK at \in [1..Len(t) -> 1..Len(s)] : \A j \in 1..Len(t) : at[j] \in S /\ t[j] = s[at[j]]
    <3> HIDE DEF S, t
    <3>1. QED
      BY <1>1, ChosenFrom
  <2>2. QED
    BY <2>1
<1>12. QED
  BY <1>3, <1>9, <1>10, <1>11

\* Having the same owners in a line is transitive.
LEMMA SameLineTrans ==
  ASSUME NEW s, NEW t, NEW u, SameLine(s, t), SameLine(t, u)
  PROVE  SameLine(s, u) /\ SameLine(u, s)
  BY DEF SameLine

\* A concatenation of integers, element by element.
LEMMA ConcatIs ==
  ASSUME NEW a \in Seq(Int), NEW b \in Seq(Int)
  PROVE  /\ a \o b = [i \in 1..(Len(a) + Len(b)) |-> (a \o b)[i]]
         /\ \A i \in 1..(Len(a) + Len(b)) :
               (a \o b)[i] = IF i <= Len(a) THEN a[i] ELSE b[i - Len(a)]
<1> DEFINE c == a \o b
           m == Len(a)
           n == Len(b)
<1>1. /\ c \in Seq(Int) /\ Len(c) = m + n /\ m \in Nat /\ n \in Nat
      /\ \A k \in 1..m : c[k] = a[k]
      /\ \A k \in 1..n : c[m + k] = b[k]
  OBVIOUS
<1> HIDE DEF c, m, n
<1>2. c = [i \in 1..(m + n) |-> c[i]]
  BY <1>1
<1>3. ASSUME NEW i \in 1..(m + n) PROVE c[i] = IF i <= m THEN a[i] ELSE b[i - m]
  <2>1. CASE i <= m
    BY <1>1, <2>1
  <2>2. CASE i > m
    <3>1. i - m \in 1..n /\ m + (i - m) = i
      BY <1>1, <2>2
    <3>2. QED
      BY <1>1, <2>2, <3>1
  <2>3. QED
    BY <1>1, <2>1, <2>2
<1>4. QED
  BY <1>2, <1>3 DEF c, m, n

\* The line of two sequences, one behind the other.
LEMMA OwnerConcat ==
  ASSUME NEW T, Stock(T), NEW s \in Seq(T), NEW t \in Seq(T)
  PROVE  /\ s \o t \in Seq(T) /\ Shares(s \o t) = Shares(s) + Shares(t)
         /\ \A n \in 1..Shares(s) : Owner(s \o t, n) = Owner(s, n)
         /\ \A n \in 1..Shares(t) : Owner(s \o t, Shares(s) + n) = Owner(t, n)
<1> DEFINE u == s \o t
           P == Sums(Qty(s))
           Q == Sums(Qty(t))
           R == Sums(Qty(u))
           k == Len(s)
           m == Len(t)
<1>1. /\ u \in Seq(T) /\ k \in Nat /\ m \in Nat /\ Len(u) = k + m
      /\ \A i \in 1..k : u[i] = s[i]
      /\ \A i \in 1..m : u[k + i] = t[i]
  OBVIOUS
<1>2. Qty(s) \in Seq(Int) /\ Qty(t) \in Seq(Int) /\ Len(Qty(s)) = k /\ Len(Qty(t)) = m
  BY StockSums
<1>3. Qty(u) = Qty(s) \o Qty(t)
  <2> DEFINE both == Qty(s) \o Qty(t)
  <2>1. Qty(u) = [i \in 1..(k + m) |-> u[i].qty]
    BY <1>1 DEF Qty
  <2>2. /\ both = [i \in 1..(k + m) |-> both[i]]
        /\ \A i \in 1..(k + m) : both[i] = IF i <= k THEN Qty(s)[i] ELSE Qty(t)[i - k]
    <3> HIDE DEF k, m
    <3>1. QED
      BY <1>2, ConcatIs
  <2>3. ASSUME NEW i \in 1..(k + m)
        PROVE  u[i].qty = IF i <= k THEN Qty(s)[i] ELSE Qty(t)[i - k]
    <3>1. CASE i <= k
      BY <1>1, <3>1 DEF Qty
    <3>2. CASE i > k
      <4>1. i - k \in 1..m /\ k + (i - k) = i
        BY <1>1, <3>2
      <4>2. u[i] = t[i - k]
        BY <1>1, <4>1
      <4>3. QED
        BY <1>1, <3>2, <4>1, <4>2 DEF Qty
    <3>3. QED
      BY <1>1, <3>1, <3>2
  <2> HIDE DEF both
  <2> HIDE DEF u, k, m
  <2>5. \A i \in 1..(k + m) : u[i].qty = both[i]
    BY <2>2, <2>3
  <2>6. QED
    BY <2>1, <2>2, <2>5 DEF both
<1>4. /\ \A i \in 0..k : R[i] = P[i]
      /\ \A i \in 0..m : R[k + i] = Shares(s) + Q[i]
      /\ Shares(u) = Shares(s) + Shares(t)
  <2> DEFINE a == Qty(s)
             b == Qty(t)
  <2>1. /\ \A i \in 0..Len(a) : Sums(a \o b)[i] = Sums(a)[i]
        /\ \A i \in 0..Len(b) : Sums(a \o b)[Len(a) + i] = Total(a) + Sums(b)[i]
        /\ Total(a \o b) = Total(a) + Total(b)
    BY <1>2, SumsConcat
  <2> HIDE DEF k, m
  <2>2. QED
    BY <1>2, <1>3, <2>1 DEF Shares
<1>5. Shares(s) \in Nat /\ Shares(t) \in Nat /\ \A i \in 0..m : Q[i] \in Nat
  BY StockSums
<1> HIDE DEF u, P, Q, R
<1>6. ASSUME NEW n \in 1..Shares(s) PROVE Owner(u, n) = Owner(s, n)
  <2>1. PICK i \in 1..k : P[i - 1] < n /\ n <= P[i]
    BY PlaceOf DEF P
  <2>2. i \in 1..Len(u) /\ R[i - 1] = P[i - 1] /\ R[i] = P[i] /\ n \in Int /\ u[i] = s[i]
    BY <1>1, <1>4, <1>5
  <2>3. Owner(s, n) = s[i].buy
    BY <2>1, <2>2, OwnerAt DEF P
  <2>4. Owner(u, n) = u[i].buy
    BY <1>1, <2>1, <2>2, OwnerAt DEF R
  <2>5. QED
    BY <2>2, <2>3, <2>4
<1>7. ASSUME NEW n \in 1..Shares(t) PROVE Owner(u, Shares(s) + n) = Owner(t, n)
  <2>1. PICK i \in 1..m : Q[i - 1] < n /\ n <= Q[i]
    BY PlaceOf DEF Q
  <2>2. i - 1 \in 0..m /\ i \in 0..m /\ k + i \in 1..Len(u) /\ (k + i) - 1 = k + (i - 1)
    BY <1>1
  <2>3. /\ R[(k + i) - 1] = Shares(s) + Q[i - 1] /\ R[k + i] = Shares(s) + Q[i]
        /\ Q[i - 1] \in Nat /\ Q[i] \in Nat
    BY <1>4, <1>5, <2>2
  <2>4. Shares(s) + n \in Int /\ R[(k + i) - 1] < Shares(s) + n /\ Shares(s) + n <= R[k + i]
    BY <1>5, <2>1, <2>3
  <2>5. Owner(u, Shares(s) + n) = u[k + i].buy
    BY <1>1, <2>2, <2>4, OwnerAt DEF R
  <2>6. Owner(t, n) = t[i].buy
    <3>1. n \in Int
      BY <1>5
    <3>2. QED
      BY <2>1, <3>1, OwnerAt DEF Q
  <2>7. QED
    BY <1>1, <2>5, <2>6
<1>8. QED
  BY <1>1, <1>4, <1>6, <1>7 DEF u

\* Shares of one purchase only.
LEMMA OwnerOfOne ==
  ASSUME NEW T, Stock(T), NEW s \in Seq(T), NEW b, \A i \in 1..Len(s) : s[i].buy = b
  PROVE  \A n \in 1..Shares(s) : Owner(s, n) = b
<1> TAKE n \in 1..Shares(s)
<1>1. Shares(s) \in Nat
  BY StockSums
<1>2. PICK i \in 1..Len(s) : Sums(Qty(s))[i - 1] < n /\ n <= Sums(Qty(s))[i]
  BY PlaceOf
<1>3. n \in Int
  BY <1>1
<1>4. Owner(s, n) = s[i].buy
  BY <1>2, <1>3, OwnerAt
<1>5. QED
  BY <1>2, <1>4

\* Two lines that are the same remain so with the same behind them.
LEMMA SameConcat ==
  ASSUME NEW T, Stock(T), NEW s \in Seq(T), NEW t \in Seq(T), 
         NEW U, Stock(U), NEW u \in Seq(U), NEW v \in Seq(U), SameLine(s, u), SameLine(t, v)
  PROVE  SameLine(s \o t, u \o v)
<1>1. /\ Shares(s \o t) = Shares(s) + Shares(t)
      /\ \A n \in 1..Shares(s) : Owner(s \o t, n) = Owner(s, n)
      /\ \A n \in 1..Shares(t) : Owner(s \o t, Shares(s) + n) = Owner(t, n)
  BY OwnerConcat
<1>2. /\ Shares(u \o v) = Shares(u) + Shares(v)
      /\ \A n \in 1..Shares(u) : Owner(u \o v, n) = Owner(u, n)
      /\ \A n \in 1..Shares(v) : Owner(u \o v, Shares(u) + n) = Owner(v, n)
  BY OwnerConcat
<1>3. Shares(s) \in Nat /\ Shares(t) \in Nat
  BY StockSums
<1>4. ASSUME NEW n \in 1..(Shares(s) + Shares(t)) PROVE Owner(s \o t, n) = Owner(u \o v, n)
  <2>1. CASE n <= Shares(s)
    BY <1>1, <1>2, <1>3, <2>1 DEF SameLine
  <2>2. CASE n > Shares(s)
    <3>1. n - Shares(s) \in 1..Shares(t) /\ Shares(s) + (n - Shares(s)) = n
      BY <1>3, <2>2
    <3>2. Owner(s \o t, n) = Owner(t, n - Shares(s)) /\ Owner(u \o v, n) = Owner(v, n - Shares(s))
      BY <1>1, <1>2, <3>1 DEF SameLine
    <3>3. QED
      BY <3>1, <3>2 DEF SameLine
  <2>3. QED
    BY <1>3, <2>1, <2>2
<1>5. QED
  BY <1>1, <1>2, <1>4 DEF SameLine

\* Lots with other quantities are lots.
LEMMA WithQtyIs ==
  ASSUME NEW T, Stock(T), NEW s \in Seq(T), NEW q \in [1..Len(s) -> Nat]
  PROVE  /\ WithQty(s, q) \in Seq(T) /\ Len(WithQty(s, q)) = Len(s)
         /\ \A i \in 1..Len(s) : /\ WithQty(s, q)[i] = [s[i] EXCEPT !.qty = q[i]]
                                 /\ WithQty(s, q)[i].qty = q[i]
<1> DEFINE e(i) == [s[i] EXCEPT !.qty = q[i]]
<1>1. Len(s) \in Nat /\ DOMAIN s = 1..Len(s)
  OBVIOUS
<1>2. \A i \in 1..Len(s) : e(i) \in T /\ e(i).qty = q[i]
  BY DEF Stock
<1>3. WithQty(s, q) = [i \in 1..Len(s) |-> e(i)]
  BY <1>1 DEF WithQty
<1> HIDE DEF e
<1>4. /\ WithQty(s, q) \in Seq(T) /\ Len(WithQty(s, q)) = Len(s)
      /\ \A i \in 1..Len(s) : WithQty(s, q)[i] = e(i)
  BY <1>1, <1>2, <1>3
<1>5. QED
  BY <1>2, <1>4 DEF e

\* What is left of the elements of s once each has lost t[i] of its quantity.
LEMMA LeftOver ==
  ASSUME NEW T, Lots(T), NEW s \in Seq(T), NEW n \in 0..Shares(s)
  PROVE  /\ Rest(s, n) \in Seq(T) /\ Shares(Rest(s, n)) = Shares(s) - n
         /\ \A m \in 1..(Shares(s) - n) : Owner(Rest(s, n), m) = Owner(s, m + n)
<1> DEFINE t == InOrder(s, n)
           q == [i \in DOMAIN s |-> s[i].qty - t[i]]
           r == WithQty(s, q)
           P == Sums(Qty(s))
           R == Sums(Qty(r))
           k == Len(s)
<1>1. Stock(T) /\ Shares(s) \in Nat /\ n \in Nat /\ n <= Shares(s) /\ k \in Nat
  BY StockSums DEF Lots
<1>2. /\ \A i \in 1..k : t[i] <= s[i].qty
      /\ \A i \in 0..k : Sums(t)[i] = IF P[i] <= n THEN P[i] ELSE n
  BY <1>1, InOrderSums
<1>3. t \in [1..k -> Nat] /\ t \in Seq(Int) /\ Len(t) = k
  <2>1. (\A x \in T : x.qty \in Int) /\ n \in Int
    BY <1>1 DEF Stock
  <2>2. QED
    BY <2>1, InOrderIs
<1>4. /\ Qty(s) \in Seq(Int) /\ Len(Qty(s)) = k /\ P[0] = 0 /\ Shares(s) = P[k]
      /\ \A i \in 0..k : P[i] \in Nat
      /\ \A i \in 1..k : P[i] = P[i - 1] + s[i].qty /\ s[i].qty \in Nat
  BY <1>1, StockSums
<1> HIDE DEF t, P
<1>5. q \in [1..k -> Nat]
  <2>1. DOMAIN s = 1..k /\ \A i \in 1..k : t[i] \in Nat
    BY <1>3
  <2>2. QED
    BY <1>2, <1>4, <2>1
<1>6. \A i \in 1..k : q[i] = s[i].qty - t[i]
  OBVIOUS
<1> HIDE DEF q
<1>7. /\ r \in Seq(T) /\ Len(r) = k
      /\ \A i \in 1..k : r[i] = [s[i] EXCEPT !.qty = q[i]] /\ r[i].qty = q[i]
  BY <1>1, <1>5, WithQtyIs
<1>8. \A i \in 1..k : s[i] \in T /\ r[i].buy = s[i].buy
  <2> TAKE i \in 1..k
  <2>1. s[i] \in T /\ q[i] \in Nat
    BY <1>5
  <2>2. [s[i] EXCEPT !.qty = q[i]].buy = s[i].buy
    BY <2>1 DEF Lots
  <2>3. QED
    BY <1>7, <2>1, <2>2
<1> HIDE DEF r, R
<1>9. /\ Qty(r) \in Seq(Int) /\ Len(Qty(r)) = k /\ Shares(r) = R[k]
      /\ \A i \in 1..k : R[i] = R[i - 1] + q[i]
      /\ R[0] = 0 /\ \A i \in 0..k : R[i] \in Nat
  <2>1. /\ Qty(r) \in Seq(Int) /\ Len(Qty(r)) = Len(r)
        /\ Sums(Qty(r))[0] = 0 /\ Shares(r) = Sums(Qty(r))[Len(r)]
        /\ \A i \in 0..Len(r) : Sums(Qty(r))[i] \in Nat
        /\ \A i \in 1..Len(r) : Sums(Qty(r))[i] = Sums(Qty(r))[i - 1] + r[i].qty
    BY <1>1, <1>7, StockSums
  <2>2. QED
    BY <1>7, <2>1 DEF R
<1>10. \A i \in 0..k : R[i] = P[i] - Sums(t)[i]
  <2> DEFINE G == {i \in 0..k : R[i] = P[i] - Sums(t)[i]}
  <2>1. Sums(t)[0] = 0 /\ \A i \in 1..k : Sums(t)[i] = Sums(t)[i - 1] + t[i] /\ Sums(t)[i - 1] \in Int
                                           /\ t[i] \in Int
    BY <1>3, SumsAre
  <2>2. 0 \in G
    BY <1>1, <1>4, <1>9, <2>1
  <2>3. ASSUME NEW i \in 1..k, i - 1 \in G PROVE i \in G
    <3>1. /\ R[i] = R[i - 1] + q[i] /\ q[i] = s[i].qty - t[i]
          /\ P[i] = P[i - 1] + s[i].qty /\ Sums(t)[i] = Sums(t)[i - 1] + t[i]
          /\ R[i - 1] = P[i - 1] - Sums(t)[i - 1]
      BY <1>4, <1>6, <1>9, <2>1, <2>3
    <3>2. i - 1 \in 0..k
      BY <1>1
    <3>3. P[i - 1] \in Int /\ s[i].qty \in Int /\ Sums(t)[i - 1] \in Int /\ t[i] \in Int
      BY <1>4, <2>1, <3>2
    <3>4. QED
      BY <1>1, <3>1, <3>3
  <2> HIDE DEF G
  <2>4. \A i \in 0..k : i \in G
    BY <1>1, <2>2, <2>3, UpTo
  <2>5. QED
    BY <2>4 DEF G
<1>11. \A i \in 0..k : R[i] = IF P[i] <= n THEN 0 ELSE P[i] - n
  BY <1>1, <1>2, <1>4, <1>10
<1>12. Shares(r) = Shares(s) - n
  <2>1. k \in 0..k
    BY <1>1
  <2>2. R[k] = IF P[k] <= n THEN 0 ELSE P[k] - n
    BY <1>11, <2>1
  <2>3. QED
    BY <1>1, <1>4, <1>9, <2>2
<1>13. ASSUME NEW m \in 1..(Shares(s) - n) PROVE Owner(r, m) = Owner(s, m + n)
  <2>1. m \in 1..Shares(r) /\ m \in Int /\ m > 0 /\ m + n \in Int
    BY <1>1, <1>12
  <2>2. PICK i \in 1..k : R[i - 1] < m /\ m <= R[i]
    BY <1>1, <1>7, <2>1, PlaceOf DEF R
  <2>3. P[i - 1] < m + n /\ m + n <= P[i]
    <3>1. i - 1 \in 0..k /\ i \in 0..k
      BY <1>1
    <3>2. R[i - 1] = IF P[i - 1] <= n THEN 0 ELSE P[i - 1] - n
      BY <1>11, <3>1
    <3>3. R[i] = IF P[i] <= n THEN 0 ELSE P[i] - n
      BY <1>11, <3>1
    <3>4. P[i] \in Nat /\ P[i - 1] \in Nat
      BY <1>4, <3>1
    <3>5. QED
      BY <1>1, <2>1, <2>2, <3>2, <3>3, <3>4
  <2>4. Owner(s, m + n) = s[i].buy
    BY <1>1, <2>1, <2>3, OwnerAt DEF P
  <2>5. Owner(r, m) = r[i].buy
    BY <1>1, <1>7, <2>1, <2>2, OwnerAt DEF R
  <2>6. QED
    BY <1>8, <2>4, <2>5
<1>14. Filled(r) \in Seq(T) /\ SameLine(Filled(r), r)
  BY <1>1, <1>7, FilledSame
<1>15. Rest(s, n) = Filled(r)
  BY DEF Rest, r, q, t
<1>16. QED
  BY <1>12, <1>13, <1>14, <1>15 DEF SameLine

\* A sale leaves two lines the same.
LEMMA SameRest ==
  ASSUME NEW T, Lots(T), NEW s \in Seq(T), NEW U, Lots(U), NEW u \in Seq(U), SameLine(s, u),
         NEW n \in 0..Shares(s)
  PROVE  SameLine(Rest(s, n), Rest(u, n))
<1>1. Shares(s) \in Nat /\ Shares(u) = Shares(s)
  BY StockSums DEF Lots, SameLine
<1>2. /\ Shares(Rest(s, n)) = Shares(s) - n
      /\ \A m \in 1..(Shares(s) - n) : Owner(Rest(s, n), m) = Owner(s, m + n)
  BY LeftOver
<1>3. /\ Shares(Rest(u, n)) = Shares(s) - n
      /\ \A m \in 1..(Shares(s) - n) : Owner(Rest(u, n), m) = Owner(u, m + n)
  BY <1>1, LeftOver
<1>4. \A m \in 1..(Shares(s) - n) : m + n \in 1..Shares(s)
  BY <1>1
<1>5. QED
  BY <1>2, <1>3, <1>4 DEF SameLine

\* m is the one that n is part of, when each counts r times.
PartOf(n, m, r) == (m - 1) * r < n /\ n <= m * r

\* v is s with every quantity multiplied.
Scaled(s, v, r) ==
  Len(v) = Len(s) /\ \A i \in 1..Len(s) : v[i].qty = s[i].qty * r /\ v[i].buy = s[i].buy

\* After a split each share of a line counts r times.
LEMMA OwnerScaled ==
  ASSUME NEW T, Stock(T), NEW s \in Seq(T), NEW v \in Seq(T), NEW r \in Nat \ {0}, Scaled(s, v, r)
  PROVE  /\ Shares(v) = Shares(s) * r
         /\ \A n \in 1..Shares(v), m \in Int :
               PartOf(n, m, r) => m \in 1..Shares(s) /\ Owner(v, n) = Owner(s, m)
<1> DEFINE P == Sums(Qty(s))
           V == Sums(Qty(v))
           k == Len(s)
<1>0. Len(v) = k /\ \A i \in 1..k : v[i].qty = s[i].qty * r /\ v[i].buy = s[i].buy
  BY DEF Scaled
<1>1. /\ Qty(s) \in Seq(Int) /\ Len(Qty(s)) = k /\ k \in Nat /\ Shares(s) = P[k]
      /\ \A i \in 0..k : P[i] \in Nat
      /\ \A i \in 0..k : \A j \in 0..i : P[j] <= P[i]
  BY StockSums
<1>2. Qty(v) \in Seq(Int) /\ Len(Qty(v)) = k /\ Shares(v) = V[k] /\ Shares(v) \in Nat
  BY <1>0, StockSums
<1>3. \A i \in 1..k : Qty(v)[i] = Qty(s)[i] * r
  <2>1. \A x \in T : x.qty \in Int
    BY DEF Stock
  <2>2. \A i \in 1..k : Qty(v)[i] = v[i].qty /\ Qty(s)[i] = s[i].qty
    BY <1>0, <2>1, QtyIs
  <2>3. QED
    BY <1>0, <2>2
<1>4. \A i \in 0..k : V[i] = P[i] * r
  <2> DEFINE a == Qty(s)
             b == Qty(v)
  <2>1. r \in Int /\ Len(b) = Len(a) /\ \A i \in 1..Len(a) : b[i] = a[i] * r
    BY <1>1, <1>2, <1>3
  <2>2. a \in Seq(Int) /\ b \in Seq(Int)
    BY <1>1, <1>2
  <2> HIDE DEF a, b
  <2>3. \A i \in 0..Len(a) : Sums(b)[i] = Sums(a)[i] * r
    BY <2>1, <2>2, SumsScale
  <2>4. QED
    BY <1>1, <2>3 DEF a, b
<1> HIDE DEF P, V, k
<1>5. ASSUME NEW n \in 1..Shares(v), NEW m \in Int, PartOf(n, m, r)
      PROVE  m \in 1..Shares(s) /\ Owner(v, n) = Owner(s, m)
  <2>1. PICK i \in 1..k : V[i - 1] < n /\ n <= V[i]
    <3>1. k = Len(v)
      BY <1>0 DEF k
    <3>2. QED
      BY <3>1, PlaceOf DEF V
  <2>2. n \in Int /\ i - 1 \in 0..k /\ i \in 0..k /\ k \in 0..k
    BY <1>1, <1>2
  <2>3. P[i - 1] \in Nat /\ P[i] \in Nat /\ P[i - 1] * r < n /\ n <= P[i] * r
    BY <1>1, <1>4, <2>1, <2>2
  <2>4. P[i - 1] * r < m * r /\ (m - 1) * r < P[i] * r
    <3>1. P[i - 1] * r \in Int /\ m * r \in Int /\ (m - 1) * r \in Int /\ P[i] * r \in Int
      BY <2>3
    <3>2. \A x, y, z \in Int : x < y /\ y <= z => x < z
      OBVIOUS
    <3>3. QED
      BY <1>5, <2>2, <2>3, <3>1, <3>2 DEF PartOf
  <2>5. \A x, y \in Int : x * r < y * r => x < y
    <3>1. \A x, y \in Int : x >= y => x * r >= y * r
      OBVIOUS
    <3>2. \A x, y \in Int : x * r \in Int
      OBVIOUS
    <3>3. QED
      BY <3>1, <3>2
  <2>6. P[i - 1] < m /\ m <= P[i]
    <3>1. P[i - 1] < m /\ m - 1 < P[i]
      BY <2>3, <2>4, <2>5
    <3>2. QED
      BY <2>3, <3>1
  <2>7. m \in 1..Shares(s)
    <3>1. i \in 0..k /\ P[k] \in Nat /\ Shares(s) = P[k]
      BY <1>1, <2>2
    <3>2. P[i] <= P[k]
      BY <1>1, <2>2, <3>1
    <3>3. QED
      BY <2>3, <2>6, <3>1, <3>2
  <2>8. Owner(s, m) = s[i].buy
    BY <2>6, OwnerAt DEF P, k
  <2>9. Owner(v, n) = v[i].buy
    BY <1>0, <2>1, <2>2, OwnerAt DEF V, k
  <2>10. QED
    BY <1>0, <2>7, <2>8, <2>9
<1>6. Shares(v) = Shares(s) * r
  <2>1. k \in 0..k
    BY <1>1
  <2>2. QED
    BY <1>1, <1>2, <1>4, <2>1
<1>7. QED
  BY <1>5, <1>6

\* Division by r, rounded up.
LEMMA Ceiling ==
  ASSUME NEW n \in Nat, NEW r \in Nat \ {0}
  PROVE  \E m \in Int : PartOf(n, m, r)
<1> DEFINE Is(k, m) == (m - 1) * r < k /\ k <= m * r
           G == {k \in 0..n : \E m \in Int : Is(k, m)}
<1>1. 0 \in G
  <2>1. (0 - 1) * r < 0 /\ 0 <= 0 * r
    OBVIOUS
  <2>2. QED
    BY <2>1
<1>2. ASSUME NEW k \in 1..n, k - 1 \in G PROVE k \in G
  <2>1. PICK m \in Int : Is(k - 1, m)
    BY <1>2
  <2>2. m * r \in Int /\ (m - 1) * r \in Int /\ (m + 1) * r \in Int /\ (m + 1) * r = m * r + r
    OBVIOUS
  <2>3. CASE k <= m * r
    BY <2>1, <2>2, <2>3
  <2>4. CASE k > m * r
    <3>1. (m + 1) - 1 = m /\ m + 1 \in Int
      OBVIOUS
    <3>2. k <= m * r + r
      BY <2>1, <2>2
    <3>3. Is(k, m + 1)
      BY <2>2, <2>4, <3>1, <3>2
    <3> HIDE DEF Is
    <3>4. QED
      BY <3>1, <3>3
  <2>5. QED
    BY <2>2, <2>3, <2>4
<1>3. \A k \in 0..n : k \in G
  <2> HIDE DEF G
  <2>1. QED
    BY <1>1, <1>2, UpTo
<1>4. QED
  BY <1>3 DEF PartOf

\* A split leaves two lines the same.
LEMMA SameScaled ==
  ASSUME NEW T, Stock(T), NEW s \in Seq(T), NEW v \in Seq(T),
         NEW U, Stock(U), NEW u \in Seq(U), NEW w \in Seq(U), SameLine(s, u),
         NEW r \in Nat \ {0}, Scaled(s, v, r), Scaled(u, w, r)
  PROVE  SameLine(v, w) /\ Shares(v) = Shares(s) * r
<1>1. Shares(v) = Shares(s) * r
  BY OwnerScaled
<1>2. Shares(w) = Shares(u) * r
  BY OwnerScaled
<1>v. \A n \in 1..Shares(v), m \in Int :
         PartOf(n, m, r) => m \in 1..Shares(s) /\ Owner(v, n) = Owner(s, m)
  BY OwnerScaled
<1>w. \A n \in 1..Shares(w), m \in Int :
         PartOf(n, m, r) => m \in 1..Shares(u) /\ Owner(w, n) = Owner(u, m)
  BY OwnerScaled
<1>3. Shares(v) = Shares(w) /\ Shares(v) \in Nat
  BY <1>1, <1>2, StockSums DEF SameLine
<1>4. ASSUME NEW n \in 1..Shares(v) PROVE Owner(v, n) = Owner(w, n)
  <2>1. n \in Nat
    BY <1>3
  <2>2. PICK m \in Int : PartOf(n, m, r)
    BY <2>1, Ceiling
  <2>3. m \in 1..Shares(s) /\ Owner(v, n) = Owner(s, m)
    BY <1>v, <2>2
  <2>4. Owner(w, n) = Owner(u, m)
    BY <1>w, <1>3, <2>2
  <2>5. QED
    BY <2>3, <2>4 DEF SameLine
<1>5. QED
  BY <1>1, <1>3, <1>4 DEF SameLine

-----------------------------------------------------------------------------
(* Adjusting held lots.                                                     *)

\* What two sequences give by turns, place by place.
LEMMA InPairsIs ==
  ASSUME NEW T, NEW a \in Seq(T), NEW b \in Seq(T), Len(b) = Len(a)
  PROVE  /\ InPairs(a, b) \in Seq(T) /\ Len(InPairs(a, b)) = 2 * Len(a)
         /\ \A i \in 1..Len(a) : /\ 2 * i - 1 \in 1..(2 * Len(a)) /\ 2 * i \in 1..(2 * Len(a))
                                 /\ InPairs(a, b)[2 * i - 1] = a[i] /\ InPairs(a, b)[2 * i] = b[i]
         /\ \A j \in 1..(2 * Len(a)) : \E i \in 1..Len(a) : j = 2 * i - 1 \/ j = 2 * i
<1> DEFINE k == Len(a)
           e(j) == IF j % 2 = 1 THEN a[(j + 1) \div 2] ELSE b[j \div 2]
<1>1. k \in Nat /\ \A i \in 1..k : a[i] \in T /\ b[i] \in T
  OBVIOUS
<1>2. InPairs(a, b) = [j \in 1..(2 * k) |-> e(j)]
  BY DEF InPairs
<1> HIDE DEF k
<1>3. \A i \in 1..k : 2 * i - 1 \in 1..(2 * k) /\ 2 * i \in 1..(2 * k)
  BY <1>1
<1>4. \A i \in 1..k : e(2 * i - 1) = a[i] /\ e(2 * i) = b[i]
  <2>1. \A i \in Int : (2 * i) % 2 = 0 /\ (2 * i - 1) % 2 = 1 /\ (2 * i) \div 2 = i
                       /\ ((2 * i - 1) + 1) \div 2 = i
    OBVIOUS
  <2>2. QED
    BY <1>1, <2>1
<1>5. \A j \in 1..(2 * k) : \E i \in 1..k : j = 2 * i - 1 \/ j = 2 * i
  <2> TAKE j \in 1..(2 * k)
  <2>1. j % 2 = 1 \/ j % 2 = 0
    BY <1>1
  <2>2. CASE j % 2 = 1
    <3>1. (j + 1) \div 2 \in 1..k /\ j = 2 * ((j + 1) \div 2) - 1
      BY <1>1, <2>2
    <3>2. QED
      BY <3>1
  <2>3. CASE j % 2 = 0
    <3>1. j \div 2 \in 1..k /\ j = 2 * (j \div 2)
      BY <1>1, <2>3
    <3>2. QED
      BY <3>1
  <2>4. QED
    BY <2>1, <2>2, <2>3
<1> HIDE DEF e
<1>6. \A j \in 1..(2 * k) : e(j) \in T
  BY <1>1, <1>4, <1>5
<1>7. InPairs(a, b) \in Seq(T) /\ Len(InPairs(a, b)) = 2 * k
  BY <1>1, <1>2, <1>6
<1>8. \A i \in 1..k : InPairs(a, b)[2 * i - 1] = a[i] /\ InPairs(a, b)[2 * i] = b[i]
  BY <1>2, <1>3, <1>4
<1>9. QED
  BY <1>3, <1>5, <1>7, <1>8 DEF k

\* Splitting each element of a line in two leaves the line the same.
LEMMA PairsSame ==
  ASSUME NEW T, Stock(T), NEW s \in Seq(T), NEW a \in Seq(T), NEW b \in Seq(T),
         Len(a) = Len(s), Len(b) = Len(s),
         \A i \in 1..Len(s) : /\ a[i].qty + b[i].qty = s[i].qty
                              /\ a[i].buy = s[i].buy /\ b[i].buy = s[i].buy
  PROVE  SameLine(s, InPairs(a, b))
<1> DEFINE p == InPairs(a, b)
           k == Len(s)
           P == Sums(Qty(s))
           R == Sums(Qty(p))
<1>1. /\ p \in Seq(T) /\ Len(p) = 2 * k
      /\ \A i \in 1..k : /\ 2 * i - 1 \in 1..(2 * k) /\ 2 * i \in 1..(2 * k)
                         /\ p[2 * i - 1] = a[i] /\ p[2 * i] = b[i]
  BY InPairsIs
<1>2. /\ Qty(s) \in Seq(Int) /\ k \in Nat /\ P[0] = 0 /\ Shares(s) = P[k]
      /\ \A i \in 0..k : P[i] \in Nat
      /\ \A i \in 1..k : P[i] = P[i - 1] + s[i].qty
  BY StockSums
<1> HIDE DEF p
<1>3. /\ R[0] = 0 /\ Shares(p) = R[2 * k]
      /\ \A j \in 0..(2 * k) : R[j] \in Nat
      /\ \A j \in 1..(2 * k) : R[j] = R[j - 1] + p[j].qty /\ p[j].qty \in Nat
  BY <1>1, StockSums
<1> HIDE DEF P, R, k
<1>4. \A i \in 1..k : /\ R[2 * i - 1] = R[2 * (i - 1)] + a[i].qty
                      /\ R[2 * i] = R[2 * i - 1] + b[i].qty
                      /\ R[2 * (i - 1)] \in Nat /\ R[2 * i - 1] \in Nat /\ R[2 * i] \in Nat
                      /\ a[i].qty \in Nat /\ b[i].qty \in Nat
  <2> TAKE i \in 1..k
  <2>1. /\ 2 * i - 1 \in 1..(2 * k) /\ 2 * i \in 1..(2 * k)
        /\ (2 * i - 1) - 1 = 2 * (i - 1) /\ (2 * i) - 1 = 2 * i - 1
        /\ 2 * (i - 1) \in 0..(2 * k) /\ 2 * i - 1 \in 0..(2 * k) /\ 2 * i \in 0..(2 * k)
    BY <1>2
  <2>2. p[2 * i - 1] = a[i] /\ p[2 * i] = b[i]
    BY <1>1 DEF k
  <2>3. R[2 * i - 1] = R[(2 * i - 1) - 1] + p[2 * i - 1].qty /\ p[2 * i - 1].qty \in Nat
    BY <1>3, <2>1
  <2>4. R[2 * i] = R[(2 * i) - 1] + p[2 * i].qty /\ p[2 * i].qty \in Nat
    BY <1>3, <2>1
  <2>5. R[2 * (i - 1)] \in Nat /\ R[2 * i - 1] \in Nat /\ R[2 * i] \in Nat
    BY <1>3, <2>1
  <2>6. QED
    BY <2>1, <2>2, <2>3, <2>4, <2>5
<1>5. \A i \in 1..k : a[i].qty + b[i].qty = s[i].qty
  BY DEF k
<1>6. \A i \in 0..k : R[2 * i] = P[i]
  <2> DEFINE G == {i \in 0..k : R[2 * i] = P[i]}
  <2>1. 0 \in G
    BY <1>2, <1>3
  <2>2. ASSUME NEW i \in 1..k, i - 1 \in G PROVE i \in G
    <3>1. R[2 * (i - 1)] = P[i - 1]
      BY <2>2
    <3>2. R[2 * i] = P[i]
      <4>1. P[i] = P[i - 1] + s[i].qty /\ a[i].qty + b[i].qty = s[i].qty
        BY <1>2, <1>5
      <4>2. /\ R[2 * i - 1] = R[2 * (i - 1)] + a[i].qty /\ R[2 * i] = R[2 * i - 1] + b[i].qty
            /\ R[2 * (i - 1)] \in Nat /\ a[i].qty \in Nat /\ b[i].qty \in Nat
        BY <1>4
      <4>3. QED
        BY <3>1, <4>1, <4>2
    <3>3. QED
      BY <1>2, <3>2
  <2> HIDE DEF G
  <2>3. \A i \in 0..k : i \in G
    BY <1>2, <2>1, <2>2, UpTo
  <2>4. QED
    BY <2>3 DEF G
<1>7. Shares(s) = Shares(p)
  <2>1. k \in 0..k
    BY <1>2
  <2>2. QED
    BY <1>2, <1>3, <1>6, <2>1
<1>8. \A i \in 1..k, n \in Int :
         P[i - 1] < n /\ n <= P[i] =>
            \E j \in 1..(2 * k) : R[j - 1] < n /\ n <= R[j] /\ p[j].buy = s[i].buy
  <2> TAKE i \in 1..k, n \in Int
  <2> HAVE P[i - 1] < n /\ n <= P[i]
  <2>1. R[2 * (i - 1)] = P[i - 1] /\ R[2 * i] = P[i]
    <3>1. i - 1 \in 0..k /\ i \in 0..k
      BY <1>2
    <3>2. QED
      BY <1>6, <3>1
  <2>2. /\ 2 * i - 1 \in 1..(2 * k) /\ 2 * i \in 1..(2 * k)
        /\ (2 * i - 1) - 1 = 2 * (i - 1) /\ (2 * i) - 1 = 2 * i - 1
    BY <1>2
  <2>3. p[2 * i - 1].buy = s[i].buy /\ p[2 * i].buy = s[i].buy
    BY <1>1 DEF k
  <2>4. CASE n <= R[2 * i - 1]
    <3>1. R[(2 * i - 1) - 1] < n /\ n <= R[2 * i - 1]
      BY <2>1, <2>2, <2>4
    <3>2. QED
      BY <2>2, <2>3, <3>1
  <2>5. CASE n > R[2 * i - 1]
    <3>1. R[(2 * i) - 1] < n /\ n <= R[2 * i]
      BY <2>1, <2>2, <2>5
    <3>2. QED
      BY <2>2, <2>3, <3>1
  <2>6. R[2 * i - 1] \in Int
    BY <1>4
  <2>7. QED
    BY <2>4, <2>5, <2>6
<1>9. QED
  <2>1. /\ Len(p) = 2 * k
        /\ \A i \in 1..Len(s), n \in Int :
              Sums(Qty(s))[i - 1] < n /\ n <= Sums(Qty(s))[i] =>
                 \E j \in 1..Len(p) : /\ Sums(Qty(p))[j - 1] < n /\ n <= Sums(Qty(p))[j]
                                      /\ p[j].buy = s[i].buy
    BY <1>1, <1>8 DEF P, R, k
  <2>2. SameLine(s, p)
    BY <1>1, <1>7, <2>1, SameByPlaces
  <2>3. QED
    BY <2>2 DEF p

BookLot    == [buy : Nat, qty : Nat, unit : Int]
TaxLot     == [buy : Nat, qty : Nat, unit : Int, from : Int, rep : Nat]
Adjustment == [qty : Nat, add : Int, from : Int]

\* The lots of both books, and the adjustments, count whole shares.
LEMMA LotTypes == Lots(BookLot) /\ Lots(TaxLot) /\ Stock(BookLot) /\ Stock(TaxLot) /\ Stock(Adjustment)
<1>1. Stock(BookLot) /\ Stock(TaxLot) /\ Stock(Adjustment)
  BY DEF Stock, BookLot, TaxLot, Adjustment
<1>2. QED
  BY <1>1 DEF Lots, BookLot, TaxLot

\* What the fields of lots and adjustments hold.
LEMMA LotFields ==
  /\ \A x \in BookLot : x.buy \in Nat /\ x.qty \in Nat /\ x.unit \in Int
  /\ \A x \in TaxLot : x.buy \in Nat /\ x.qty \in Nat /\ x.unit \in Int /\ x.from \in Int /\ x.rep \in Nat
  /\ \A x \in Adjustment : x.qty \in Nat /\ x.add \in Int /\ x.from \in Int
  BY DEF BookLot, TaxLot, Adjustment

\* The designated shares are held ones, of the purchase designated.
LEMMA DesignatedIs ==
  ASSUME NEW lots \in Seq(TaxLot), NEW b, NEW q \in Nat
  PROVE  /\ Designated(lots, b, q) \in [1..Len(lots) -> Nat]
         /\ Designated(lots, b, q) \in Seq(Int) /\ Len(Designated(lots, b, q)) = Len(lots)
         /\ \A i \in 1..Len(lots) :
               /\ Designated(lots, b, q)[i] <= lots[i].qty
               /\ lots[i].buy # b => Designated(lots, b, q)[i] = 0
         /\ OfBuy(lots, b) \in Seq(Int) /\ Len(OfBuy(lots, b)) = Len(lots)
         /\ \A k \in 0..Len(lots) :
               Sums(Designated(lots, b, q))[k]
                  = IF Sums(OfBuy(lots, b))[k] <= q THEN Sums(OfBuy(lots, b))[k] ELSE q
<1> DEFINE T == [qty : Nat]
           e(i) == [qty |-> IF lots[i].buy = b THEN lots[i].qty ELSE 0]
           s == [i \in DOMAIN lots |-> e(i)]
           n == Designated(lots, b, q)
           k == Len(lots)
<1>1. k \in Nat /\ DOMAIN lots = 1..k /\ \A i \in 1..k : lots[i] \in TaxLot /\ lots[i].qty \in Nat
  <2>1. k \in Nat /\ DOMAIN lots = 1..k /\ \A i \in 1..k : lots[i] \in TaxLot
    OBVIOUS
  <2>2. QED
    BY <2>1, LotFields
<1>2. Stock(T) /\ \A x \in T : x.qty \in Int
  BY DEF Stock
<1>3. \A i \in 1..k : e(i) \in T
  BY <1>1
<1>4. s \in Seq(T) /\ Len(s) = k
  <2> HIDE DEF e, T
  <2>1. QED
    BY <1>1, <1>3
<1>5. \A i \in 1..k : s[i].qty = IF lots[i].buy = b THEN lots[i].qty ELSE 0
  BY <1>1
<1>6. n = InOrder(s, q)
  BY DEF Designated
<1>7. Qty(s) = OfBuy(lots, b)
  <2>1. DOMAIN s = DOMAIN lots
    OBVIOUS
  <2>2. \A i \in DOMAIN lots : s[i].qty = IF lots[i].buy = b THEN lots[i].qty ELSE 0
    BY <1>1, <1>5
  <2> HIDE DEF s
  <2>3. QED
    BY <2>1, <2>2 DEF Qty, OfBuy
<1> HIDE DEF s, T, e, n, k
<1>8. Qty(s) \in Seq(Int) /\ Len(Qty(s)) = k
  BY <1>2, <1>4, QtyIs
<1>9. n \in [1..k -> Nat] /\ n \in Seq(Int) /\ Len(n) = k
  <2>1. q \in Int
    OBVIOUS
  <2>2. QED
    BY <1>2, <1>4, <1>6, <2>1, InOrderIs
<1>10. /\ \A i \in 1..k : n[i] <= s[i].qty
       /\ \A i \in 0..k : Sums(n)[i] = IF Sums(Qty(s))[i] <= q THEN Sums(Qty(s))[i] ELSE q
  BY <1>2, <1>4, <1>6, InOrderSums
<1>11. \A i \in 1..k : n[i] <= lots[i].qty /\ (lots[i].buy # b => n[i] = 0)
  BY <1>1, <1>5, <1>9, <1>10
<1>12. QED
  BY <1>7, <1>8, <1>9, <1>10, <1>11 DEF n, k

\* An adjusted lot leaves two parts, the adjusted one in front.
HeldParts(lots, b, q, add, anchor) ==
  InPairs([i \in DOMAIN lots |-> Raised(lots[i], Designated(lots, b, q)[i], add, anchor)],
          [i \in DOMAIN lots |-> Remainder(lots[i], Designated(lots, b, q)[i])])

\* The parts AdjustHeld keeps: the raised one of a lot in front of its remainder,
\* and together the shares of the lot.
LEMMA HeldPartsAre ==
  ASSUME NEW lots \in Seq(TaxLot), NEW b, NEW q \in Nat, NEW add \in Int, NEW anchor \in Int
  PROVE  /\ HeldParts(lots, b, q, add, anchor) \in Seq(TaxLot)
         /\ Len(HeldParts(lots, b, q, add, anchor)) = 2 * Len(lots)
         /\ SameLine(lots, HeldParts(lots, b, q, add, anchor))
         /\ \A i \in 1..Len(lots) :
               /\ 2 * i - 1 \in 1..(2 * Len(lots)) /\ 2 * i \in 1..(2 * Len(lots))
               /\ HeldParts(lots, b, q, add, anchor)[2 * i - 1]
                    = Raised(lots[i], Designated(lots, b, q)[i], add, anchor)
               /\ HeldParts(lots, b, q, add, anchor)[2 * i]
                    = Remainder(lots[i], Designated(lots, b, q)[i])
         /\ \A j \in 1..(2 * Len(lots)) : \E i \in 1..Len(lots) : j = 2 * i - 1 \/ j = 2 * i
         /\ AdjustHeld(lots, b, q, add, anchor) = Filled(HeldParts(lots, b, q, add, anchor))
<1> DEFINE n == Designated(lots, b, q)
           k == Len(lots)
           raised(i) == [lots[i] EXCEPT !.qty = n[i], !.unit = lots[i].unit + add,
                            !.from = anchor, !.rep = lots[i].rep + 1]
           left(i) == [lots[i] EXCEPT !.qty = lots[i].qty - n[i]]
           a == [i \in DOMAIN lots |-> Raised(lots[i], n[i], add, anchor)]
           c == [i \in DOMAIN lots |-> Remainder(lots[i], n[i])]
           p == InPairs(a, c)
<1>1. k \in Nat /\ DOMAIN lots = 1..k /\ \A i \in 1..k : lots[i] \in TaxLot
  OBVIOUS
<1>2. \A i \in 1..k : n[i] \in Nat /\ n[i] <= lots[i].qty
  BY DesignatedIs
<1>3. \A i \in 1..k : raised(i) = Raised(lots[i], n[i], add, anchor) /\ left(i) = Remainder(lots[i], n[i])
  BY DEF Raised, Remainder
<1>4. ASSUME NEW i \in 1..k
      PROVE  /\ raised(i) \in TaxLot /\ left(i) \in TaxLot
             /\ raised(i).qty + left(i).qty = lots[i].qty
             /\ raised(i).buy = lots[i].buy /\ left(i).buy = lots[i].buy
  <2>1. lots[i] \in TaxLot /\ n[i] \in Nat /\ n[i] <= lots[i].qty
    BY <1>1, <1>2
  <2> HIDE DEF n
  <2>2. lots[i].qty - n[i] \in Nat /\ lots[i].unit + add \in Int /\ lots[i].rep + 1 \in Nat
        /\ n[i] + (lots[i].qty - n[i]) = lots[i].qty
    <3>1. lots[i].qty \in Nat /\ lots[i].unit \in Int /\ lots[i].rep \in Nat
      BY <2>1, LotFields
    <3>2. QED
      BY <2>1, <3>1
  <2>3. QED
    BY <2>1, <2>2 DEF TaxLot
<1> HIDE DEF n, raised, left
<1>5. /\ a \in Seq(TaxLot) /\ c \in Seq(TaxLot) /\ Len(a) = k /\ Len(c) = k
      /\ \A i \in 1..k : a[i] = raised(i) /\ c[i] = left(i)
  BY <1>1, <1>3, <1>4
<1> HIDE DEF a, c
<1>6. /\ p \in Seq(TaxLot) /\ Len(p) = 2 * k
      /\ \A i \in 1..k : /\ 2 * i - 1 \in 1..(2 * k) /\ 2 * i \in 1..(2 * k)
                         /\ p[2 * i - 1] = a[i] /\ p[2 * i] = c[i]
      /\ \A j \in 1..(2 * k) : \E i \in 1..k : j = 2 * i - 1 \/ j = 2 * i
  BY <1>5, InPairsIs
<1>7. SameLine(lots, p)
  BY <1>4, <1>5, LotTypes, PairsSame
<1>8. p = HeldParts(lots, b, q, add, anchor) /\ AdjustHeld(lots, b, q, add, anchor) = Filled(p)
  BY DEF HeldParts, AdjustHeld, a, c, n
<1> HIDE DEF p
<1>9. \A i \in 1..k : /\ p[2 * i - 1] = Raised(lots[i], n[i], add, anchor)
                      /\ p[2 * i] = Remainder(lots[i], n[i])
  BY <1>3, <1>5, <1>6
<1>10. QED
  BY <1>6, <1>7, <1>8, <1>9 DEF n

\* taxes.rs, adjust_held_lots: raising the basis of shares moves none of them.
LEMMA AdjustHeldSame ==
  ASSUME NEW lots \in Seq(TaxLot), NEW b, NEW q \in Nat, NEW add \in Int, NEW anchor \in Int
  PROVE  /\ AdjustHeld(lots, b, q, add, anchor) \in Seq(TaxLot)
         /\ SameLine(lots, AdjustHeld(lots, b, q, add, anchor))
<1> DEFINE p == HeldParts(lots, b, q, add, anchor)
<1>1. p \in Seq(TaxLot) /\ SameLine(lots, p) /\ AdjustHeld(lots, b, q, add, anchor) = Filled(p)
  <2>1. p \in Seq(TaxLot)
    BY HeldPartsAre
  <2>2. SameLine(lots, p)
    BY HeldPartsAre
  <2>3. AdjustHeld(lots, b, q, add, anchor) = Filled(p)
    BY DEF HeldParts, AdjustHeld
  <2>4. QED
    BY <2>1, <2>2, <2>3
<1> HIDE DEF p
<1>2. Filled(p) \in Seq(TaxLot) /\ SameLine(p, Filled(p))
  BY <1>1, LotTypes, FilledSame
<1>3. QED
  BY <1>1, <1>2, SameLineTrans

\* One more lot adds its shares.
LEMMA SharesAppend ==
  ASSUME NEW T, Stock(T), NEW s \in Seq(T), NEW x \in T
  PROVE  Append(s, x) \in Seq(T) /\ Shares(Append(s, x)) = Shares(s) + x.qty
<1> DEFINE w == [y \in T |-> y.qty]
<1>1. (\A y \in T : y.qty \in Int) /\ w \in [T -> Int] /\ w[x] = x.qty /\ Append(s, x) \in Seq(T)
  BY DEF Stock
<1> HIDE DEF w
<1>2. Qty(s) = Weights(w, s) /\ Qty(Append(s, x)) = Weights(w, Append(s, x)) /\ Qty(s) \in Seq(Int)
  BY <1>1, QtyIs DEF w
<1>3. Weights(w, Append(s, x)) = Append(Weights(w, s), w[x]) /\ w[x] \in Int
  BY <1>1, WeightsAre
<1>4. Qty(Append(s, x)) = Append(Qty(s), x.qty) /\ x.qty \in Int
  BY <1>1, <1>2, <1>3
<1>5. Total(Append(Qty(s), x.qty)) = Total(Qty(s)) + x.qty
  BY <1>2, <1>4, TotalAppend
<1>6. QED
  BY <1>1, <1>4, <1>5 DEF Shares

\* No lots, no shares.
LEMMA SharesOfNone ==
  ASSUME NEW T, Stock(T)
  PROVE  <<>> \in Seq(T) /\ Shares(<<>>) = 0
<1> DEFINE s == <<>>
<1>1. s \in Seq(T) /\ Len(s) = 0
  OBVIOUS
<1> HIDE DEF s
<1>2. Shares(s) = Sums(Qty(s))[Len(s)] /\ Sums(Qty(s))[0] = 0
  BY <1>1, StockSums
<1>3. QED
  BY <1>1, <1>2 DEF s

\* What the fields of a row hold.
LEMMA RowFields ==
  ASSUME NEW rows \in Seq(Rows)
  PROVE  \A i \in 1..Len(rows) : /\ rows[i] \in Rows /\ rows[i].kind \in Kinds /\ rows[i].qty \in Int
                                 /\ rows[i].price \in Int /\ rows[i].ts \in Int
<1>1. \A i \in 1..Len(rows) : rows[i] \in Rows
  OBVIOUS
<1>2. \A r \in Rows : r.kind \in Kinds /\ r.qty \in Int /\ r.price \in Int /\ r.ts \in Int
  BY DEF Rows
<1>3. QED
  BY <1>1, <1>2

\* Instants have a day.
LEMMA DayType == \A ts \in Int : Day(ts) \in Int
  BY WindowAssumption DEF Day

FaultType == [id : Nat, why : {"none", "malformed", "oversell"}]
Closed    == [qty : Nat, from : Int, sold : Int, proceeds : Int, basis : Int, disallowed : Int]

Book == [fault : FaultType, cash : Int, qty : Int, cost : Int, realized : Int, income : Int,
         paidIn : Int, lots : Seq(BookLot)]

TaxBook(rows) ==
  [fault : FaultType, lots : Seq(TaxLot), caps : [Buys(rows) -> Int],
   pending : [Buys(rows) -> Seq(Adjustment)], out : Seq(Closed)]

\* The lots a purchase brings: the replacements designated before it, then the rest.
Arrived(rows, t, id) ==
  LET tx    == rows[id]
      adjs  == t.pending[id]
      takes == InOrder(adjs, tx.qty)
      early == [i \in DOMAIN adjs |->
                   [buy |-> id, qty |-> takes[i], unit |-> tx.price + adjs[i].add,
                    from |-> adjs[i].from, rep |-> 1]]
  IN  Append(early, [buy |-> id, qty |-> tx.qty - Shares(early), unit |-> tx.price,
                     from |-> Day(tx.ts), rep |-> 0])

\* What they are made of.
ArrivedParts(rows, t, id, early, plain) ==
  /\ Arrived(rows, t, id) = Append(early, plain)
  /\ Len(early) = Len(t.pending[id])
  /\ \A i \in 1..Len(early) : /\ early[i].qty = InOrder(t.pending[id], rows[id].qty)[i]
                              /\ early[i].unit = rows[id].price + t.pending[id][i].add
                              /\ early[i].buy = id /\ early[i].rep = 1
  /\ plain.qty = rows[id].qty - Shares(early) /\ plain.unit = rows[id].price
  /\ plain.buy = id /\ plain.rep = 0

\* The lots a purchase brings are its own, and as many shares as it bought.
LEMMA ArrivedIs ==
  ASSUME NEW rows \in Seq(Rows), NEW id \in Buys(rows), rows[id].qty > 0, NEW t \in TaxBook(rows)
  PROVE  /\ Arrived(rows, t, id) \in Seq(TaxLot)
         /\ Shares(Arrived(rows, t, id)) = rows[id].qty
         /\ \A i \in 1..Len(Arrived(rows, t, id)) : Arrived(rows, t, id)[i].buy = id
         /\ \E early \in Seq(TaxLot), plain \in TaxLot : ArrivedParts(rows, t, id, early, plain)
<1> DEFINE tx    == rows[id]
           adjs  == t.pending[id]
           takes == InOrder(adjs, tx.qty)
           e(i)  == [buy |-> id, qty |-> takes[i], unit |-> tx.price + adjs[i].add,
                     from |-> adjs[i].from, rep |-> 1]
           early == [i \in DOMAIN adjs |-> e(i)]
           plain == [buy |-> id, qty |-> tx.qty - Shares(early), unit |-> tx.price,
                     from |-> Day(tx.ts), rep |-> 0]
           k     == Len(adjs)
<1>1. id \in 1..Len(rows) /\ id \in Nat
  BY DEF Buys
<1>2. tx.qty \in Nat /\ tx.price \in Int /\ Day(tx.ts) \in Int
  <2>1. tx.qty \in Int /\ tx.price \in Int /\ tx.ts \in Int
    BY <1>1, RowFields
  <2>2. Day(tx.ts) \in Int
    BY <2>1, DayType
  <2>3. QED
    BY <2>1, <2>2
<1>3. adjs \in Seq(Adjustment)
  BY DEF TaxBook
<1>4. Arrived(rows, t, id) = Append(early, plain)
  BY DEF Arrived
<1> HIDE DEF tx, adjs
<1>5. k \in Nat /\ DOMAIN adjs = 1..k /\ \A i \in 1..k : adjs[i].add \in Int /\ adjs[i].from \in Int
  <2>1. k \in Nat /\ DOMAIN adjs = 1..k /\ \A i \in 1..k : adjs[i] \in Adjustment
    BY <1>3
  <2>2. QED
    BY <2>1, LotFields
<1>6. takes \in [1..k -> Nat] /\ takes \in Seq(Int) /\ Len(takes) = k
  <2>1. (\A x \in Adjustment : x.qty \in Int) /\ tx.qty \in Int
    BY <1>2, LotFields
  <2>2. QED
    BY <1>3, <2>1, InOrderIs
<1>7. Total(takes) \in Int /\ Total(takes) <= tx.qty
  <2>1. \A i \in 0..k : Sums(takes)[i] = IF Sums(Qty(adjs))[i] <= tx.qty THEN Sums(Qty(adjs))[i] ELSE tx.qty
    BY <1>2, <1>3, LotTypes, InOrderSums
  <2>2. k \in 0..k /\ Sums(Qty(adjs))[k] \in Nat
    BY <1>3, <1>5, LotTypes, StockSums
  <2>3. Total(takes) = Sums(takes)[k]
    BY <1>6 DEF Total
  <2>4. QED
    BY <1>2, <2>1, <2>2, <2>3
<1> HIDE DEF takes
<1>8. \A i \in 1..k : e(i) \in TaxLot
  <2> TAKE i \in 1..k
  <2>1. takes[i] \in Nat /\ tx.price + adjs[i].add \in Int /\ adjs[i].from \in Int
    BY <1>2, <1>5, <1>6
  <2>2. QED
    BY <1>1, <2>1 DEF TaxLot
<1>9. \A i \in 1..k : /\ e(i).qty = takes[i] /\ e(i).buy = id /\ e(i).rep = 1
                      /\ e(i).unit = tx.price + adjs[i].add
  OBVIOUS
<1>10. /\ early \in Seq(TaxLot) /\ Len(early) = k
       /\ \A i \in 1..k : /\ early[i].qty = takes[i] /\ early[i].buy = id /\ early[i].rep = 1
                         /\ early[i].unit = tx.price + adjs[i].add
  <2> HIDE DEF e
  <2>1. early \in Seq(TaxLot) /\ Len(early) = k /\ \A i \in 1..k : early[i] = e(i)
    BY <1>5, <1>8
  <2>2. QED
    BY <1>9, <2>1
<1> HIDE DEF early
<1>11. Qty(early) = takes
  <2>1. DOMAIN early = 1..k /\ Qty(early) = [i \in 1..k |-> early[i].qty]
    BY <1>10 DEF Qty
  <2>2. takes = [i \in 1..k |-> takes[i]]
    BY <1>6
  <2> HIDE DEF k
  <2>3. QED
    BY <1>10, <2>1, <2>2
<1>12. Shares(early) \in Nat /\ Shares(early) <= tx.qty
  BY <1>7, <1>10, <1>11, LotTypes, StockSums DEF Shares
<1>13. /\ plain \in TaxLot /\ plain.qty = tx.qty - Shares(early) /\ plain.buy = id
       /\ plain.unit = tx.price /\ plain.rep = 0
  <2>1. tx.qty - Shares(early) \in Nat
    BY <1>2, <1>12
  <2>2. QED
    BY <1>1, <1>2, <2>1 DEF TaxLot
<1> HIDE DEF plain
<1>14. Append(early, plain) \in Seq(TaxLot) /\ Shares(Append(early, plain)) = tx.qty
  <2>1. /\ Append(early, plain) \in Seq(TaxLot)
        /\ Shares(Append(early, plain)) = Shares(early) + plain.qty
    BY <1>10, <1>13, LotTypes, SharesAppend
  <2>2. QED
    BY <1>2, <1>12, <1>13, <2>1
<1>15. \A i \in 1..Len(Append(early, plain)) : Append(early, plain)[i].buy = id
  <2> TAKE i \in 1..Len(Append(early, plain))
  <2>1. i \in 1..k \/ i = k + 1
    BY <1>5, <1>10
  <2>2. CASE i \in 1..k
    BY <1>10, <1>13, <2>2
  <2>3. CASE i = k + 1
    BY <1>10, <1>13, <2>3
  <2>4. QED
    BY <2>1, <2>2, <2>3
<1>16. ArrivedParts(rows, t, id, early, plain)
  BY <1>4, <1>10, <1>13 DEF ArrivedParts, tx, adjs, takes
<1>17. QED
  BY <1>4, <1>10, <1>13, <1>14, <1>15, <1>16 DEF tx

\* A purchase enters both engines' lines alike.
LEMMA TaxBuySame ==
  ASSUME NEW rows \in Seq(Rows), NEW id \in Buys(rows), rows[id].qty > 0, NEW t \in TaxBook(rows)
  PROVE  /\ TaxBuy(rows, t, id) \in TaxBook(rows) /\ TaxBuy(rows, t, id).fault = t.fault
         /\ TaxBuy(rows, t, id).lots = Filled(t.lots \o Arrived(rows, t, id))
         /\ \A s \in Seq(BookLot), x \in BookLot :
               SameLine(s, t.lots) /\ x.buy = id /\ x.qty = rows[id].qty =>
                  SameLine(Append(s, x), TaxBuy(rows, t, id).lots)
<1> DEFINE new == Arrived(rows, t, id)
           lots == Filled(t.lots \o new)
<1>1. t.lots \in Seq(TaxLot) /\ id \in DOMAIN t.pending
  BY DEF TaxBook
<1>2. /\ new \in Seq(TaxLot) /\ Shares(new) = rows[id].qty
      /\ \A i \in 1..Len(new) : new[i].buy = id
  BY ArrivedIs
<1>3. TaxBuy(rows, t, id) = [t EXCEPT !.lots = lots, !.pending[id] = <<>>]
  BY DEF TaxBuy, Arrived
<1> HIDE DEF new
<1>4. t.lots \o new \in Seq(TaxLot)
  BY <1>1, <1>2
<1>5. lots \in Seq(TaxLot) /\ SameLine(t.lots \o new, lots)
  BY <1>4, LotTypes, FilledSame
<1>6. ASSUME NEW s \in Seq(BookLot), NEW x \in BookLot, SameLine(s, t.lots), x.buy = id, x.qty = rows[id].qty
      PROVE  SameLine(Append(s, x), lots)
  <2> DEFINE one == <<x>>
  <2>1. one \in Seq(BookLot) /\ Append(s, x) = s \o one /\ one = Append(<<>>, x)
        /\ \A i \in 1..Len(one) : one[i].buy = id
    BY <1>6
  <2>2. Shares(one) = rows[id].qty
    <3>1. x.qty \in Nat /\ <<>> \in Seq(BookLot) /\ Shares(<<>>) = 0
      BY LotFields, LotTypes, SharesOfNone
    <3> DEFINE none == <<>>
    <3>2. none \in Seq(BookLot) /\ Shares(none) = 0 /\ one = Append(none, x)
      BY <2>1, <3>1
    <3> HIDE DEF none, one
    <3>3. Shares(Append(none, x)) = Shares(none) + x.qty
      BY <3>2, LotTypes, SharesAppend
    <3>4. QED
      BY <1>6, <3>1, <3>2, <3>3
  <2> HIDE DEF one
  <2>3. \A n \in 1..Shares(one) : Owner(one, n) = id
    BY <2>1, LotTypes, OwnerOfOne
  <2>4. \A n \in 1..Shares(new) : Owner(new, n) = id
    BY <1>2, LotTypes, OwnerOfOne
  <2>5. SameLine(one, new)
    BY <1>2, <2>2, <2>3, <2>4 DEF SameLine
  <2>6. SameLine(s \o one, t.lots \o new)
    BY <1>1, <1>2, <1>6, <2>1, <2>5, LotTypes, SameConcat
  <2>7. QED
    <3> HIDE DEF lots
    <3>1. SameLine(Append(s, x), t.lots \o new)
      BY <2>1, <2>6
    <3>2. QED
      BY <1>5, <3>1, SameLineTrans
<1> HIDE DEF lots
<1>7. /\ TaxBuy(rows, t, id) \in TaxBook(rows) /\ TaxBuy(rows, t, id).fault = t.fault
      /\ TaxBuy(rows, t, id).lots = lots
  <2> DEFINE none == <<>>
             pend == [t.pending EXCEPT ![id] = none]
  <2>1. none \in Seq(Adjustment) /\ TaxBuy(rows, t, id) = [t EXCEPT !.lots = lots, !.pending = pend]
    BY <1>3
  <2> HIDE DEF none
  <2>2. pend \in [Buys(rows) -> Seq(Adjustment)]
    BY <2>1 DEF TaxBook
  <2> HIDE DEF pend
  <2>3. QED
    BY <1>5, <2>1, <2>2 DEF TaxBook
<1>8. QED
  BY <1>6, <1>7 DEF lots, new

\* Elements whose quantity is a number, of capacity or of debt.
Counted(T) ==
  \A x \in T : /\ x.qty \in Int
               /\ \A q \in Nat : [x EXCEPT !.qty = q] \in T /\ [x EXCEPT !.qty = q].qty = q

\* c is what the quantities o take from s, in the order of s.
TakenFrom(c, s, o) ==
  \E at \in [1..Len(c) -> 1..Len(s)] :
     /\ \A j \in 1..Len(c) : c[j].qty > 0 /\ c[j] = [s[at[j]] EXCEPT !.qty = o[at[j]]]
     /\ \A j, l \in 1..Len(c) : j < l => at[j] < at[l]
     /\ \A i \in 1..Len(s) : o[i] > 0 => \E j \in 1..Len(c) : at[j] = i

\* Whole shares are counted in integers.
LEMMA StockCounted == \A T : Stock(T) => Counted(T)
  BY DEF Stock, Counted

\* What is taken of a sequence are parts of its elements, in their order.
LEMMA TakenIs ==
  ASSUME NEW T, Counted(T), NEW s \in Seq(T), NEW n \in Int
  PROVE  Taken(s, n) \in Seq(T) /\ TakenFrom(Taken(s, n), s, InOrder(s, n))
<1> DEFINE t == InOrder(s, n)
           k == Len(s)
           e(i) == [s[i] EXCEPT !.qty = t[i]]
           v == WithQty(s, t)
           S == {i \in DOMAIN v : v[i].qty > 0}
<1>1. (\A x \in T : x.qty \in Int) /\ k \in Nat /\ DOMAIN s = 1..k /\ \A i \in 1..k : s[i] \in T
  BY DEF Counted
<1>2. t \in [1..k -> Nat]
  BY <1>1, InOrderIs
<1> HIDE DEF t
<1>3. \A i \in 1..k : e(i) \in T /\ e(i).qty = t[i]
  BY <1>1, <1>2 DEF Counted
<1>4. v = [i \in 1..k |-> e(i)]
  BY <1>1 DEF WithQty
<1> HIDE DEF e, v
<1>5. v \in Seq(T) /\ Len(v) = k /\ DOMAIN v = 1..k /\ \A i \in 1..k : v[i] = e(i) /\ v[i].qty = t[i]
  BY <1>1, <1>3, <1>4
<1>6. Taken(s, n) = Chosen(v, S)
  BY DEF Taken, Filled, t, v
<1>7. \A i \in 1..k : i \in S <=> t[i] > 0
  BY <1>5
<1> DEFINE c == Chosen(v, S)
<1>8. c \in Seq(T)
  <2> HIDE DEF S
  <2>1. QED
    BY <1>5, ChosenIs
<1>9. PICK at \in [1..Len(c) -> 1..k] :
         /\ \A j \in 1..Len(c) : at[j] \in S /\ c[j] = v[at[j]]
         /\ \A j, l \in 1..Len(c) : j < l => at[j] < at[l]
         /\ \A i \in 1..k : i \in S => \E j \in 1..Len(c) : at[j] = i
  <2> HIDE DEF S, k
  <2>1. v \in Seq(T) /\ Len(v) = k
    BY <1>5
  <2>2. \E at \in [1..Len(c) -> 1..Len(v)] :
           /\ \A j \in 1..Len(c) : at[j] \in S /\ c[j] = v[at[j]]
           /\ \A j, l \in 1..Len(c) : j < l => at[j] < at[l]
           /\ \A i \in 1..Len(v) : i \in S => \E j \in 1..Len(c) : at[j] = i
    BY <2>1, ChosenFrom
  <2>3. QED
    BY <2>1, <2>2
<1> HIDE DEF c, S, k
<1>10. \A j \in 1..Len(c) : c[j].qty > 0 /\ c[j] = e(at[j])
  <2> TAKE j \in 1..Len(c)
  <2>1. at[j] \in 1..k /\ at[j] \in S /\ c[j] = v[at[j]]
    BY <1>9
  <2>2. QED
    BY <1>5, <1>7, <2>1
<1>11. \A i \in 1..k : t[i] > 0 => \E j \in 1..Len(c) : at[j] = i
  BY <1>7, <1>9
<1>12. QED
  <2>1. c = Taken(s, n)
    BY <1>6 DEF c
  <2>2. /\ \A j \in 1..Len(c) : c[j].qty > 0 /\ c[j] = [s[at[j]] EXCEPT !.qty = t[at[j]]]
        /\ \A j, l \in 1..Len(c) : j < l => at[j] < at[l]
    BY <1>9, <1>10 DEF e
  <2>3. TakenFrom(c, s, t)
    BY <1>9, <1>11, <2>2 DEF TakenFrom, k
  <2>4. QED
    BY <1>8, <2>1, <2>3 DEF t, c

\* The candidates are purchases, each once, with their capacities.
Capacity(rows) == [buy : Buys(rows), qty : Int]

\* Each purchase is a candidate once, with its remaining capacity.
LEMMA CandidatesAre ==
  ASSUME NEW rows \in Seq(Rows), NEW id, NEW t \in TaxBook(rows)
  PROVE  /\ Counted(Capacity(rows)) /\ Candidates(rows, id, t) \in Seq(Capacity(rows))
         /\ \A i \in 1..Len(Candidates(rows, id, t)) :
               Candidates(rows, id, t)[i].qty = t.caps[Candidates(rows, id, t)[i].buy]
         /\ \A i, j \in 1..Len(Candidates(rows, id, t)) :
               Candidates(rows, id, t)[i].buy = Candidates(rows, id, t)[j].buy => i = j
<1> DEFINE n == Len(rows)
           order == ReplayOrder(rows)
           near  == {k \in DOMAIN order :
                     /\ rows[order[k]].kind = "buy"
                     /\ Day(rows[order[k]].ts) - Day(rows[id].ts) \in (0 - Window) .. Window}
           buys == Chosen(order, near)
           e(i) == [buy |-> buys[i], qty |-> t.caps[buys[i]]]
           cand == Candidates(rows, id, t)
<1>0. Counted(Capacity(rows))
  BY DEF Counted, Capacity
<1>1. n \in Nat /\ DOMAIN rows = 1..n /\ Permutes(order, n)
  BY ReplayOrderIs
<1> HIDE DEF n
<1>2. order \in Seq(1..n) /\ Len(order) = n
  BY <1>1 DEF Permutes
<1>3. cand = [i \in DOMAIN buys |-> e(i)]
  BY DEF Candidates
<1> HIDE DEF order
<1>4. buys \in Seq(1..n)
  <2> HIDE DEF near
  <2>1. QED
    BY <1>2, ChosenIs
<1>5. PICK at \in [1..Len(buys) -> 1..n] :
         /\ \A j \in 1..Len(buys) : at[j] \in near /\ buys[j] = order[at[j]]
         /\ \A j, l \in 1..Len(buys) : j < l => at[j] < at[l]
  <2> HIDE DEF near
  <2>1. QED
    BY <1>2, ChosenFrom
<1>6. \A j \in 1..Len(buys) : rows[buys[j]].kind = "buy"
  BY <1>5
<1> HIDE DEF buys, near
<1>7. /\ Len(buys) \in Nat /\ DOMAIN buys = 1..Len(buys)
      /\ \A j \in 1..Len(buys) : buys[j] \in Buys(rows)
  BY <1>1, <1>4, <1>6 DEF Buys
<1>8. \A j \in 1..Len(buys) : e(j) \in Capacity(rows) /\ e(j).buy = buys[j] /\ e(j).qty = t.caps[buys[j]]
  BY <1>7 DEF TaxBook, Capacity
<1> HIDE DEF e
<1>9. cand \in Seq(Capacity(rows)) /\ Len(cand) = Len(buys) /\ \A j \in 1..Len(buys) : cand[j] = e(j)
  BY <1>3, <1>7, <1>8
<1> HIDE DEF cand
<1>10. \A i, j \in 1..Len(buys) : buys[i] = buys[j] => i = j
  <2> TAKE i, j \in 1..Len(buys)
  <2> HAVE buys[i] = buys[j]
  <2>1. at[i] = at[j]
    <3>1. buys[i] = order[at[i]] /\ buys[j] = order[at[j]] /\ at[i] \in 1..n /\ at[j] \in 1..n
      BY <1>5
    <3>2. \A k, l \in 1..n : order[k] = order[l] => k = l
      BY <1>1 DEF Permutes
    <3>3. QED
      BY <3>1, <3>2
  <2>2. ~ (i < j) /\ ~ (j < i)
    BY <1>5, <2>1
  <2>3. QED
    BY <1>7, <2>2
<1>11. QED
  BY <1>0, <1>8, <1>9, <1>10 DEF cand

\* The replacements of the shares of one closed lot.
Matches(rows, id, t, c) ==
  IF c.unit - rows[id].price > 0 THEN Taken(Candidates(rows, id, t), c.qty) ELSE <<>>

Match(rows) == [buy : Buys(rows), qty : Nat]

\* The replacements of a chunk are of different purchases, none beyond its capacity.
LEMMA MatchesAre ==
  ASSUME NEW rows \in Seq(Rows), NEW id, NEW t \in TaxBook(rows), NEW c \in TaxLot
  PROVE  /\ Matches(rows, id, t, c) \in Seq(Match(rows))
         /\ Shares(Matches(rows, id, t, c)) \in Nat
         /\ \A j \in 1..Len(Matches(rows, id, t, c)) :
               /\ Matches(rows, id, t, c)[j].qty > 0
               /\ Matches(rows, id, t, c)[j].qty <= t.caps[Matches(rows, id, t, c)[j].buy]
         /\ \A i, j \in 1..Len(Matches(rows, id, t, c)) :
               Matches(rows, id, t, c)[i].buy = Matches(rows, id, t, c)[j].buy => i = j
<1> DEFINE cand == Candidates(rows, id, t)
           taken == Taken(cand, c.qty)
           m == Matches(rows, id, t, c)
           none == <<>>
<1>0. Stock(Match(rows)) /\ c.qty \in Int /\ c.qty \in Nat
  BY LotFields DEF Stock, Match
<1>1. /\ Counted(Capacity(rows)) /\ cand \in Seq(Capacity(rows))
      /\ \A i \in 1..Len(cand) : cand[i].qty = t.caps[cand[i].buy]
      /\ \A i, j \in 1..Len(cand) : cand[i].buy = cand[j].buy => i = j
  BY CandidatesAre
<1> HIDE DEF cand
<1>2. taken \in Seq(Capacity(rows))
  BY <1>0, <1>1, TakenIs
<1> DEFINE o == InOrder(cand, c.qty)
<1>3. PICK at \in [1..Len(taken) -> 1..Len(cand)] :
         /\ \A j \in 1..Len(taken) : taken[j].qty > 0 /\ taken[j] = [cand[at[j]] EXCEPT !.qty = o[at[j]]]
         /\ \A j, l \in 1..Len(taken) : j < l => at[j] < at[l]
  <2>1. TakenFrom(taken, cand, o)
    BY <1>0, <1>1, TakenIs
  <2> HIDE DEF taken, o
  <2>2. QED
    BY <2>1 DEF TakenFrom
<1>4. \A i \in 1..Len(cand) : o[i] > 0 => o[i] <= cand[i].qty
  <2>1. \A x \in Capacity(rows) : x.qty \in Int
    BY DEF Capacity
  <2>2. Qty(cand) \in Seq(Int) /\ Len(Qty(cand)) = Len(cand)
    BY <1>1, <2>1, QtyIs
  <2>3. \A i \in 1..Len(cand) : Sums(Qty(cand))[i - 1] \in Int /\ cand[i].qty \in Int
    BY <1>1, <2>1, <2>2, SumsAre
  <2>4. \A i \in 1..Len(cand) :
               LET q == cand[i].qty
                   left == c.qty - Sums(Qty(cand))[i - 1]
               IN  o[i] = IF left <= 0 \/ q <= 0 THEN 0 ELSE IF q <= left THEN q ELSE left
    BY <1>0, <1>1, <2>1, InOrderIs
  <2>5. QED
    BY <1>0, <2>3, <2>4
<1> HIDE DEF taken, o
<1>5. ASSUME NEW j \in 1..Len(taken)
      PROVE  /\ taken[j] \in Match(rows) /\ taken[j].qty > 0
             /\ taken[j].buy = cand[at[j]].buy /\ taken[j].qty <= t.caps[taken[j].buy]
  <2>1. at[j] \in 1..Len(cand) /\ taken[j].qty > 0 /\ taken[j] = [cand[at[j]] EXCEPT !.qty = o[at[j]]]
    BY <1>3
  <2>2. cand[at[j]] \in Capacity(rows) /\ taken[j] \in Capacity(rows)
    BY <1>1, <1>2, <2>1
  <2>3. taken[j].buy = cand[at[j]].buy /\ taken[j].qty = o[at[j]]
    BY <2>1, <2>2 DEF Capacity
  <2>4. taken[j].qty <= t.caps[taken[j].buy]
    BY <1>1, <1>4, <2>1, <2>3
  <2>5. taken[j] \in Match(rows)
    BY <2>1, <2>2 DEF Capacity, Match
  <2>6. QED
    BY <2>1, <2>3, <2>4, <2>5
<1>6. \A i, j \in 1..Len(taken) : taken[i].buy = taken[j].buy => i = j
  <2> TAKE i, j \in 1..Len(taken)
  <2> HAVE taken[i].buy = taken[j].buy
  <2>1. at[i] = at[j]
    BY <1>1, <1>3, <1>5
  <2>2. ~ (i < j) /\ ~ (j < i) /\ i \in Int /\ j \in Int
    BY <1>2, <1>3, <2>1
  <2>3. QED
    BY <2>2
<1>7. taken \in Seq(Match(rows))
  <2>1. Len(taken) \in Nat /\ taken = [j \in 1..Len(taken) |-> taken[j]]
    BY <1>2
  <2>2. QED
    BY <1>5, <2>1
<1>8. none \in Seq(Match(rows)) /\ Len(none) = 0
  OBVIOUS
<1>9. m = IF c.unit - rows[id].price > 0 THEN taken ELSE none
  BY DEF Matches, taken, cand
<1> HIDE DEF none, m
<1>10. m \in Seq(Match(rows))
  BY <1>7, <1>8, <1>9
<1>11. Shares(m) \in Nat
  BY <1>0, <1>10, StockSums
<1>12. \A j \in 1..Len(m) : m[j].qty > 0 /\ m[j].qty <= t.caps[m[j].buy]
  BY <1>5, <1>8, <1>9
<1>13. \A i, j \in 1..Len(m) : m[i].buy = m[j].buy => i = j
  BY <1>6, <1>8, <1>9
<1>14. QED
  BY <1>10, <1>11, <1>12, <1>13 DEF m

\* Every line has the owners it has.
LEMMA SameLineRefl == \A s : SameLine(s, s)
  BY DEF SameLine

\* One replacement moves no share and raises no fault.
LEMMA DesignateIs ==
  ASSUME NEW rows \in Seq(Rows), NEW id \in 1..Len(rows), NEW t \in TaxBook(rows),
         NEW m \in Match(rows), NEW add \in Int, NEW held \in Int
  PROVE  /\ Designate(rows, id, t, m, add, held) \in TaxBook(rows)
         /\ Designate(rows, id, t, m, add, held).fault = t.fault
         /\ SameLine(t.lots, Designate(rows, id, t, m, add, held).lots)
<1> DEFINE anchor == Day(rows[m.buy].ts) - held
           adj    == [qty |-> m.qty, add |-> add, from |-> anchor]
           caps   == [t.caps EXCEPT ![m.buy] = t.caps[m.buy] - m.qty]
           capped == [t EXCEPT !.caps = caps]
           lots   == AdjustHeld(t.lots, m.buy, m.qty, add, anchor)
           pend   == [t.pending EXCEPT ![m.buy] = Append(t.pending[m.buy], adj)]
           d      == Designate(rows, id, t, m, add, held)
<1>1. m.buy \in Buys(rows) /\ m.buy \in 1..Len(rows) /\ m.qty \in Nat
  BY DEF Match, Buys
<1>2. anchor \in Int
  <2>1. Day(rows[m.buy].ts) \in Int
    BY <1>1, RowFields, DayType
  <2>2. QED
    BY <2>1
<1>3. /\ t.lots \in Seq(TaxLot) /\ t.caps \in [Buys(rows) -> Int]
      /\ t.pending \in [Buys(rows) -> Seq(Adjustment)]
  BY DEF TaxBook
<1>4. d = IF HasLots(rows, m.buy, id) THEN [capped EXCEPT !.lots = lots]
          ELSE [capped EXCEPT !.pending = pend]
  BY <1>3 DEF Designate, TaxBook
<1> HIDE DEF anchor
<1>5. adj \in Adjustment
  BY <1>1, <1>2 DEF Adjustment
<1> HIDE DEF adj
<1>6. caps \in [Buys(rows) -> Int]
  <2>1. t.caps[m.buy] - m.qty \in Int
    BY <1>1, <1>3
  <2>2. QED
    BY <1>1, <1>3, <2>1
<1>7. pend \in [Buys(rows) -> Seq(Adjustment)]
  <2>1. Append(t.pending[m.buy], adj) \in Seq(Adjustment)
    BY <1>1, <1>3, <1>5
  <2>2. QED
    BY <1>1, <1>3, <2>1
<1>8. lots \in Seq(TaxLot) /\ SameLine(t.lots, lots)
  BY <1>1, <1>2, <1>3, AdjustHeldSame
<1> HIDE DEF caps, pend, lots, d
<1>9. capped \in TaxBook(rows) /\ capped.fault = t.fault /\ capped.lots = t.lots
  BY <1>6 DEF TaxBook
<1>10. CASE HasLots(rows, m.buy, id)
  <2>1. d = [capped EXCEPT !.lots = lots]
    BY <1>4, <1>10
  <2> HIDE DEF capped
  <2>2. d \in TaxBook(rows) /\ d.fault = t.fault /\ d.lots = lots
    BY <1>8, <1>9, <2>1 DEF TaxBook
  <2>3. QED
    BY <1>8, <2>2 DEF d
<1>11. CASE ~ HasLots(rows, m.buy, id)
  <2>1. d = [capped EXCEPT !.pending = pend]
    BY <1>4, <1>11
  <2> HIDE DEF capped
  <2>2. d \in TaxBook(rows) /\ d.fault = t.fault /\ d.lots = t.lots
    BY <1>7, <1>9, <2>1 DEF TaxBook
  <2>3. QED
    BY <2>2, SameLineRefl DEF d
<1>12. QED
  BY <1>10, <1>11

-----------------------------------------------------------------------------
(* The tables of a sale.                                                    *)

\* The tax book after each of the matches of one closed lot.
WashTable(f, rows, id, t, c) ==
  LET m == Matches(rows, id, t, c)
  IN  /\ f[0] = t /\ \A k \in 0..Len(m) : f[k] \in TaxBook(rows)
      /\ \A k \in 1..Len(m) :
            f[k] = Designate(rows, id, f[k - 1], m[k], c.unit - rows[id].price,
                             Day(rows[id].ts) - c.from)

\* What CloseChunk reports of the chunk c.
OutRow(rows, id, t, c) ==
  [qty        |-> c.qty,
   from       |-> c.from,
   sold       |-> Day(rows[id].ts),
   proceeds   |-> c.qty * rows[id].price,
   basis      |-> c.qty * c.unit,
   disallowed |-> Shares(Matches(rows, id, t, c)) * Max({c.unit - rows[id].price, 0})]

\* CloseChunk as the last entry of the table of its replacements.
LEMMA CloseChunkIs ==
  ASSUME NEW rows \in Seq(Rows), NEW id \in 1..Len(rows), NEW t \in TaxBook(rows), NEW c \in TaxLot
  PROVE  \E f : /\ WashTable(f, rows, id, t, c)
                /\ CloseChunk(rows, id, t, c)
                     = [f[Len(Matches(rows, id, t, c))] EXCEPT !.out = Append(@, OutRow(rows, id, t, c))]
<1> DEFINE m == Matches(rows, id, t, c)
           n == Len(m)
           add == c.unit - rows[id].price
           held == Day(rows[id].ts) - c.from
           next(k, x) == Designate(rows, id, x, m[k], add, held)
           T == TaxBook(rows)
           step == [p \in (1..n) \X T |-> next(p[1], p[2])]
           Is(f) == f = [k \in 0..n |-> IF k = 0 THEN t ELSE next(k, f[k - 1])]
           F == CHOOSE f : Is(f)
<1>1. m \in Seq(Match(rows))
  BY MatchesAre
<1>2. add \in Int /\ held \in Int
  <2>1. rows[id].price \in Int /\ Day(rows[id].ts) \in Int /\ c.unit \in Int /\ c.from \in Int
    BY RowFields, DayType, LotFields
  <2>2. QED
    BY <2>1
<1>3. CloseChunk(rows, id, t, c) = [F[n] EXCEPT !.out = Append(@, OutRow(rows, id, t, c))]
  BY DEF CloseChunk, OutRow, Matches
<1> HIDE DEF m, add, held
<1>4. n \in Nat /\ \A k \in 1..n : m[k] \in Match(rows) /\ k - 1 \in 0..n
  BY <1>1
<1>5. \A k \in 1..n, x \in T : next(k, x) \in T
  BY <1>2, <1>4, DesignateIs
<1> HIDE DEF next, T, n
<1>6. PICK f : IsTable(f, T, n, t, step)
  <2>1. \A k \in 1..n, x \in T : step[<<k, x>>] \in T
    BY <1>5
  <2> HIDE DEF step
  <2>2. t \in T
    BY DEF T
  <2>3. QED
    BY <1>4, <2>1, <2>2, TableOf
<1>7. f \in [0..n -> T] /\ f[0] = t /\ \A k \in 1..n : f[k] = next(k, f[k - 1])
  <2>1. \A k \in 1..n : f[k - 1] \in T
    BY <1>4, <1>6 DEF IsTable
  <2>2. \A k \in 1..n : step[<<k, f[k - 1]>>] = next(k, f[k - 1])
    BY <2>1
  <2> HIDE DEF step
  <2>3. QED
    BY <1>6, <2>2 DEF IsTable
<1>8. Is(f)
  BY <1>7
<1>9. Is(F)
  BY <1>8
<1> HIDE DEF F
<1>10. F[0] = t /\ \A k \in 1..n : F[k] = next(k, F[k - 1])
  BY <1>4, <1>9
<1>11. \A k \in 0..n : F[k] \in T
  <2> DEFINE G == {k \in 0..n : F[k] \in T}
  <2>1. 0 \in G
    BY <1>4, <1>10 DEF T
  <2>2. \A k \in 1..n : k - 1 \in G => k \in G
    BY <1>4, <1>5, <1>10
  <2> HIDE DEF G
  <2>3. \A k \in 0..n : k \in G
    BY <1>4, <2>1, <2>2, UpTo
  <2>4. QED
    BY <2>3 DEF G
<1>12. WashTable(F, rows, id, t, c)
  BY <1>10, <1>11 DEF WashTable, m, n, next, add, held, T
<1>13. QED
  BY <1>3, <1>12 DEF m, n

\* A closed chunk moves none of the shares left.
LEMMA CloseChunkSame ==
  ASSUME NEW rows \in Seq(Rows), NEW id \in 1..Len(rows), NEW t \in TaxBook(rows), NEW c \in TaxLot
  PROVE  /\ CloseChunk(rows, id, t, c) \in TaxBook(rows)
         /\ CloseChunk(rows, id, t, c).fault = t.fault
         /\ SameLine(t.lots, CloseChunk(rows, id, t, c).lots)
<1> DEFINE m == Matches(rows, id, t, c)
           n == Len(m)
           out == OutRow(rows, id, t, c)
           G == {k \in 0..n : TRUE}
<1>1. PICK f : WashTable(f, rows, id, t, c) /\ CloseChunk(rows, id, t, c) = [f[n] EXCEPT !.out = Append(@, out)]
  BY CloseChunkIs
<1>2. m \in Seq(Match(rows)) /\ Shares(m) \in Nat
  BY MatchesAre
<1>3. n \in Nat /\ \A k \in 1..n : m[k] \in Match(rows) /\ k - 1 \in 0..n
  BY <1>2
<1>4. /\ c.unit - rows[id].price \in Int /\ Day(rows[id].ts) - c.from \in Int
      /\ rows[id].price \in Int /\ Day(rows[id].ts) \in Int
      /\ c.unit \in Int /\ c.from \in Int /\ c.qty \in Nat
  <2>1. rows[id].price \in Int /\ rows[id].ts \in Int
    BY RowFields
  <2>2. Day(rows[id].ts) \in Int /\ c.unit \in Int /\ c.from \in Int /\ c.qty \in Nat
    BY <2>1, DayType, LotFields
  <2>3. QED
    BY <2>1, <2>2
<1>5. out \in Closed
  <2>1. Max({c.unit - rows[id].price, 0}) \in Int
    <3> DEFINE loss == c.unit - rows[id].price
    <3>1. loss \in Int
      BY <1>4
    <3> HIDE DEF loss
    <3>2. Max({loss, 0}) \in Int
      BY <3>1, GreaterAndLess
    <3>3. QED
      BY <3>2 DEF loss
  <2>3. /\ c.qty * rows[id].price \in Int /\ c.qty * c.unit \in Int
        /\ Shares(m) * Max({c.unit - rows[id].price, 0}) \in Int
    <3> DEFINE loss == Max({c.unit - rows[id].price, 0})
    <3>1. c.qty \in Int /\ loss \in Int /\ Shares(m) \in Int
      BY <1>2, <1>4, <2>1
    <3> HIDE DEF loss, m
    <3>2. c.qty * rows[id].price \in Int
      BY <1>4, <3>1
    <3>3. c.qty * c.unit \in Int
      BY <1>4, <3>1
    <3>4. Shares(m) * loss \in Int
      BY <3>1
    <3>5. QED
      BY <3>2, <3>3, <3>4 DEF loss
  <2>4. QED
    BY <1>4, <2>3 DEF OutRow, Closed
<1>6. \A k \in 0..n : f[k] \in TaxBook(rows) /\ f[k].fault = t.fault /\ SameLine(t.lots, f[k].lots)
  <2> DEFINE H == {k \in 0..n : f[k] \in TaxBook(rows) /\ f[k].fault = t.fault /\ SameLine(t.lots, f[k].lots)}
  <2>1. /\ f[0] = t
        /\ \A k \in 1..n :
              f[k] = Designate(rows, id, f[k - 1], m[k], c.unit - rows[id].price, Day(rows[id].ts) - c.from)
    BY <1>1 DEF WashTable
  <2>2. 0 \in H
    BY <1>3, <2>1, SameLineRefl
  <2>3. ASSUME NEW k \in 1..n, k - 1 \in H PROVE k \in H
    <3>1. f[k - 1] \in TaxBook(rows) /\ f[k - 1].fault = t.fault /\ SameLine(t.lots, f[k - 1].lots)
      BY <2>3
    <3>2. f[k] \in TaxBook(rows) /\ f[k].fault = f[k - 1].fault /\ SameLine(f[k - 1].lots, f[k].lots)
      <4> DEFINE old == f[k - 1]
                 add == c.unit - rows[id].price
                 held == Day(rows[id].ts) - c.from
                 d == Designate(rows, id, old, m[k], add, held)
      <4>1. old \in TaxBook(rows) /\ m[k] \in Match(rows) /\ add \in Int /\ held \in Int /\ f[k] = d
        BY <1>3, <1>4, <2>1, <3>1
      <4> HIDE DEF old, add, held, m
      <4>2. d \in TaxBook(rows) /\ d.fault = old.fault /\ SameLine(old.lots, d.lots)
        BY <4>1, DesignateIs
      <4>3. QED
        BY <4>1, <4>2 DEF old
    <3>3. QED
      BY <1>3, <3>1, <3>2, SameLineTrans
  <2> HIDE DEF H, n
  <2>4. \A k \in 0..n : k \in H
    BY <1>3, <2>2, <2>3, UpTo
  <2>5. QED
    BY <2>4 DEF H
<1>7. f[n] \in TaxBook(rows) /\ f[n].fault = t.fault /\ SameLine(t.lots, f[n].lots)
  BY <1>3, <1>6
<1> HIDE DEF out, n
<1>8. Append(f[n].out, out) \in Seq(Closed)
  BY <1>5, <1>7 DEF TaxBook
<1>9. [f[n] EXCEPT !.out = Append(@, out)] \in TaxBook(rows)
  BY <1>7, <1>8 DEF TaxBook
<1>10. [f[n] EXCEPT !.out = Append(@, out)].fault = f[n].fault /\ [f[n] EXCEPT !.out = Append(@, out)].lots = f[n].lots
  BY <1>7 DEF TaxBook
<1>11. QED
  BY <1>1, <1>7, <1>9, <1>10

\* The shares of one purchase, lot by lot.
LEMMA OfBuyIs ==
  ASSUME NEW lots \in Seq(TaxLot), NEW b
  PROVE  /\ OfBuy(lots, b) \in Seq(Int) /\ Len(OfBuy(lots, b)) = Len(lots)
         /\ \A i \in 1..Len(lots) :
               OfBuy(lots, b)[i] = (IF lots[i].buy = b THEN lots[i].qty ELSE 0) /\ OfBuy(lots, b)[i] \in Nat
         /\ HeldOf(lots, b) \in Nat
<1> DEFINE o == OfBuy(lots, b)
           e(i) == IF lots[i].buy = b THEN lots[i].qty ELSE 0
           k == Len(lots)
<1>1. k \in Nat /\ DOMAIN lots = 1..k /\ \A i \in 1..k : lots[i] \in TaxLot
  OBVIOUS
<1>2. \A i \in 1..k : e(i) \in Nat
  BY <1>1, LotFields
<1>3. o = [i \in 1..k |-> e(i)]
  BY <1>1 DEF OfBuy
<1> HIDE DEF o, e
<1>4. o \in Seq(Int) /\ Len(o) = k /\ \A i \in 1..k : o[i] = e(i) /\ o[i] \in Nat
  BY <1>1, <1>2, <1>3
<1>5. HeldOf(lots, b) \in Nat
  <2>1. \A i \in 1..Len(o) : o[i] >= 0
    BY <1>4
  <2>2. \A i \in 0..Len(o) : \A j \in 0..i : Sums(o)[i] \in Nat
    BY <1>4, <2>1, SumsGrow
  <2>3. k \in 0..Len(o) /\ k \in 0..k
    BY <1>1, <1>4
  <2>4. Sums(o)[k] \in Nat
    BY <2>2, <2>3
  <2>5. QED
    BY <1>4, <2>4 DEF HeldOf, Total, o
<1>6. QED
  BY <1>4, <1>5 DEF o, e

\* Burnt capacities never fall below zero.
LEMMA BurnIs ==
  ASSUME NEW rows, NEW caps \in [Buys(rows) -> Int], NEW chunks \in Seq(TaxLot)
  PROVE  /\ Burn(caps, chunks) \in [Buys(rows) -> Int]
         /\ \A b \in Buys(rows) :
               /\ HeldOf(chunks, b) \in Int
               /\ Burn(caps, chunks)[b] = IF caps[b] - HeldOf(chunks, b) > 0
                                          THEN caps[b] - HeldOf(chunks, b) ELSE 0
<1> DEFINE left(b) == caps[b] - HeldOf(chunks, b)
<1>1. \A b \in Buys(rows) : HeldOf(chunks, b) \in Int
  BY OfBuyIs
<1>2. \A b \in Buys(rows) : left(b) \in Int
  BY <1>1
<1>3. Burn(caps, chunks) = [b \in Buys(rows) |-> Max({0, left(b)})]
  BY DEF Burn
<1> HIDE DEF left
<1>4. \A b \in Buys(rows) : Max({0, left(b)}) = IF left(b) > 0 THEN left(b) ELSE 0
  <2> TAKE b \in Buys(rows)
  <2>1. left(b) \in Int
    BY <1>2
  <2>2. Max({0, left(b)}) = IF 0 >= left(b) THEN 0 ELSE left(b)
    BY <2>1, GreaterAndLess
  <2>3. QED
    BY <2>1, <2>2
<1>5. /\ Burn(caps, chunks) \in [Buys(rows) -> Int]
      /\ \A b \in Buys(rows) : Burn(caps, chunks)[b] = IF left(b) > 0 THEN left(b) ELSE 0
  BY <1>2, <1>3, <1>4
<1>6. QED
  BY <1>1, <1>5 DEF left

\* The tax book after each chunk of a sale.
SaleTable(f, rows, id, t) ==
  LET chunks == Taken(t.lots, rows[id].qty)
  IN  /\ f[0] = [t EXCEPT !.lots = Rest(@, rows[id].qty), !.caps = Burn(@, chunks)]
      /\ \A k \in 0..Len(chunks) : f[k] \in TaxBook(rows)
      /\ \A k \in 1..Len(chunks) : f[k] = CloseChunk(rows, id, f[k - 1], chunks[k])

\* A sale as the last entry of the table of its chunks.
LEMMA TaxSellIs ==
  ASSUME NEW rows \in Seq(Rows), NEW id \in 1..Len(rows), NEW t \in TaxBook(rows),
         rows[id].qty > 0, rows[id].qty <= Shares(t.lots)
  PROVE  /\ Taken(t.lots, rows[id].qty) \in Seq(TaxLot)
         /\ Rest(t.lots, rows[id].qty) \in Seq(TaxLot)
         /\ \E f : /\ SaleTable(f, rows, id, t)
                   /\ TaxSell(rows, t, id) = f[Len(Taken(t.lots, rows[id].qty))]
<1> DEFINE qty == rows[id].qty
           chunks == Taken(t.lots, qty)
           base == [t EXCEPT !.lots = Rest(@, qty), !.caps = Burn(@, chunks)]
           n == Len(chunks)
           next(k, x) == CloseChunk(rows, id, x, chunks[k])
           T == TaxBook(rows)
           step == [p \in (1..n) \X T |-> next(p[1], p[2])]
           Is(f) == f = [k \in 0..n |-> IF k = 0 THEN base ELSE next(k, f[k - 1])]
           F == CHOOSE f : Is(f)
<1>1. t.lots \in Seq(TaxLot) /\ t.caps \in [Buys(rows) -> Int] /\ qty \in Int
  BY RowFields DEF TaxBook
<1>2. chunks \in Seq(TaxLot)
  BY <1>1, LotTypes, StockCounted, TakenIs
<1>3. Rest(t.lots, qty) \in Seq(TaxLot)
  <2>1. qty \in 0..Shares(t.lots)
    BY <1>1, LotTypes, StockSums
  <2>2. QED
    BY <1>1, <2>1, LotTypes, LeftOver
<1>4. TaxSell(rows, t, id) = F[n]
  BY DEF TaxSell
<1> HIDE DEF chunks, qty
<1>5. base \in T
  <2>1. Burn(t.caps, chunks) \in [Buys(rows) -> Int]
    BY <1>1, <1>2, BurnIs
  <2>2. QED
    BY <1>3, <2>1 DEF TaxBook
<1>6. n \in Nat /\ \A k \in 1..n : chunks[k] \in TaxLot /\ k - 1 \in 0..n
  BY <1>2
<1>7. \A k \in 1..n, x \in T : next(k, x) \in T
  BY <1>6, CloseChunkSame
<1> HIDE DEF next, T, n, base
<1>8. PICK f : IsTable(f, T, n, base, step)
  <2>1. \A k \in 1..n, x \in T : step[<<k, x>>] \in T
    BY <1>7
  <2> HIDE DEF step
  <2>2. QED
    BY <1>5, <1>6, <2>1, TableOf
<1>9. f \in [0..n -> T] /\ f[0] = base /\ \A k \in 1..n : f[k] = next(k, f[k - 1])
  <2>1. \A k \in 1..n : f[k - 1] \in T
    BY <1>6, <1>8 DEF IsTable
  <2>2. \A k \in 1..n : step[<<k, f[k - 1]>>] = next(k, f[k - 1])
    BY <2>1
  <2> HIDE DEF step
  <2>3. QED
    BY <1>8, <2>2 DEF IsTable
<1>10. Is(f)
  BY <1>9
<1>11. Is(F)
  BY <1>10
<1> HIDE DEF F
<1>12. F[0] = base /\ \A k \in 1..n : F[k] = next(k, F[k - 1])
  BY <1>6, <1>11
<1>13. \A k \in 0..n : F[k] \in T
  <2> DEFINE G == {k \in 0..n : F[k] \in T}
  <2>1. 0 \in G
    BY <1>5, <1>6, <1>12
  <2>2. \A k \in 1..n : k - 1 \in G => k \in G
    BY <1>6, <1>7, <1>12
  <2> HIDE DEF G
  <2>3. \A k \in 0..n : k \in G
    BY <1>6, <2>1, <2>2, UpTo
  <2>4. QED
    BY <2>3 DEF G
<1>14. SaleTable(F, rows, id, t)
  BY <1>12, <1>13 DEF SaleTable, chunks, qty, n, next, T, base
<1>15. QED
  BY <1>2, <1>3, <1>4, <1>14 DEF chunks, qty, n

\* taxes.rs and portfolio.rs sell the same shares: those FIFO leaves are those the tax
\* ledger keeps, whatever it adjusts on the way.
LEMMA TaxSellSame ==
  ASSUME NEW rows \in Seq(Rows), NEW id \in 1..Len(rows), NEW t \in TaxBook(rows),
         rows[id].qty > 0, rows[id].qty <= Shares(t.lots)
  PROVE  /\ TaxSell(rows, t, id) \in TaxBook(rows) /\ TaxSell(rows, t, id).fault = t.fault
         /\ SameLine(Rest(t.lots, rows[id].qty), TaxSell(rows, t, id).lots)
<1> DEFINE qty == rows[id].qty
           chunks == Taken(t.lots, qty)
           n == Len(chunks)
           left == Rest(t.lots, qty)
<1>1. chunks \in Seq(TaxLot)
  BY TaxSellIs
<1>2. PICK f : SaleTable(f, rows, id, t) /\ TaxSell(rows, t, id) = f[n]
  BY TaxSellIs
<1>3. /\ f[0] \in TaxBook(rows) /\ f[0].lots = left /\ f[0].fault = t.fault
      /\ \A k \in 0..n : f[k] \in TaxBook(rows)
      /\ \A k \in 1..n : f[k] = CloseChunk(rows, id, f[k - 1], chunks[k])
  <2>1. n \in Nat
    BY <1>1
  <2>2. /\ f[0] = [t EXCEPT !.lots = left, !.caps = Burn(t.caps, chunks)]
        /\ \A k \in 0..n : f[k] \in TaxBook(rows)
        /\ \A k \in 1..n : f[k] = CloseChunk(rows, id, f[k - 1], chunks[k])
    BY <1>2 DEF SaleTable, TaxBook
  <2> HIDE DEF left, n, chunks
  <2>3. f[0].lots = left /\ f[0].fault = t.fault
    BY <2>2 DEF TaxBook
  <2>4. QED
    BY <2>1, <2>2, <2>3
<1> DEFINE H == {k \in 0..n : f[k].fault = t.fault /\ SameLine(left, f[k].lots)}
<1> HIDE DEF left
<1>4. n \in Nat /\ \A k \in 1..n : chunks[k] \in TaxLot /\ k - 1 \in 0..n
  BY <1>1
<1>5. 0 \in H
  BY <1>3, <1>4, SameLineRefl
<1>6. ASSUME NEW k \in 1..n, k - 1 \in H PROVE k \in H
  <2> DEFINE c == CloseChunk(rows, id, f[k - 1], chunks[k])
  <2>1. /\ f[k - 1] \in TaxBook(rows) /\ chunks[k] \in TaxLot /\ f[k] = c
        /\ f[k - 1].fault = t.fault /\ SameLine(left, f[k - 1].lots)
    BY <1>3, <1>4, <1>6
  <2> HIDE DEF chunks
  <2>2. c.fault = f[k - 1].fault /\ SameLine(f[k - 1].lots, c.lots)
    BY <2>1, CloseChunkSame
  <2>3. SameLine(left, f[k].lots)
    BY <2>1, <2>2, SameLineTrans
  <2>4. QED
    BY <2>1, <2>2, <2>3
<1>7. n \in H
  <2> HIDE DEF H, n
  <2>1. \A k \in 0..n : k \in H
    BY <1>4, <1>5, <1>6, UpTo
  <2>2. QED
    BY <1>4, <2>1
<1>8. n \in 0..n
  BY <1>4
<1>9. QED
  BY <1>2, <1>3, <1>7, <1>8 DEF left

\* Quotients by a positive number are integers.
LEMMA Quotient == \A x \in Int, r \in Nat \ {0} : x \div r \in Int
  OBVIOUS

\* What a split makes of a lot.
MultipliedLot(x, r) == [x EXCEPT !.qty = @ * r, !.unit = @ \div r]

\* A split scales each lot and keeps its purchase.
LEMMA SplitIs ==
  ASSUME NEW T \in {BookLot, TaxLot}, NEW lots \in Seq(T), NEW r \in Nat \ {0}
  PROVE  /\ Multiplied(lots, r) \in Seq(T) /\ Scaled(lots, Multiplied(lots, r), r)
         /\ \A i \in 1..Len(lots) : Multiplied(lots, r)[i] = MultipliedLot(lots[i], r)
<1> DEFINE e(i) == [lots[i] EXCEPT !.qty = lots[i].qty * r, !.unit = lots[i].unit \div r]
           k == Len(lots)
           v == Multiplied(lots, r)
<1>1. k \in Nat /\ DOMAIN lots = 1..k /\ \A i \in 1..k : lots[i] \in T
  OBVIOUS
<1>2. ASSUME NEW i \in 1..k
      PROVE  e(i) \in T /\ e(i).qty = lots[i].qty * r /\ e(i).buy = lots[i].buy
  <2>1. lots[i] \in T /\ lots[i].qty \in Nat /\ lots[i].unit \in Int
    BY <1>1, LotFields
  <2>2. lots[i].qty * r \in Nat
    BY <2>1
  <2>3. lots[i].unit \div r \in Int
    BY <2>1, Quotient
  <2> DEFINE x == lots[i]
             q == x.qty * r
             u == x.unit \div r
  <2>4. x \in T /\ q \in Nat /\ u \in Int
    BY <2>1, <2>2, <2>3
  <2> HIDE DEF x, q, u
  <2>5. [x EXCEPT !.qty = q, !.unit = u] \in T /\ [x EXCEPT !.qty = q, !.unit = u].qty = q
        /\ [x EXCEPT !.qty = q, !.unit = u].buy = x.buy
    <3>1. CASE T = BookLot
      BY <2>4, <3>1 DEF BookLot
    <3>2. CASE T = TaxLot
      BY <2>4, <3>2 DEF TaxLot
    <3>3. QED
      BY <3>1, <3>2
  <2>6. QED
    BY <2>5 DEF x, q, u
<1>3. v = [i \in 1..k |-> e(i)]
  BY <1>1 DEF Multiplied
<1> HIDE DEF e, v
<1>4. v \in Seq(T) /\ Len(v) = k /\ \A i \in 1..k : v[i] = e(i)
  BY <1>1, <1>2, <1>3
<1>5. \A i \in 1..k : v[i].qty = lots[i].qty * r /\ v[i].buy = lots[i].buy
  BY <1>2, <1>4
<1>6. Scaled(lots, v, r)
  BY <1>4, <1>5 DEF Scaled
<1>7. \A i \in 1..k : v[i] = MultipliedLot(lots[i], r)
  BY <1>4 DEF e, MultipliedLot
<1>8. QED
  BY <1>4, <1>6, <1>7 DEF v

\* Lots cost an integer.
LEMMA CostType ==
  ASSUME NEW T \in {BookLot, TaxLot}, NEW lots \in Seq(T)
  PROVE  /\ [i \in DOMAIN lots |-> lots[i].qty * lots[i].unit] \in Seq(Int)
         /\ Len([i \in DOMAIN lots |-> lots[i].qty * lots[i].unit]) = Len(lots)
         /\ Cost(lots) \in Int
<1> DEFINE e(i) == lots[i].qty * lots[i].unit
           a == [i \in DOMAIN lots |-> e(i)]
           k == Len(lots)
<1>1. k \in Nat /\ DOMAIN lots = 1..k /\ \A i \in 1..k : lots[i] \in T
  OBVIOUS
<1>2. \A i \in 1..k : e(i) \in Int
  <2> TAKE i \in 1..k
  <2>1. lots[i].qty \in Int /\ lots[i].unit \in Int
    BY <1>1, LotFields
  <2>2. QED
    BY <2>1
<1> HIDE DEF e
<1>3. a \in Seq(Int) /\ Len(a) = k
  BY <1>1, <1>2
<1>4. Cost(lots) = Total(a)
  BY DEF Cost, e
<1> HIDE DEF a
<1>5. Total(a) \in Int
  <2>1. k \in 0..Len(a)
    BY <1>1, <1>3
  <2>2. Sums(a)[k] \in Int
    BY <1>3, <2>1, SumsAre
  <2>3. QED
    BY <1>3, <2>2 DEF Total
<1>6. QED
  BY <1>3, <1>4, <1>5 DEF a, e

-----------------------------------------------------------------------------
(* One row in both engines.                                                 *)

\* Both engines after the same rows: same refusal, same line of shares, totals balanced.
InStep(rows, book, tax) ==
  /\ book \in Book /\ tax \in TaxBook(rows)
  /\ book.fault = tax.fault /\ SameLine(book.lots, tax.lots)
  /\ Balances(book)

\* A purchase keeps the two engines in step.
LEMMA BoughtInStep ==
  ASSUME NEW rows \in Seq(Rows), NEW id \in Buys(rows), rows[id].qty > 0,
         NEW book, NEW tax, InStep(rows, book, tax)
  PROVE  InStep(rows, Bought(book, rows[id], id), TaxBuy(rows, tax, id))
<1> DEFINE q == rows[id].qty
           p == rows[id].price
           x == [buy |-> id, qty |-> q, unit |-> p]
           c == q * p
           b == Bought(book, rows[id], id)
           t == TaxBuy(rows, tax, id)
<1>1. /\ book \in Book /\ tax \in TaxBook(rows) /\ book.fault = tax.fault
      /\ SameLine(book.lots, tax.lots) /\ Balances(book) /\ book.lots \in Seq(BookLot)
  BY DEF InStep, Book
<1>2. id \in 1..Len(rows) /\ id \in Nat /\ q \in Nat /\ p \in Int /\ q > 0
  <2>1. id \in 1..Len(rows) /\ id \in Nat
    BY DEF Buys
  <2>2. QED
    BY <2>1, RowFields
<1>3. c \in Int
  <2> HIDE DEF q, p
  <2>1. QED
    BY <1>2
<1>4. b = [book EXCEPT !.cash = @ - c, !.qty = @ + q, !.cost = @ + c, !.lots = Append(@, x)]
  BY DEF Bought
<1> HIDE DEF q, p, c
<1>5. x \in BookLot
  BY <1>2 DEF BookLot
<1>6. x.buy = id /\ x.qty = q
  OBVIOUS
<1> HIDE DEF x, b, t
<1>7. Append(book.lots, x) \in Seq(BookLot) /\ Shares(Append(book.lots, x)) = Shares(book.lots) + q
  BY <1>1, <1>5, <1>6, LotTypes, SharesAppend
<1>8. /\ t \in TaxBook(rows) /\ t.fault = tax.fault
      /\ SameLine(Append(book.lots, x), t.lots)
  <2>1. /\ TaxBuy(rows, tax, id) \in TaxBook(rows) /\ TaxBuy(rows, tax, id).fault = tax.fault
        /\ \A s \in Seq(BookLot), y \in BookLot :
               SameLine(s, tax.lots) /\ y.buy = id /\ y.qty = rows[id].qty =>
                  SameLine(Append(s, y), TaxBuy(rows, tax, id).lots)
    BY <1>1, TaxBuySame
  <2>2. QED
    BY <1>1, <1>5, <1>6, <2>1 DEF t, q
<1>9. /\ b \in Book /\ b.fault = book.fault /\ b.lots = Append(book.lots, x)
      /\ b.cash = book.cash - c /\ b.qty = book.qty + q /\ b.cost = book.cost + c
      /\ b.realized = book.realized /\ b.income = book.income /\ b.paidIn = book.paidIn
  <2> DEFINE cash == book.cash - c
             qty  == book.qty + q
             cost == book.cost + c
             lots == Append(book.lots, x)
  <2>1. cash \in Int /\ qty \in Int /\ cost \in Int /\ lots \in Seq(BookLot)
    BY <1>1, <1>2, <1>3, <1>7 DEF Book
  <2>2. b = [book EXCEPT !.cash = cash, !.qty = qty, !.cost = cost, !.lots = lots]
    BY <1>4
  <2> HIDE DEF cash, qty, cost, lots
  <2>3. /\ b \in Book /\ b.fault = book.fault /\ b.lots = lots
        /\ b.cash = cash /\ b.qty = qty /\ b.cost = cost
        /\ b.realized = book.realized /\ b.income = book.income /\ b.paidIn = book.paidIn
    BY <1>1, <2>1, <2>2 DEF Book
  <2>4. QED
    BY <2>3 DEF cash, qty, cost, lots
<1>10. Balances(b)
  <2>1. /\ book.cash \in Int /\ book.qty \in Int /\ book.cost \in Int /\ book.realized \in Int
        /\ book.income \in Int /\ book.paidIn \in Int
    BY <1>1 DEF Book
  <2>2. QED
    BY <1>1, <1>3, <1>7, <1>9, <2>1 DEF Balances
<1>11. QED
  BY <1>1, <1>8, <1>9, <1>10 DEF InStep, b, t

\* A sale keeps the two engines in step.
LEMMA SoldInStep ==
  ASSUME NEW rows \in Seq(Rows), NEW id \in 1..Len(rows), rows[id].qty > 0,
         NEW book, NEW tax, InStep(rows, book, tax), rows[id].qty <= book.qty
  PROVE  InStep(rows, Sold(book, rows[id]), TaxSell(rows, tax, id))
<1> DEFINE q == rows[id].qty
           c == q * rows[id].price
           basis == Cost(Taken(book.lots, q))
           b == Sold(book, rows[id])
           t == TaxSell(rows, tax, id)
           left == Rest(book.lots, q)
<1>1. /\ book \in Book /\ tax \in TaxBook(rows) /\ book.fault = tax.fault
      /\ SameLine(book.lots, tax.lots) /\ Balances(book)
      /\ book.lots \in Seq(BookLot) /\ tax.lots \in Seq(TaxLot)
  BY DEF InStep, Book, TaxBook
<1>2. q \in Nat /\ q > 0 /\ c \in Int
  <2>1. q \in Int /\ rows[id].price \in Int
    BY RowFields
  <2>2. QED
    BY <2>1
<1>3. q \in 0..Shares(book.lots) /\ q <= Shares(tax.lots) /\ Shares(book.lots) \in Nat
  BY <1>1, <1>2, LotTypes, StockSums DEF Balances, SameLine
<1>4. basis \in Int
  <2>1. Taken(book.lots, q) \in Seq(BookLot)
    <3>1. q \in Int /\ Counted(BookLot)
      BY <1>2, LotTypes, StockCounted
    <3> HIDE DEF q
    <3>2. QED
      BY <1>1, <3>1, TakenIs
  <2>2. QED
    BY <2>1, CostType
<1>5. left \in Seq(BookLot) /\ Shares(left) = Shares(book.lots) - q
  BY <1>1, <1>3, LotTypes, LeftOver
<1>6. t \in TaxBook(rows) /\ t.fault = tax.fault /\ SameLine(Rest(tax.lots, q), t.lots)
  BY <1>1, <1>3, TaxSellSame
<1>7. SameLine(left, Rest(tax.lots, q))
  BY <1>1, <1>3, LotTypes, SameRest
<1>8. b = [book EXCEPT !.cash = @ + c, !.qty = @ - q, !.cost = @ - basis,
                       !.realized = @ + c - basis, !.lots = left]
  BY DEF Sold
<1> HIDE DEF q, c, basis, b, t, left
<1>9. SameLine(left, t.lots)
  BY <1>6, <1>7, SameLineTrans
<1>10. /\ book.cash \in Int /\ book.qty \in Int /\ book.cost \in Int /\ book.realized \in Int
       /\ book.income \in Int /\ book.paidIn \in Int
  BY <1>1 DEF Book
<1>11. /\ b \in Book /\ b.fault = book.fault /\ b.lots = left
       /\ b.cash = book.cash + c /\ b.qty = book.qty - q /\ b.cost = book.cost - basis
       /\ b.realized = book.realized + c - basis /\ b.income = book.income /\ b.paidIn = book.paidIn
  <2> DEFINE cash == book.cash + c
             qty  == book.qty - q
             cost == book.cost - basis
             gain == book.realized + c - basis
  <2>a. q \in Int /\ c \in Int /\ basis \in Int
    BY <1>2, <1>4
  <2>1. cash \in Int /\ qty \in Int /\ cost \in Int /\ gain \in Int
    <3>1. cash \in Int
      BY <1>10, <2>a
    <3>2. qty \in Int
      BY <1>10, <2>a
    <3>3. cost \in Int
      BY <1>10, <2>a
    <3>4. gain \in Int
      BY <1>10, <2>a
    <3>5. QED
      BY <3>1, <3>2, <3>3, <3>4
  <2>2. b = [book EXCEPT !.cash = cash, !.qty = qty, !.cost = cost, !.realized = gain, !.lots = left]
    BY <1>8
  <2> HIDE DEF cash, qty, cost, gain
  <2>3. /\ b \in Book /\ b.fault = book.fault /\ b.lots = left
        /\ b.cash = cash /\ b.qty = qty /\ b.cost = cost
        /\ b.realized = gain /\ b.income = book.income /\ b.paidIn = book.paidIn
    BY <1>1, <1>5, <2>1, <2>2 DEF Book
  <2>4. QED
    BY <2>3 DEF cash, qty, cost, gain
<1>12. Balances(b)
  <2>1. /\ book.qty = Shares(book.lots)
        /\ book.cash + book.cost = book.realized + book.income + book.paidIn
    BY <1>1 DEF Balances
  <2>2. b.qty = Shares(b.lots)
    BY <1>5, <1>11, <2>1
  <2>3. b.cash + b.cost = b.realized + b.income + b.paidIn
    <3>1. c \in Int /\ basis \in Int
      BY <1>2, <1>4
    <3>2. /\ b.cash = book.cash + c /\ b.cost = book.cost - basis
          /\ b.realized = book.realized + c - basis /\ b.income = book.income /\ b.paidIn = book.paidIn
      BY <1>11
    <3>4. (book.cash + c) + (book.cost - basis) = (book.realized + c - basis) + book.income + book.paidIn
      <4>1. (book.cash + c) + (book.cost - basis) = (book.cash + book.cost) + (c - basis)
        BY <1>10, <3>1
      <4>2. (book.realized + c - basis) + book.income + book.paidIn
              = (book.realized + book.income + book.paidIn) + (c - basis)
        BY <1>10, <3>1
      <4>3. QED
        BY <2>1, <4>1, <4>2
    <3>5. QED
      BY <3>2, <3>4
  <2>4. QED
    BY <2>2, <2>3 DEF Balances
<1>13. QED
  BY <1>1, <1>6, <1>9, <1>11, <1>12 DEF InStep, b, t

\* A split keeps the two engines in step.
LEMMA SplitInStep ==
  ASSUME NEW rows \in Seq(Rows), NEW id \in 1..Len(rows), rows[id].qty > 0,
         NEW book, NEW tax, InStep(rows, book, tax)
  PROVE  InStep(rows, Split(book, rows[id]), TaxSplit(rows, tax, id))
<1> DEFINE r == rows[id].qty
           b == Split(book, rows[id])
           t == TaxSplit(rows, tax, id)
           bl == Multiplied(book.lots, r)
           tl == Multiplied(tax.lots, r)
           caps == [x \in DOMAIN tax.caps |-> IF Before(rows, x, id) THEN tax.caps[x] * r ELSE tax.caps[x]]
           q == book.qty * r
<1>1. /\ book \in Book /\ tax \in TaxBook(rows) /\ book.fault = tax.fault
      /\ SameLine(book.lots, tax.lots) /\ Balances(book)
      /\ book.lots \in Seq(BookLot) /\ tax.lots \in Seq(TaxLot)
      /\ tax.caps \in [Buys(rows) -> Int]
  BY DEF InStep, Book, TaxBook
<1>2. r \in Nat \ {0}
  <2>1. r \in Int
    BY RowFields
  <2>2. QED
    BY <2>1
<1>3. b = [book EXCEPT !.qty = q, !.lots = bl] /\ t = [tax EXCEPT !.lots = tl, !.caps = caps]
  <2>1. b = [book EXCEPT !.qty = q, !.lots = bl]
    BY DEF Split
  <2>2. t = [tax EXCEPT !.lots = tl, !.caps = caps]
    BY DEF TaxSplit
  <2>3. QED
    BY <2>1, <2>2
<1> HIDE DEF r, b, t, bl, tl
<1>4. bl \in Seq(BookLot) /\ Scaled(book.lots, bl, r)
  BY <1>1, <1>2, SplitIs DEF bl
<1>5. tl \in Seq(TaxLot) /\ Scaled(tax.lots, tl, r)
  BY <1>1, <1>2, SplitIs DEF tl
<1>6. SameLine(bl, tl) /\ Shares(bl) = Shares(book.lots) * r
  BY <1>1, <1>2, <1>4, <1>5, LotTypes, SameScaled
<1>7. caps \in [Buys(rows) -> Int]
  <2>1. \A x \in Buys(rows) : tax.caps[x] * r \in Int
    BY <1>1, <1>2
  <2>2. QED
    BY <1>1, <2>1
<1>8. q \in Int
  <2>1. book.qty \in Int
    BY <1>1 DEF Book
  <2>2. QED
    BY <1>2, <2>1
<1>9. q = Shares(bl)
  BY <1>1, <1>6 DEF Balances
<1> HIDE DEF q, caps
<1>10. /\ b \in Book /\ b.fault = book.fault /\ b.lots = bl /\ b.qty = q
       /\ b.cash = book.cash /\ b.cost = book.cost
       /\ b.realized = book.realized /\ b.income = book.income /\ b.paidIn = book.paidIn
  BY <1>1, <1>3, <1>4, <1>8 DEF Book
<1>11. t \in TaxBook(rows) /\ t.fault = tax.fault /\ t.lots = tl
  BY <1>1, <1>3, <1>5, <1>7 DEF TaxBook
<1>12. Balances(b)
  BY <1>1, <1>9, <1>10 DEF Balances
<1>13. QED
  BY <1>1, <1>6, <1>10, <1>11, <1>12 DEF InStep, b, t

\* A dividend, a deposit or a withdrawal keeps the two engines in step.
LEMMA PaidInStep ==
  ASSUME NEW rows \in Seq(Rows), NEW book, NEW tax, InStep(rows, book, tax), NEW amount \in Int
  PROVE  /\ InStep(rows, Moved(book, amount), tax)
         /\ InStep(rows, [book EXCEPT !.cash = @ + amount, !.income = @ + amount], tax)
<1> DEFINE cash == book.cash + amount
           paid == book.paidIn + amount
           gain == book.income + amount
<1>1. /\ book \in Book /\ tax \in TaxBook(rows) /\ book.fault = tax.fault
      /\ SameLine(book.lots, tax.lots) /\ Balances(book)
      /\ book.cash \in Int /\ book.paidIn \in Int /\ book.income \in Int /\ book.cost \in Int
      /\ book.realized \in Int
  BY DEF InStep, Book
<1>2. cash \in Int /\ paid \in Int /\ gain \in Int
  BY <1>1
<1>3. book.cash + book.cost = book.realized + book.income + book.paidIn
  BY <1>1 DEF Balances
<1>4. /\ cash + book.cost = (book.cash + book.cost) + amount
      /\ book.realized + book.income + paid = (book.realized + book.income + book.paidIn) + amount
      /\ book.realized + gain + book.paidIn = (book.realized + book.income + book.paidIn) + amount
  BY <1>1
<1> HIDE DEF cash, paid, gain
<1>5. /\ cash + book.cost = book.realized + book.income + paid
      /\ cash + book.cost = book.realized + gain + book.paidIn
  BY <1>3, <1>4
<1>6. InStep(rows, [book EXCEPT !.cash = cash, !.paidIn = paid], tax)
  <2> DEFINE b == [book EXCEPT !.cash = cash, !.paidIn = paid]
  <2>1. /\ b \in Book /\ b.fault = book.fault /\ b.lots = book.lots /\ b.qty = book.qty
        /\ b.cash = cash /\ b.cost = book.cost
        /\ b.realized = book.realized /\ b.income = book.income /\ b.paidIn = paid
    BY <1>1, <1>2 DEF Book
  <2> HIDE DEF b
  <2>2. Balances(b)
    BY <1>1, <1>5, <2>1 DEF Balances
  <2>3. InStep(rows, b, tax)
    BY <1>1, <2>1, <2>2 DEF InStep
  <2>4. QED
    BY <2>3 DEF b
<1>7. InStep(rows, [book EXCEPT !.cash = cash, !.income = gain], tax)
  <2> DEFINE b == [book EXCEPT !.cash = cash, !.income = gain]
  <2>1. /\ b \in Book /\ b.fault = book.fault /\ b.lots = book.lots /\ b.qty = book.qty
        /\ b.cash = cash /\ b.cost = book.cost
        /\ b.realized = book.realized /\ b.income = gain /\ b.paidIn = book.paidIn
    BY <1>1, <1>2 DEF Book
  <2> HIDE DEF b
  <2>2. Balances(b)
    BY <1>1, <1>5, <2>1 DEF Balances
  <2>3. InStep(rows, b, tax)
    BY <1>1, <2>1, <2>2 DEF InStep
  <2>4. QED
    BY <2>3 DEF b
<1>8. QED
  BY <1>6, <1>7 DEF Moved, cash, paid, gain

\* The same row keeps the two engines in step.
LEMMA RowInStep ==
  ASSUME NEW rows \in Seq(Rows), NEW id \in 1..Len(rows), NEW book, NEW tax, InStep(rows, book, tax)
  PROVE  InStep(rows, ApplyTx(rows, book, id), ApplyTax(rows, tax, id))
<1> DEFINE tx == rows[id]
           fault == FaultOf(tx, id, book.qty)
           b == ApplyTx(rows, book, id)
           t == ApplyTax(rows, tax, id)
<1>1. /\ book \in Book /\ tax \in TaxBook(rows) /\ book.fault = tax.fault
      /\ SameLine(book.lots, tax.lots) /\ Balances(book) /\ book.qty = Shares(tax.lots)
  BY DEF InStep, Balances, SameLine
<1>2. /\ tx \in Rows /\ tx.kind \in Kinds /\ tx.qty \in Int /\ tx.price \in Int
  BY RowFields
<1>3. b = IF book.fault # NoFault THEN book
          ELSE IF fault # NoFault THEN [book EXCEPT !.fault = fault]
          ELSE CASE tx.kind = "buy"      -> Bought(book, tx, id)
                 [] tx.kind = "sell"     -> Sold(book, tx)
                 [] tx.kind = "split"    -> Split(book, tx)
                 [] tx.kind = "dividend" -> Dividend(book, tx)
                 [] tx.kind = "deposit"  -> Moved(book, tx.price)
                 [] tx.kind = "withdrawal" -> Moved(book, 0 - tx.price)
  BY DEF ApplyTx
<1>4. t = IF book.fault # NoFault THEN tax
          ELSE IF fault # NoFault THEN [tax EXCEPT !.fault = fault]
          ELSE CASE tx.kind = "buy"   -> TaxBuy(rows, tax, id)
                 [] tx.kind = "sell"  -> TaxSell(rows, tax, id)
                 [] tx.kind = "split" -> TaxSplit(rows, tax, id)
                 [] OTHER             -> tax
  BY <1>1 DEF ApplyTax
<1>5. fault \in FaultType
  BY DEF FaultOf, FaultType, NoFault
<1>6. fault = NoFault /\ tx.kind \in {"buy", "sell", "split"} => tx.qty > 0
  BY <1>2 DEF FaultOf, Malformed, Trade, NoFault
<1>7. fault = NoFault /\ tx.kind = "sell" => tx.qty <= book.qty
  <2>1. book.qty \in Int
    BY <1>1 DEF Book
  <2>2. QED
    BY <1>2, <2>1 DEF FaultOf, Malformed, Oversells, Trade, NoFault
<1> HIDE DEF b, t, fault
<1>8. CASE book.fault # NoFault
  <2>1. b = book /\ t = tax
    BY <1>1, <1>3, <1>4, <1>8
  <2>2. QED
    BY <2>1 DEF b, t
<1>9. CASE book.fault = NoFault /\ fault # NoFault
  <2>1. b = [book EXCEPT !.fault = fault] /\ t = [tax EXCEPT !.fault = fault]
    BY <1>1, <1>3, <1>4, <1>9
  <2>2. /\ b \in Book /\ b.fault = fault /\ b.lots = book.lots /\ b.qty = book.qty
        /\ b.cash = book.cash /\ b.cost = book.cost
        /\ b.realized = book.realized /\ b.income = book.income /\ b.paidIn = book.paidIn
    BY <1>1, <1>5, <2>1 DEF Book
  <2>3. t \in TaxBook(rows) /\ t.fault = fault /\ t.lots = tax.lots
    BY <1>1, <1>5, <2>1 DEF TaxBook
  <2>4. Balances(b)
    BY <1>1, <2>2 DEF Balances
  <2>5. QED
    BY <1>1, <2>2, <2>3, <2>4 DEF InStep, b, t
<1>10. CASE book.fault = NoFault /\ fault = NoFault
  <2>1. CASE tx.kind = "buy"
    <3>1. b = Bought(book, tx, id) /\ t = TaxBuy(rows, tax, id)
      BY <1>1, <1>3, <1>4, <1>10, <2>1
    <3>2. id \in Buys(rows) /\ rows[id].qty > 0
      BY <1>6, <1>10, <2>1 DEF Buys
    <3>3. QED
      BY <3>1, <3>2, BoughtInStep DEF b, t
  <2>2. CASE tx.kind = "sell"
    <3>1. b = Sold(book, tx) /\ t = TaxSell(rows, tax, id)
      BY <1>1, <1>3, <1>4, <1>10, <2>2
    <3>2. rows[id].qty > 0 /\ rows[id].qty <= book.qty
      BY <1>6, <1>7, <1>10, <2>2
    <3>3. QED
      BY <3>1, <3>2, SoldInStep DEF b, t
  <2>3. CASE tx.kind = "split"
    <3>1. b = Split(book, tx) /\ t = TaxSplit(rows, tax, id)
      BY <1>1, <1>3, <1>4, <1>10, <2>3
    <3>2. rows[id].qty > 0
      BY <1>6, <1>10, <2>3
    <3>3. QED
      BY <3>1, <3>2, SplitInStep DEF b, t
  <2>4. CASE tx.kind \in {"dividend", "deposit", "withdrawal"}
    <3>1. t = tax
      BY <1>1, <1>4, <1>10, <2>4
    <3>2. 0 - tx.price \in Int
      BY <1>2
    <3>3. CASE tx.kind = "dividend"
      <4>1. b = [book EXCEPT !.cash = @ + tx.price, !.income = @ + tx.price]
        BY <1>3, <1>10, <3>3 DEF Dividend
      <4>2. InStep(rows, [book EXCEPT !.cash = @ + tx.price, !.income = @ + tx.price], tax)
        BY <1>2, PaidInStep
      <4>3. QED
        BY <3>1, <4>1, <4>2 DEF b, t
    <3>4. CASE tx.kind = "deposit"
      <4>1. b = Moved(book, tx.price)
        BY <1>3, <1>10, <3>4
      <4>2. InStep(rows, Moved(book, tx.price), tax)
        BY <1>2, PaidInStep
      <4>3. QED
        BY <3>1, <4>1, <4>2 DEF b, t
    <3>5. CASE tx.kind = "withdrawal"
      <4>1. b = Moved(book, 0 - tx.price)
        BY <1>3, <1>10, <3>5
      <4>2. InStep(rows, Moved(book, 0 - tx.price), tax)
        BY <3>2, PaidInStep
      <4>3. QED
        BY <3>1, <4>1, <4>2 DEF b, t
    <3>6. QED
      BY <2>4, <3>3, <3>4, <3>5
  <2>5. QED
    BY <1>2, <2>1, <2>2, <2>3, <2>4 DEF Kinds
<1>11. QED
  BY <1>8, <1>9, <1>10

\* The rows that replay are those of the log.
LEMMA OrderIn ==
  ASSUME NEW rows \in Seq(Rows)
  PROVE  Len(rows) \in Nat /\ \A k \in 1..Len(rows) : ReplayOrder(rows)[k] \in 1..Len(rows)
<1> DEFINE n == Len(rows)
           order == ReplayOrder(rows)
<1>1. n \in Nat
  OBVIOUS
<1>2. Permutes(order, n)
  BY ReplayOrderIs
<1> HIDE DEF n, order
<1>3. \A k \in 1..n : order[k] \in 1..n
  BY <1>2 DEF Permutes
<1>4. QED
  BY <1>1, <1>3 DEF n, order

\* Nothing has been replayed: the engines are in step.
LEMMA EmptyInStep ==
  ASSUME NEW rows \in Seq(Rows)
  PROVE  InStep(rows, EmptyBook, EmptyTaxBook(rows))
<1> DEFINE none == <<>>
           caps == [b \in Buys(rows) |-> rows[b].qty]
           pend == [b \in Buys(rows) |-> none]
           book == [fault |-> NoFault, cash |-> 0, qty |-> 0, cost |-> 0, realized |-> 0,
                    income |-> 0, paidIn |-> 0, lots |-> none]
           tax  == [fault |-> NoFault, lots |-> none, caps |-> caps, pending |-> pend, out |-> none]
<1>1. none \in Seq(BookLot) /\ none \in Seq(TaxLot) /\ none \in Seq(Adjustment) /\ none \in Seq(Closed)
  OBVIOUS
<1>2. Shares(none) = 0 /\ Len(none) = 0
  BY LotTypes, SharesOfNone
<1>3. caps \in [Buys(rows) -> Int]
  <2>1. \A b \in Buys(rows) : rows[b].qty \in Int
    BY RowFields DEF Buys
  <2>2. QED
    BY <2>1
<1>4. EmptyBook = book /\ EmptyTaxBook(rows) = tax
  BY DEF EmptyBook, EmptyTaxBook
<1> HIDE DEF none, caps
<1>5. pend \in [Buys(rows) -> Seq(Adjustment)]
  BY <1>1
<1> HIDE DEF pend
<1>6. NoFault \in FaultType
  BY DEF NoFault, FaultType
<1>7. book \in Book /\ tax \in TaxBook(rows)
  <2>1. book \in Book
    BY <1>1, <1>6 DEF Book
  <2>2. tax \in TaxBook(rows)
    BY <1>1, <1>3, <1>5, <1>6 DEF TaxBook
  <2>3. QED
    BY <2>1, <2>2
<1>8. SameLine(none, none)
  BY <1>2 DEF SameLine
<1>9. Balances(book)
  BY <1>2 DEF Balances
<1>10. QED
  BY <1>4, <1>7, <1>8, <1>9 DEF InStep

\* The recursions of the replays have solutions.
BooksAre(rows) ==
  /\ Books(rows)[0] = EmptyBook /\ TaxBooks(rows)[0] = EmptyTaxBook(rows)
  /\ \A k \in 1..Len(rows) :
        /\ Books(rows)[k] = ApplyTx(rows, Books(rows)[k - 1], ReplayOrder(rows)[k])
        /\ TaxBooks(rows)[k] = ApplyTax(rows, TaxBooks(rows)[k - 1], ReplayOrder(rows)[k])

\* The tables of the books, as equations.
LEMMA ReplaysAre ==
  ASSUME NEW rows \in Seq(Rows)
  PROVE  BooksAre(rows)
<1> DEFINE n == Len(rows)
           order == ReplayOrder(rows)
           T == {p \in Book \X TaxBook(rows) : InStep(rows, p[1], p[2])}
           next(k, p) == <<ApplyTx(rows, p[1], order[k]), ApplyTax(rows, p[2], order[k])>>
           step == [q \in (1..n) \X T |-> next(q[1], q[2])]
           base == <<EmptyBook, EmptyTaxBook(rows)>>
           IsB(f) == f = [k \in 0..n |-> IF k = 0 THEN EmptyBook ELSE ApplyTx(rows, f[k - 1], order[k])]
           IsT(f) == f = [k \in 0..n |-> IF k = 0 THEN EmptyTaxBook(rows)
                                         ELSE ApplyTax(rows, f[k - 1], order[k])]
           FB == CHOOSE f : IsB(f)
           FT == CHOOSE f : IsT(f)
<1>1. n \in Nat /\ \A k \in 1..n : order[k] \in 1..n
  BY OrderIn
<1>2. Books(rows) = FB /\ TaxBooks(rows) = FT
  BY DEF Books, TaxBooks
<1>3. \A b, t : InStep(rows, b, t) => <<b, t>> \in T
  BY DEF InStep
<1>4. \A p \in T : InStep(rows, p[1], p[2])
  OBVIOUS
<1> HIDE DEF n, order
<1>5. base \in T
  <2> HIDE DEF T
  <2>1. QED
    BY <1>3, EmptyInStep
<1>6. \A k \in 1..n, p \in T : next(k, p) \in T
  <2> TAKE k \in 1..n, p \in T
  <2>1. InStep(rows, p[1], p[2])
    BY <1>4
  <2>2. order[k] \in 1..Len(rows)
    BY <1>1 DEF n
  <2> HIDE DEF T
  <2>3. InStep(rows, ApplyTx(rows, p[1], order[k]), ApplyTax(rows, p[2], order[k]))
    BY <2>1, <2>2, RowInStep
  <2>4. QED
    BY <1>3, <2>3
<1> HIDE DEF T, base, next
<1>7. PICK f : IsTable(f, T, n, base, step)
  <2>1. \A k \in 1..n, x \in T : step[<<k, x>>] \in T
    BY <1>6
  <2> HIDE DEF step
  <2>2. QED
    BY <1>1, <1>5, <2>1, TableOf
<1>8. f[0] = base /\ \A k \in 1..n : f[k] = next(k, f[k - 1])
  <2>1. \A k \in 1..n : k - 1 \in 0..n /\ f[k - 1] \in T
    BY <1>1, <1>7 DEF IsTable
  <2>2. \A k \in 1..n : step[<<k, f[k - 1]>>] = next(k, f[k - 1])
    BY <2>1
  <2> HIDE DEF step
  <2>3. QED
    BY <1>7, <2>2 DEF IsTable
<1> DEFINE fb == [k \in 0..n |-> f[k][1]]
           ft == [k \in 0..n |-> f[k][2]]
<1>9. IsB(fb)
  <2>1. \A k \in 0..n : fb[k] = IF k = 0 THEN EmptyBook ELSE ApplyTx(rows, fb[k - 1], order[k])
    <3> TAKE k \in 0..n
    <3>1. CASE k = 0
      BY <1>1, <1>8, <3>1 DEF base
    <3>2. CASE k # 0
      <4>1. k \in 1..n /\ k - 1 \in 0..n
        BY <1>1, <3>2
      <4>2. f[k] = next(k, f[k - 1])
        BY <1>8, <4>1
      <4>3. fb[k - 1] = f[k - 1][1] /\ fb[k] = f[k][1]
        BY <4>1
      <4>4. QED
        BY <3>2, <4>2, <4>3 DEF next
    <3>3. QED
      BY <3>1, <3>2
  <2>2. QED
    BY <2>1
<1>10. IsT(ft)
  <2>1. \A k \in 0..n : ft[k] = IF k = 0 THEN EmptyTaxBook(rows) ELSE ApplyTax(rows, ft[k - 1], order[k])
    <3> TAKE k \in 0..n
    <3>1. CASE k = 0
      BY <1>1, <1>8, <3>1 DEF base
    <3>2. CASE k # 0
      <4>1. k \in 1..n /\ k - 1 \in 0..n
        BY <1>1, <3>2
      <4>2. f[k] = next(k, f[k - 1])
        BY <1>8, <4>1
      <4>3. ft[k - 1] = f[k - 1][2] /\ ft[k] = f[k][2]
        BY <4>1
      <4>4. QED
        BY <3>2, <4>2, <4>3 DEF next
    <3>3. QED
      BY <3>1, <3>2
  <2>2. QED
    BY <2>1
<1>11. IsB(FB) /\ IsT(FT)
  <2>1. IsB(FB)
    BY <1>9
  <2>2. IsT(FT)
    BY <1>10
  <2>3. QED
    BY <2>1, <2>2
<1> HIDE DEF FB, FT
<1>12. /\ FB[0] = EmptyBook /\ FT[0] = EmptyTaxBook(rows)
       /\ \A k \in 1..n : /\ FB[k] = ApplyTx(rows, FB[k - 1], order[k])
                          /\ FT[k] = ApplyTax(rows, FT[k - 1], order[k])
  <2>1. 0 \in 0..n /\ \A k \in 1..n : k \in 0..n /\ k # 0
    BY <1>1
  <2>2. FB[0] = EmptyBook /\ \A k \in 1..n : FB[k] = ApplyTx(rows, FB[k - 1], order[k])
    BY <1>11, <2>1
  <2>3. FT[0] = EmptyTaxBook(rows) /\ \A k \in 1..n : FT[k] = ApplyTax(rows, FT[k - 1], order[k])
    BY <1>11, <2>1
  <2>4. QED
    BY <2>2, <2>3
<1>13. QED
  BY <1>2, <1>12 DEF BooksAre, n, order

\* After every row the engines are in step.
LEMMA BooksInStep ==
  ASSUME NEW rows \in Seq(Rows)
  PROVE  \A k \in 0..Len(rows) : InStep(rows, Books(rows)[k], TaxBooks(rows)[k])
<1> DEFINE n == Len(rows)
           S == {k \in 0..n : InStep(rows, Books(rows)[k], TaxBooks(rows)[k])}
<1>1. n \in Nat /\ \A k \in 1..n : ReplayOrder(rows)[k] \in 1..Len(rows)
  BY OrderIn
<1>2. BooksAre(rows)
  BY ReplaysAre
<1>3. 0 \in S
  BY <1>1, <1>2, EmptyInStep DEF BooksAre
<1>4. \A k \in 1..n : k - 1 \in S => k \in S
  <2> TAKE k \in 1..n
  <2> HAVE k - 1 \in S
  <2>1. InStep(rows, Books(rows)[k - 1], TaxBooks(rows)[k - 1]) /\ ReplayOrder(rows)[k] \in 1..Len(rows)
    BY <1>1
  <2>2. InStep(rows, ApplyTx(rows, Books(rows)[k - 1], ReplayOrder(rows)[k]),
                     ApplyTax(rows, TaxBooks(rows)[k - 1], ReplayOrder(rows)[k]))
    BY <2>1, RowInStep
  <2>3. InStep(rows, Books(rows)[k], TaxBooks(rows)[k])
    BY <1>2, <2>2 DEF BooksAre
  <2>4. k \in 0..n
    BY <1>1
  <2>5. QED
    BY <2>3, <2>4
<1>5. \A k \in 0..n : k \in S
  <2> HIDE DEF S, n
  <2>1. QED
    BY <1>1, <1>3, <1>4, UpTo
<1>6. QED
  BY <1>5

-----------------------------------------------------------------------------
(* What lots are worth, at so much a share.                                 *)

\* u gives each lot a value per share, which does not depend on its size.
Rates(T, u) == u \in [T -> Int] /\ \A x \in T, q \in Nat : u[[x EXCEPT !.qty = q]] = u[x]
Value(T, u)    == [x \in T |-> x.qty * u[x]]
Worth(T, u, s) == Total(Weights(Value(T, u), s))

\* What an element is worth, at its rate a share.
LEMMA ValueIs ==
  ASSUME NEW T, Stock(T), NEW u, Rates(T, u)
  PROVE  /\ Value(T, u) \in [T -> Int]
         /\ \A x \in T : /\ x.qty \in Nat /\ u[x] \in Int /\ Value(T, u)[x] = x.qty * u[x]
                         /\ x.qty = 0 => Value(T, u)[x] = 0
<1>1. \A x \in T : x.qty \in Nat /\ u[x] \in Int
  BY DEF Stock, Rates
<1>2. \A x \in T : x.qty * u[x] \in Int /\ (x.qty = 0 => x.qty * u[x] = 0)
  BY <1>1
<1>3. QED
  BY <1>1, <1>2 DEF Value

\* A sequence is worth an integer.
LEMMA WorthType ==
  ASSUME NEW T, Stock(T), NEW u, Rates(T, u), NEW s \in Seq(T)
  PROVE  Worth(T, u, s) \in Int
<1> DEFINE a == Weights(Value(T, u), s)
<1>1. a \in Seq(Int)
  BY ValueIs, WeightsAre
<1> HIDE DEF a
<1>2. Len(a) \in 0..Len(a)
  BY <1>1
<1>3. Sums(a)[Len(a)] \in Int
  BY <1>1, <1>2, SumsAre
<1>4. QED
  BY <1>3 DEF Total, Worth, a

\* Nothing is worth nothing.
LEMMA WorthNone ==
  ASSUME NEW T, Stock(T), NEW u, Rates(T, u)
  PROVE  Worth(T, u, <<>>) = 0
<1> DEFINE s == <<>>
           w == Value(T, u)
           a == Weights(w, s)
<1>1. s \in Seq(T) /\ Len(s) = 0 /\ w \in [T -> Int]
  BY ValueIs
<1> HIDE DEF s, w
<1>2. a \in Seq(Int) /\ Len(a) = 0
  BY <1>1, WeightsAre
<1> HIDE DEF a
<1>3. Total(a) = 0
  BY <1>2, SumsAre DEF Total
<1>4. QED
  BY <1>3 DEF Worth, a, s, w

\* One more element adds what it is worth.
LEMMA WorthAppend ==
  ASSUME NEW T, Stock(T), NEW u, Rates(T, u), NEW s \in Seq(T), NEW x \in T
  PROVE  Worth(T, u, Append(s, x)) = Worth(T, u, s) + x.qty * u[x]
<1> DEFINE w == Value(T, u)
<1>1. w \in [T -> Int] /\ w[x] = x.qty * u[x] /\ w[x] \in Int
  <2>1. w \in [T -> Int] /\ w[x] = x.qty * u[x]
    BY ValueIs
  <2> HIDE DEF w
  <2>2. QED
    BY <2>1
<1> HIDE DEF w
<1>2. Weights(w, s) \in Seq(Int) /\ Weights(w, Append(s, x)) = Append(Weights(w, s), w[x])
  BY <1>1, WeightsAre
<1>3. Total(Append(Weights(w, s), w[x])) = Total(Weights(w, s)) + w[x]
  BY <1>1, <1>2, TotalAppend
<1>4. QED
  BY <1>1, <1>2, <1>3 DEF Worth, w

\* Two sequences are worth what they are worth together.
LEMMA WorthConcat ==
  ASSUME NEW T, Stock(T), NEW u, Rates(T, u), NEW s \in Seq(T), NEW v \in Seq(T)
  PROVE  Worth(T, u, s \o v) = Worth(T, u, s) + Worth(T, u, v)
<1> DEFINE w == Value(T, u)
           a == Weights(w, s)
           b == Weights(w, v)
           c == Weights(w, s \o v)
<1>1. w \in [T -> Int] /\ s \o v \in Seq(T)
  BY ValueIs
<1> HIDE DEF w
<1>2. /\ a \in Seq(Int) /\ Len(a) = Len(s) /\ \A i \in 1..Len(s) : a[i] = w[s[i]]
      /\ b \in Seq(Int) /\ Len(b) = Len(v) /\ \A i \in 1..Len(v) : b[i] = w[v[i]]
      /\ c \in Seq(Int) /\ Len(c) = Len(s \o v) /\ \A i \in 1..Len(s \o v) : c[i] = w[(s \o v)[i]]
  BY <1>1, WeightsAre
<1> HIDE DEF a, b, c
<1>3. c = a \o b
  <2>1. /\ Len(s) \in Nat /\ Len(v) \in Nat /\ Len(s \o v) = Len(s) + Len(v)
        /\ \A i \in 1..(Len(s) + Len(v)) : (s \o v)[i] = IF i <= Len(s) THEN s[i] ELSE v[i - Len(s)]
    OBVIOUS
  <2>2. a \o b \in Seq(Int) /\ Len(a \o b) = Len(a) + Len(b) /\ Len(c) = Len(a \o b)
    BY <1>2, <2>1
  <2>3. \A i \in 1..Len(c) : c[i] = (a \o b)[i]
    <3> TAKE i \in 1..Len(c)
    <3>1. i \in 1..(Len(a) + Len(b)) /\ i \in 1..(Len(s) + Len(v))
      BY <1>2, <2>1
    <3>2. (a \o b)[i] = IF i <= Len(a) THEN a[i] ELSE b[i - Len(a)]
      BY <1>2, <3>1, ConcatIs
    <3>3. CASE i <= Len(s)
      <4>1. i \in 1..Len(s)
        BY <2>1, <3>1, <3>3
      <4>2. (s \o v)[i] = s[i]
        BY <2>1, <3>1, <3>3
      <4>3. QED
        BY <1>2, <2>1, <3>1, <3>2, <3>3, <4>1, <4>2
    <3>4. CASE ~(i <= Len(s))
      <4>1. i - Len(s) \in 1..Len(v)
        BY <2>1, <3>1, <3>4
      <4>2. (s \o v)[i] = v[i - Len(s)]
        BY <2>1, <3>1, <3>4
      <4>3. QED
        BY <1>2, <2>1, <3>1, <3>2, <3>4, <4>1, <4>2
    <3>5. QED
      BY <3>3, <3>4
  <2> DEFINE d == a \o b
  <2>4. d \in Seq(Int) /\ Len(c) = Len(d) /\ \A i \in 1..Len(c) : c[i] = d[i]
    BY <2>2, <2>3
  <2> HIDE DEF d
  <2>5. c = d
    <3>1. c = [i \in 1..Len(c) |-> c[i]]
      BY <1>2
    <3>2. d = [i \in 1..Len(d) |-> d[i]]
      BY <2>4
    <3>3. [i \in 1..Len(c) |-> c[i]] = [i \in 1..Len(d) |-> d[i]]
      BY <2>4
    <3>4. QED
      BY <3>1, <3>2, <3>3
  <2>6. QED
    BY <2>5 DEF d
<1>4. Total(a \o b) = Total(a) + Total(b)
  BY <1>2, SumsConcat
<1>5. QED
  BY <1>3, <1>4 DEF Worth, a, b, c, w

\* Lots without shares are worth nothing.
LEMMA WorthFilled ==
  ASSUME NEW T, Stock(T), NEW u, Rates(T, u), NEW s \in Seq(T)
  PROVE  Worth(T, u, Filled(s)) = Worth(T, u, s)
<1> DEFINE w == Value(T, u)
           S == {i \in DOMAIN s : s[i].qty > 0}
<1>1. w \in [T -> Int] /\ \A x \in T : x.qty \in Nat /\ (x.qty = 0 => w[x] = 0)
  BY ValueIs
<1>2. Filled(s) = Chosen(s, S)
  BY DEF Filled
<1>3. \A i \in DOMAIN s : s[i] \in T /\ (i \notin S => w[s[i]] = 0)
  <2> HIDE DEF w
  <2> TAKE i \in DOMAIN s
  <2>1. s[i] \in T
    OBVIOUS
  <2>2. ASSUME i \notin S PROVE w[s[i]] = 0
    <3>1. ~(s[i].qty > 0) /\ s[i].qty \in Nat
      BY <1>1, <2>1, <2>2
    <3>2. s[i].qty = 0
      BY <3>1
    <3>3. QED
      BY <1>1, <2>1, <3>2
  <2>3. QED
    BY <2>1, <2>2
<1> HIDE DEF w, S
<1>4. [i \in DOMAIN s |-> IF i \in S THEN w[s[i]] ELSE 0] = [i \in DOMAIN s |-> w[s[i]]]
  BY <1>3
<1>5. Total([j \in DOMAIN Chosen(s, S) |-> w[Chosen(s, S)[j]]])
        = Total([i \in DOMAIN s |-> IF i \in S THEN w[s[i]] ELSE 0])
  BY <1>1, ChosenTotal
<1>6. Total(Weights(w, Chosen(s, S))) = Total(Weights(w, s))
  BY <1>4, <1>5 DEF Weights
<1>7. QED
  BY <1>2, <1>6 DEF Worth, w

\* Two sequences that share out the shares of a third.
LEMMA WorthParts ==
  ASSUME NEW T, Stock(T), NEW u, Rates(T, u), NEW s \in Seq(T), NEW a \in Seq(T), NEW b \in Seq(T),
         Len(a) = Len(s), Len(b) = Len(s),
         \A i \in 1..Len(s) : /\ a[i].qty + b[i].qty = s[i].qty
                              /\ u[a[i]] = u[s[i]] /\ u[b[i]] = u[s[i]]
  PROVE  Worth(T, u, s) = Worth(T, u, a) + Worth(T, u, b)
<1> DEFINE w == Value(T, u)
           wa == Weights(w, a)
           wb == Weights(w, b)
           ws == Weights(w, s)
           k == Len(s)
<1>1. /\ w \in [T -> Int]
      /\ \A x \in T : x.qty \in Nat /\ u[x] \in Int /\ w[x] = x.qty * u[x]
  BY ValueIs
<1>2. k \in Nat /\ \A i \in 1..k : s[i] \in T /\ a[i] \in T /\ b[i] \in T
  OBVIOUS
<1> HIDE DEF w
<1>3. /\ ws \in Seq(Int) /\ Len(ws) = k /\ \A i \in 1..k : ws[i] = w[s[i]]
      /\ wa \in Seq(Int) /\ Len(wa) = k /\ \A i \in 1..k : wa[i] = w[a[i]]
      /\ wb \in Seq(Int) /\ Len(wb) = k /\ \A i \in 1..k : wb[i] = w[b[i]]
  <2>0. w \in [T -> Int]
    BY <1>1
  <2>1. ws \in Seq(Int) /\ Len(ws) = k /\ \A i \in 1..k : ws[i] = w[s[i]]
    BY <2>0, WeightsAre
  <2>2. wa \in Seq(Int) /\ Len(wa) = k /\ \A i \in 1..k : wa[i] = w[a[i]]
    <3>1. wa \in Seq(Int) /\ Len(wa) = Len(a) /\ \A i \in 1..Len(a) : wa[i] = w[a[i]]
      BY <2>0, WeightsAre
    <3> HIDE DEF wa
    <3>2. Len(a) = k
      OBVIOUS
    <3> HIDE DEF k
    <3>3. QED
      BY <3>1, <3>2
  <2>3. wb \in Seq(Int) /\ Len(wb) = k /\ \A i \in 1..k : wb[i] = w[b[i]]
    <3>1. wb \in Seq(Int) /\ Len(wb) = Len(b) /\ \A i \in 1..Len(b) : wb[i] = w[b[i]]
      BY <2>0, WeightsAre
    <3> HIDE DEF wb
    <3>2. Len(b) = k
      OBVIOUS
    <3> HIDE DEF k
    <3>3. QED
      BY <3>1, <3>2
  <2>4. QED
    BY <2>1, <2>2, <2>3
<1>4. \A x \in Int, y \in Int, z \in Int : (x + y) * z = x * z + y * z
  OBVIOUS
<1> HIDE DEF ws, wa, wb
<1>5. \A i \in 1..k : ws[i] = wa[i] + wb[i]
  <2> TAKE i \in 1..k
  <2> DEFINE x == a[i].qty
             y == b[i].qty
             z == u[s[i]]
  <2>1. x \in Int /\ y \in Int /\ z \in Int /\ s[i].qty = x + y
    BY <1>1, <1>2
  <2>2. wa[i] = x * z /\ wb[i] = y * z /\ ws[i] = (x + y) * z
    <3>1. wa[i] = a[i].qty * u[a[i]] /\ wb[i] = b[i].qty * u[b[i]] /\ ws[i] = s[i].qty * u[s[i]]
      BY <1>1, <1>2, <1>3
    <3>2. u[a[i]] = z /\ u[b[i]] = z
      OBVIOUS
    <3>3. QED
      BY <2>1, <3>1, <3>2
  <2> HIDE DEF x, y, z
  <2>3. (x + y) * z = x * z + y * z
    BY <1>4, <2>1
  <2>4. QED
    BY <2>2, <2>3
<1>6. \A i \in 0..k : Sums(ws)[i] = Sums(wa)[i] + Sums(wb)[i]
  <2> HIDE DEF k
  <2>0. wa \in Seq(Int) /\ wb \in Seq(Int) /\ ws \in Seq(Int) /\ Len(wa) = k
    BY <1>3
  <2>1. Len(wb) = Len(wa) /\ Len(ws) = Len(wa) /\ \A i \in 1..Len(wa) : ws[i] = wa[i] + wb[i]
    BY <1>3, <1>5
  <2>2. QED
    BY <2>0, <2>1, SumsAdd
<1>7. Total(ws) = Total(wa) + Total(wb)
  <2>1. k \in 0..k
    BY <1>2
  <2>2. QED
    BY <1>3, <1>6, <2>1 DEF Total
<1>8. QED
  BY <1>7 DEF Worth, ws, wa, wb, w

\* What is sold and what is kept.
LEMMA WorthSold ==
  ASSUME NEW T, Stock(T), NEW u, Rates(T, u), NEW s \in Seq(T), NEW n \in Nat
  PROVE  /\ Taken(s, n) \in Seq(T) /\ Rest(s, n) \in Seq(T)
         /\ Worth(T, u, s) = Worth(T, u, Taken(s, n)) + Worth(T, u, Rest(s, n))
<1> DEFINE t == InOrder(s, n)
           q == [i \in DOMAIN s |-> s[i].qty - t[i]]
           a == WithQty(s, t)
           b == WithQty(s, q)
           k == Len(s)
<1>1. k \in Nat /\ DOMAIN s = 1..k /\ \A i \in 1..k : s[i] \in T /\ s[i].qty \in Nat
  BY DEF Stock
<1>2. t \in [1..k -> Nat]
  BY InOrderIs DEF Stock
<1>3. \A i \in 1..k : t[i] <= s[i].qty
  BY InOrderSums
<1> HIDE DEF t
<1>4. q \in [1..k -> Nat] /\ \A i \in 1..k : q[i] = s[i].qty - t[i] /\ q[i] \in Nat
  BY <1>1, <1>2, <1>3
<1> HIDE DEF q, k
<1>5. /\ a \in Seq(T) /\ Len(a) = k
      /\ \A i \in 1..k : a[i] = [s[i] EXCEPT !.qty = t[i]] /\ a[i].qty = t[i]
  BY <1>2, WithQtyIs DEF k
<1>6. /\ b \in Seq(T) /\ Len(b) = k
      /\ \A i \in 1..k : b[i] = [s[i] EXCEPT !.qty = q[i]] /\ b[i].qty = q[i]
  BY <1>4, WithQtyIs DEF k
<1> HIDE DEF a, b
<1>7. \A i \in 1..k : /\ a[i].qty + b[i].qty = s[i].qty
                      /\ u[a[i]] = u[s[i]] /\ u[b[i]] = u[s[i]]
  <2> TAKE i \in 1..k
  <2>1. t[i] \in Nat /\ q[i] \in Nat /\ s[i] \in T /\ s[i].qty \in Nat
    BY <1>1, <1>2, <1>4
  <2>2. u[a[i]] = u[s[i]]
    BY <1>5, <2>1 DEF Rates
  <2>3. u[b[i]] = u[s[i]]
    BY <1>6, <2>1 DEF Rates
  <2>4. a[i].qty + b[i].qty = s[i].qty
    BY <1>4, <1>5, <1>6, <2>1
  <2>5. QED
    BY <2>2, <2>3, <2>4
<1>8. Worth(T, u, s) = Worth(T, u, a) + Worth(T, u, b)
  BY <1>5, <1>6, <1>7, WorthParts DEF k
<1>9. Taken(s, n) = Filled(a) /\ Rest(s, n) = Filled(b)
  BY DEF Taken, Rest, a, b, t, q
<1>10. /\ Filled(a) \in Seq(T) /\ Filled(b) \in Seq(T)
       /\ Worth(T, u, Filled(a)) = Worth(T, u, a) /\ Worth(T, u, Filled(b)) = Worth(T, u, b)
  BY <1>5, <1>6, FilledSame, WorthFilled
<1>11. QED
  BY <1>8, <1>9, <1>10

\* The price of a share of a lot.
UnitOf(T) == [x \in T |-> x.unit]

\* What lots cost is their worth at their unit prices.
LEMMA CostIsWorth ==
  ASSUME NEW T \in {BookLot, TaxLot}
  PROVE  /\ Stock(T) /\ Rates(T, UnitOf(T)) /\ \A x \in T : UnitOf(T)[x] = x.unit /\ x.unit \in Int
         /\ \A s \in Seq(T) : Cost(s) = Worth(T, UnitOf(T), s)
<1>1. Lots(T) /\ Stock(T)
  BY LotTypes
<1>2. \A x \in T : x.qty \in Nat /\ x.unit \in Int
  BY <1>1 DEF Lots, Stock
<1>3. \A x \in T, q \in Nat : [x EXCEPT !.qty = q] \in T /\ [x EXCEPT !.qty = q].unit = x.unit
  BY <1>1 DEF Lots, Stock
<1>4. Rates(T, UnitOf(T))
  BY <1>2, <1>3 DEF Rates, UnitOf
<1>5. ASSUME NEW s \in Seq(T) PROVE Cost(s) = Worth(T, UnitOf(T), s)
  <2> DEFINE w == Value(T, UnitOf(T))
             k == Len(s)
  <2>1. k \in Nat /\ DOMAIN s = 1..k /\ \A i \in 1..k : s[i] \in T
    OBVIOUS
  <2>2. \A x \in T : w[x] = x.qty * x.unit
    BY DEF Value, UnitOf
  <2> HIDE DEF w, k
  <2>3. [i \in DOMAIN s |-> s[i].qty * s[i].unit] = [i \in DOMAIN s |-> w[s[i]]]
    <3>1. \A i \in DOMAIN s : s[i].qty * s[i].unit = w[s[i]]
      BY <2>1, <2>2
    <3>2. QED
      BY <3>1
  <2>4. QED
    BY <2>3 DEF Cost, Worth, Weights, w
<1>6. QED
  BY <1>1, <1>2, <1>4, <1>5 DEF UnitOf

\* A number without remainder is the product of its quotient.
LEMMA Divided == \A x \in Int, r \in Nat \ {0} : x % r = 0 => x = r * (x \div r)
  BY SMTT(30)

\* A split that divides each unit basis leaves the cost of the lots as it is.
LEMMA CostScaled ==
  ASSUME NEW T \in {BookLot, TaxLot}, NEW lots \in Seq(T), NEW r \in Nat \ {0},
         \A i \in 1..Len(lots) : lots[i].unit % r = 0
  PROVE  Cost(Multiplied(lots, r)) = Cost(lots)
<1> DEFINE v == Multiplied(lots, r)
           k == Len(lots)
           a == [i \in DOMAIN v |-> v[i].qty * v[i].unit]
           b == [i \in DOMAIN lots |-> lots[i].qty * lots[i].unit]
<1>1. /\ v \in Seq(T) /\ Len(v) = k
      /\ \A i \in 1..k : v[i] = MultipliedLot(lots[i], r)
  <2>1. /\ Multiplied(lots, r) \in Seq(T) /\ Scaled(lots, Multiplied(lots, r), r)
        /\ \A i \in 1..Len(lots) : Multiplied(lots, r)[i] = MultipliedLot(lots[i], r)
    BY SplitIs
  <2>2. Len(Multiplied(lots, r)) = Len(lots)
    BY <2>1 DEF Scaled
  <2>3. QED
    BY <2>1, <2>2
<1> HIDE DEF v
<1>2. k \in Nat /\ DOMAIN lots = 1..k /\ DOMAIN v = 1..k /\ \A i \in 1..k : lots[i] \in T
  <2>1. k \in Nat /\ DOMAIN lots = 1..k /\ \A i \in 1..k : lots[i] \in T
    OBVIOUS
  <2>2. DOMAIN v = 1..Len(v)
    <3>1. v \in Seq(T)
      BY <1>1
    <3>2. QED
      BY <3>1
  <2>3. QED
    BY <1>1, <2>1, <2>2
<1>3. \A x \in Int, q \in Int : x % r = 0 => (q * r) * (x \div r) = q * x
  <2> TAKE x \in Int, q \in Int
  <2> HAVE x % r = 0
  <2>1. x = r * (x \div r)
    BY Divided
  <2> DEFINE y == x \div r
  <2>2. y \in Int /\ x = r * y
    BY <2>1, Quotient
  <2> HIDE DEF y
  <2>3. (q * r) * y = q * (r * y)
    BY <2>2
  <2>4. QED
    BY <2>2, <2>3 DEF y
<1>4. \A i \in 1..k : v[i].qty * v[i].unit = lots[i].qty * lots[i].unit
  <2> TAKE i \in 1..k
  <2>1. lots[i].qty \in Int /\ lots[i].unit \in Int /\ lots[i].unit % r = 0
    BY <1>2, LotFields
  <2>2. v[i].qty = lots[i].qty * r /\ v[i].unit = lots[i].unit \div r
    <3> DEFINE x == lots[i]
               q == x.qty * r
               u == x.unit \div r
    <3>1. v[i] = [x EXCEPT !.qty = q, !.unit = u] /\ x \in T
      BY <1>1, <1>2 DEF MultipliedLot
    <3> HIDE DEF x, q, u
    <3>2. v[i].qty = q /\ v[i].unit = u
      <4>1. CASE T = BookLot
        BY <3>1, <4>1 DEF BookLot
      <4>2. CASE T = TaxLot
        BY <3>1, <4>2 DEF TaxLot
      <4>3. QED
        BY <4>1, <4>2
    <3>3. QED
      BY <3>2 DEF x, q, u
  <2>3. (lots[i].qty * r) * (lots[i].unit \div r) = lots[i].qty * lots[i].unit
    BY <1>3, <2>1
  <2>4. QED
    BY <2>2, <2>3
<1> HIDE DEF v, k
<1>5. a = b
  BY <1>2, <1>4
<1>6. QED
  BY <1>5 DEF Cost, v

\* A sale parts what the portfolio's lots cost.
LEMMA SoldWorth ==
  ASSUME NEW s \in Seq(BookLot), NEW n \in Nat
  PROVE  /\ Taken(s, n) \in Seq(BookLot) /\ Rest(s, n) \in Seq(BookLot)
         /\ Worth(BookLot, UnitOf(BookLot), s)
                = Worth(BookLot, UnitOf(BookLot), Taken(s, n))
                      + Worth(BookLot, UnitOf(BookLot), Rest(s, n))
<1> DEFINE T == BookLot
           u == UnitOf(BookLot)
<1>1. Stock(T) /\ Rates(T, u) /\ s \in Seq(T)
  BY CostIsWorth
<1> HIDE DEF T, u
<1>2. Taken(s, n) \in Seq(T) /\ Rest(s, n) \in Seq(T)
  BY <1>1, WorthSold
<1>3. Worth(T, u, s) = Worth(T, u, Taken(s, n)) + Worth(T, u, Rest(s, n))
  BY <1>1, WorthSold
<1>4. QED
  BY <1>2, <1>3 DEF T, u

\* The cost a position reports is that of its lots.
LEMMA CostStep ==
  ASSUME NEW rows \in Seq(Rows), NEW id \in 1..Len(rows), NEW book, NEW tax, InStep(rows, book, tax),
         book.cost = Cost(book.lots),
         rows[id].kind = "split" /\ rows[id].qty > 0 =>
            \A i \in DOMAIN book.lots : book.lots[i].unit % rows[id].qty = 0
  PROVE  ApplyTx(rows, book, id).cost = Cost(ApplyTx(rows, book, id).lots)
<1> DEFINE tx == rows[id]
           fault == FaultOf(tx, id, book.qty)
           b == ApplyTx(rows, book, id)
           u == UnitOf(BookLot)
<1>1. book \in Book /\ book.lots \in Seq(BookLot) /\ book.cost \in Int /\ book.qty \in Int
  BY DEF InStep, Book
<1>2. tx \in Rows /\ tx.kind \in Kinds /\ tx.qty \in Int /\ tx.price \in Int
  BY RowFields
<1>3. b = IF book.fault # NoFault THEN book
          ELSE IF fault # NoFault THEN [book EXCEPT !.fault = fault]
          ELSE CASE tx.kind = "buy"      -> Bought(book, tx, id)
                 [] tx.kind = "sell"     -> Sold(book, tx)
                 [] tx.kind = "split"    -> Split(book, tx)
                 [] tx.kind = "dividend" -> Dividend(book, tx)
                 [] tx.kind = "deposit"  -> Moved(book, tx.price)
                 [] tx.kind = "withdrawal" -> Moved(book, 0 - tx.price)
  BY DEF ApplyTx
<1>4. fault = NoFault /\ tx.kind \in {"buy", "sell", "split"} => tx.qty > 0
  BY <1>2 DEF FaultOf, Malformed, Trade, NoFault
<1>5. /\ Stock(BookLot) /\ Rates(BookLot, u)
      /\ \A x \in BookLot : u[x] = x.unit /\ x.unit \in Int
      /\ \A s \in Seq(BookLot) : Cost(s) = Worth(BookLot, u, s)
  BY CostIsWorth
<1> HIDE DEF b, fault, tx, u
<1>6. CASE book.fault # NoFault
  BY <1>3, <1>6 DEF b
<1>7. CASE book.fault = NoFault /\ fault # NoFault
  <2>1. b = [book EXCEPT !.fault = fault]
    BY <1>3, <1>7
  <2>2. b.cost = book.cost /\ b.lots = book.lots
    BY <1>1, <2>1 DEF Book
  <2>3. QED
    BY <2>2 DEF b
<1>8. CASE book.fault = NoFault /\ fault = NoFault
  <2>1. CASE tx.kind = "buy"
    <3> DEFINE x == [buy |-> id, qty |-> tx.qty, unit |-> tx.price]
               c == tx.qty * tx.price
    <3>1. b = Bought(book, tx, id)
      BY <1>3, <1>8, <2>1
    <3>2. x \in BookLot /\ x.qty = tx.qty /\ x.unit = tx.price
      <4>1. id \in Nat /\ tx.qty \in Nat
        BY <1>2, <1>4, <1>8, <2>1
      <4>2. QED
        BY <1>2, <4>1 DEF BookLot
    <3>3. b.cost = book.cost + c /\ b.lots = Append(book.lots, x)
      BY <1>1, <3>1 DEF Bought, Book
    <3> HIDE DEF x
    <3>4. /\ Append(book.lots, x) \in Seq(BookLot)
          /\ Worth(BookLot, u, Append(book.lots, x)) = Worth(BookLot, u, book.lots) + x.qty * u[x]
      BY <1>1, <1>5, <3>2, WorthAppend
    <3>5. QED
      BY <1>1, <1>5, <3>2, <3>3, <3>4 DEF b
  <2>2. CASE tx.kind = "sell"
    <3> DEFINE n == tx.qty
               sold == Taken(book.lots, n)
               kept == Rest(book.lots, n)
    <3>1. b = Sold(book, tx)
      BY <1>3, <1>8, <2>2
    <3>2. n \in Nat
      BY <1>2, <1>4, <1>8, <2>2
    <3>3. b.cost = book.cost - Cost(sold) /\ b.lots = kept
      BY <1>1, <3>1 DEF Sold, Book
    <3>a. book.lots \in Seq(BookLot)
      BY <1>1
    <3> HIDE DEF n
    <3>4. /\ sold \in Seq(BookLot) /\ kept \in Seq(BookLot)
          /\ Worth(BookLot, u, book.lots) = Worth(BookLot, u, sold) + Worth(BookLot, u, kept)
      BY <3>a, <3>2, SoldWorth DEF u
    <3> HIDE DEF sold, kept
    <3>5. Cost(sold) = Worth(BookLot, u, sold) /\ Cost(kept) = Worth(BookLot, u, kept)
          /\ Cost(book.lots) = Worth(BookLot, u, book.lots)
      BY <1>1, <1>5, <3>4
    <3>6. Cost(sold) \in Int /\ Cost(kept) \in Int
      BY <3>4, CostType
    <3>7. book.cost - Cost(sold) = Cost(kept)
      BY <3>4, <3>5, <3>6
    <3>8. QED
      BY <3>3, <3>7 DEF b
  <2>3. CASE tx.kind = "split"
    <3> DEFINE r == tx.qty
               lots == Multiplied(book.lots, r)
    <3>1. b = Split(book, tx)
      BY <1>3, <1>8, <2>3
    <3>2. r \in Nat \ {0}
      BY <1>2, <1>4, <1>8, <2>3
    <3>3. b.cost = book.cost /\ b.lots = lots
      BY <1>1, <3>1 DEF Split, Book
    <3>4. \A i \in 1..Len(book.lots) : book.lots[i].unit % r = 0
      <4>1. \A i \in DOMAIN book.lots : book.lots[i].unit % rows[id].qty = 0
        BY <1>4, <1>8, <2>3 DEF tx
      <4>2. QED
        BY <1>1, <4>1 DEF tx
    <3> HIDE DEF r
    <3>5. Cost(lots) = Cost(book.lots)
      BY <1>1, <3>2, <3>4, CostScaled
    <3>6. QED
      BY <3>3, <3>5 DEF b
  <2>4. CASE tx.kind \in {"dividend", "deposit", "withdrawal"}
    <3>1. b = Dividend(book, tx) \/ b = Moved(book, tx.price) \/ b = Moved(book, 0 - tx.price)
      <4>1. CASE tx.kind = "dividend"
        BY <1>3, <1>8, <4>1
      <4>2. CASE tx.kind = "deposit"
        BY <1>3, <1>8, <4>2
      <4>3. CASE tx.kind = "withdrawal"
        BY <1>3, <1>8, <4>3
      <4>4. QED
        BY <2>4, <4>1, <4>2, <4>3
    <3>2. b.cost = book.cost /\ b.lots = book.lots
      BY <1>1, <3>1 DEF Dividend, Moved, Book
    <3>3. QED
      BY <3>2 DEF b
  <2>5. QED
    BY <1>2, <2>1, <2>2, <2>3, <2>4 DEF Kinds
<1>9. QED
  BY <1>6, <1>7, <1>8

\* As long as no split leaves a remainder, the cost is that of the lots.
LEMMA CostKept ==
  ASSUME NEW rows \in Seq(Rows), Exact(rows)
  PROVE  \A k \in 0..Len(rows) : Books(rows)[k].cost = Cost(Books(rows)[k].lots)
<1> DEFINE n == Len(rows)
           B == Books(rows)
           S == {k \in 0..n : B[k].cost = Cost(B[k].lots)}
<1>1. n \in Nat /\ \A k \in 1..n : ReplayOrder(rows)[k] \in 1..Len(rows)
  BY OrderIn
<1>2. BooksAre(rows) /\ \A k \in 0..n : InStep(rows, B[k], TaxBooks(rows)[k])
  BY ReplaysAre, BooksInStep
<1>3. 0 \in S
  <2>1. EmptyBook.cost = Cost(EmptyBook.lots)
    <3> DEFINE none == <<>>
    <3>1. none \in Seq(BookLot) /\ Cost(none) = Worth(BookLot, UnitOf(BookLot), none)
          /\ Stock(BookLot) /\ Rates(BookLot, UnitOf(BookLot))
      <4>1. none \in Seq(BookLot)
        OBVIOUS
      <4> HIDE DEF none
      <4>2. QED
        BY <4>1, CostIsWorth
    <3>2. Worth(BookLot, UnitOf(BookLot), none) = 0
      BY <3>1, WorthNone
    <3>3. EmptyBook.cost = 0 /\ EmptyBook.lots = none
      BY DEF EmptyBook
    <3> HIDE DEF none
    <3>4. QED
      BY <3>1, <3>2, <3>3
  <2>2. B[0] = EmptyBook /\ 0 \in 0..n
    BY <1>1, <1>2 DEF BooksAre
  <2>3. QED
    BY <2>1, <2>2
<1>4. \A k \in 1..n : k - 1 \in S => k \in S
  <2> TAKE k \in 1..n
  <2> HAVE k - 1 \in S
  <2> DEFINE id == ReplayOrder(rows)[k]
             book == B[k - 1]
  <2>1. InStep(rows, book, TaxBooks(rows)[k - 1]) /\ id \in 1..Len(rows) /\ book.cost = Cost(book.lots)
        /\ k \in DOMAIN rows
    BY <1>1, <1>2
  <2>2. rows[id].kind = "split" /\ rows[id].qty > 0 =>
            \A i \in DOMAIN book.lots : book.lots[i].unit % rows[id].qty = 0
    BY <2>1 DEF Exact
  <2>3. B[k] = ApplyTx(rows, book, id)
    BY <1>2 DEF BooksAre
  <2> HIDE DEF id, book
  <2>4. ApplyTx(rows, book, id).cost = Cost(ApplyTx(rows, book, id).lots)
    BY <2>1, <2>2, CostStep
  <2>5. k \in 0..n
    BY <1>1
  <2>6. QED
    BY <2>3, <2>4, <2>5
<1>5. \A k \in 0..n : k \in S
  <2> HIDE DEF S, n, B
  <2>1. QED
    BY <1>1, <1>3, <1>4, UpTo
<1>6. QED
  BY <1>5

\* What EnginesAgree says of a log.
EnginesAgreeOn(rows) ==
  /\ Agree(ComputeBasis(rows), TaxDisposals(rows))
  /\ Balances(ComputeBasis(rows))
  /\ Exact(rows) => ComputeBasis(rows).cost = Cost(ComputeBasis(rows).lots)

\* portfolio.rs:180-181: every log of rows, broken ones included, is accepted or refused
\* by both engines alike, at the same row and for the same reason; they then hold the
\* same shares in the same order, and the portfolio's totals balance.
THEOREM EnginesAlwaysAgree ==
  \A rows \in Seq(Rows) : EnginesAgreeOn(rows)
<1> TAKE rows \in Seq(Rows)
<1> DEFINE n == Len(rows)
           book == ComputeBasis(rows)
           tax == TaxDisposals(rows)
<1>1. n \in 0..n
  BY OrderIn
<1>2. book = Books(rows)[n] /\ tax = TaxBooks(rows)[n]
  BY DEF ComputeBasis, TaxDisposals
<1>3. InStep(rows, book, tax)
  BY <1>1, <1>2, BooksInStep
<1>4. Exact(rows) => book.cost = Cost(book.lots)
  BY <1>1, <1>2, CostKept
<1> HIDE DEF book, tax
<1>5. Agree(book, tax) /\ Balances(book)
  BY <1>3 DEF InStep, Agree, SameLine
<1>6. QED
  BY <1>4, <1>5 DEF EnginesAgreeOn, book, tax

-----------------------------------------------------------------------------
(* What an import reads are rows.                                           *)

\* What a rule of a table export may say.
TableKinds == {"buy", "sell", "dividend", "deposit", "withdrawal", "transfer"}

\* Every rule of a format names a kind of row, or a transfer.
LEMMA RulesAre ==
  ASSUME NEW format
  PROVE  /\ Len(Rules(format)) \in Nat /\ DOMAIN Rules(format) = 1..Len(Rules(format))
         /\ \A i \in DOMAIN Rules(format) : Rules(format)[i].kind \in TableKinds
<1> DEFINE Good(s) == /\ Len(s) \in Nat /\ DOMAIN s = 1..Len(s)
                      /\ \A i \in DOMAIN s : s[i].kind \in TableKinds
<1>1. Good(Fidelity)
  <2>1. Len(Fidelity) = 5 /\ DOMAIN Fidelity = 1..5
    BY DEF Fidelity
  <2>2. /\ Fidelity[1].kind = "buy" /\ Fidelity[2].kind = "sell" /\ Fidelity[3].kind = "dividend"
        /\ Fidelity[4].kind = "deposit" /\ Fidelity[5].kind = "withdrawal"
    BY DEF Fidelity, Rule
  <2>3. \A i \in 1..5 : i = 1 \/ i = 2 \/ i = 3 \/ i = 4 \/ i = 5
    OBVIOUS
  <2>4. QED
    BY <2>1, <2>2, <2>3 DEF TableKinds
<1>2. Good(Schwab)
  <2>1. Len(Schwab) = 5 /\ DOMAIN Schwab = 1..5
    BY DEF Schwab
  <2>2. /\ Schwab[1].kind = "buy" /\ Schwab[2].kind = "sell" /\ Schwab[3].kind = "dividend"
        /\ Schwab[4].kind = "deposit" /\ Schwab[5].kind = "withdrawal"
    BY DEF Schwab, Rule
  <2>3. \A i \in 1..5 : i = 1 \/ i = 2 \/ i = 3 \/ i = 4 \/ i = 5
    OBVIOUS
  <2>4. QED
    BY <2>1, <2>2, <2>3 DEF TableKinds
<1>3. Good(Robinhood)
  BY DEF Robinhood, Rule, TableKinds
<1> HIDE DEF Good
<1>4. Good(Rules(format))
  BY <1>1, <1>2, <1>3 DEF Rules
<1>5. QED
  BY <1>4 DEF Good

\* What a line is classified as is a kind of row, or nothing.
LEMMA KindsAre ==
  ASSUME NEW format, NEW line
  PROVE  /\ KindOf(format, line) \in TableKinds \cup {"none"}
         /\ Classify(format, line) \in Kinds \cup {"none"}
<1> DEFINE rules == Rules(format)
           hits == {i \in DOMAIN rules : rules[i].words \cap line.words # {}}
<1>1. KindOf(format, line) = IF hits = {} THEN "none" ELSE rules[Min(hits)].kind
  BY DEF KindOf
<1>2. hits \in SUBSET Nat
  BY RulesAre
<1>3. \A i \in hits : rules[i].kind \in TableKinds
  BY RulesAre
<1> HIDE DEF hits, rules
<1>4. hits # {} => Min(hits) \in hits
  <2> HAVE hits # {}
  <2>1. \E m \in hits : \A n \in hits : m <= n
    BY <1>2, LeastOf
  <2>2. QED
    BY <2>1 DEF Min
<1>5. KindOf(format, line) \in TableKinds \cup {"none"}
  BY <1>1, <1>3, <1>4
<1>6. QED
  BY <1>5 DEF Classify, Kinds, TableKinds

\* A cell that holds a number has a size.
LEMMA Numbers ==
  \A cell \in Cells : cell # Junk => Size(cell) \in Int /\ OrZero(cell) \in Int
  BY DEF Cells, Size, OrZero, Negative

\* What RowOf makes of numbers is a row.
LEMMA RowOfIs ==
  ASSUME NEW kind \in Kinds, NEW qty \in Int, NEW price \in Int, NEW ts \in Int
  PROVE  RowOf(kind, qty, price, ts).row \in Rows
  BY DEF RowOf, Rows

\* What is ignored, skipped or failed is no row.
LEMMA NoRow == Ignored.what # "row" /\ Skipped.what # "row" /\ Failed.what # "row"
  BY DEF Ignored, Skipped, Failed

TableCells == [words : SUBSET STRING, qty : Cells, price : Cells, amount : Cells, ts : Int]

\* A table's line that yields a row yields a row of the log.
LEMMA TableLineIs ==
  ASSUME NEW format, NEW line \in TableCells
  PROVE  TableLine(format, line).what = "row" => TableLine(format, line).row \in Rows
<1> DEFINE kind == Classify(format, line)
           r == TableLine(format, line)
           price == IF kind \in {"buy", "sell"} THEN OrZero(line.price) ELSE Size(line.amount)
<1>1. kind \in Kinds \cup {"none"}
  BY KindsAre
<1>2. /\ line.qty \in Cells /\ line.price \in Cells /\ line.amount \in Cells /\ line.ts \in Int
  BY DEF TableCells
<1>3. r = CASE line.words = {} -> Ignored
            [] line.words # {} /\ kind = "none" -> Skipped
            [] kind # "none" /\ Junk \in {line.qty, line.price, line.amount} -> Failed
            [] OTHER -> RowOf(kind, Size(line.qty), price, line.ts)
  BY DEF TableLine
<1>4. line.qty # Junk => Size(line.qty) \in Int
  BY <1>2, Numbers
<1>5. line.price # Junk /\ line.amount # Junk => price \in Int
  BY <1>2, Numbers
<1> HIDE DEF kind, r, price
<1>6. CASE line.words = {} \/ kind = "none" \/ Junk \in {line.qty, line.price, line.amount}
  <2>1. r = Ignored \/ r = Skipped \/ r = Failed
    BY <1>3, <1>6
  <2>2. r.what # "row"
    BY <2>1, NoRow
  <2>3. QED
    BY <2>2 DEF r
<1>7. CASE ~(line.words = {} \/ kind = "none" \/ Junk \in {line.qty, line.price, line.amount})
  <2>1. r = RowOf(kind, Size(line.qty), price, line.ts)
    BY <1>3, <1>7
  <2>2. kind \in Kinds /\ Size(line.qty) \in Int /\ price \in Int
    BY <1>1, <1>4, <1>5, <1>7
  <2>3. r.row \in Rows
    BY <1>2, <2>1, <2>2, RowOfIs
  <2>4. QED
    BY <2>3 DEF r
<1>8. QED
  BY <1>6, <1>7

\* What File says of a statement.
Statement(doc) ==
  /\ Len(doc) \in Nat
  /\ \A i \in DataLines(doc) :
        /\ doc[i].ts \in Int
        /\ \A column \in {"quantity", "price", "amount"} : Get(doc, i, column) \in Cells

\* A statement's trade that yields a row yields a row of the log.
LEMMA TradeLineIs ==
  ASSUME NEW doc, Statement(doc), NEW i \in DataLines(doc)
  PROVE  TradeLine(doc, i).what = "row" => TradeLine(doc, i).row \in Rows
<1> DEFINE qty   == Get(doc, i, "quantity")
           price == Get(doc, i, "price")
           kind  == IF Negative(qty) THEN "sell" ELSE "buy"
           r     == TradeLine(doc, i)
           ts    == doc[i].ts
<1>1. qty \in Cells /\ price \in Cells /\ ts \in Int
  BY DEF Statement
<1>2. kind \in Kinds
  BY DEF Kinds
<1>3. \/ r \in {Ignored, Skipped, Failed}
      \/ r = RowOf(kind, Size(qty), OrZero(price), ts) /\ Junk \notin {qty, price}
  <2> DEFINE grain == Get(doc, i, "grain")
             x == IF qty \in {Blank, 0} THEN Ignored
                  ELSE IF Junk \in {qty, price} THEN Failed
                  ELSE RowOf(kind, Size(qty), OrZero(price), ts)
             y == IF grain \in {"ClosedLot", "Order", "Trade"} THEN Ignored ELSE Skipped
             A == grain \notin {Blank, Preferred(doc)}
             B == (Get(doc, i, "asset") # "Stocks" \/ Get(doc, i, "currency") # "USD")
  <2>1. r = CASE A -> y [] ~A /\ B -> Skipped [] OTHER -> x
    BY DEF TradeLine
  <2>2. y \in {Ignored, Skipped}
    OBVIOUS
  <2>3. x \in {Ignored, Failed} \/ (x = RowOf(kind, Size(qty), OrZero(price), ts) /\ Junk \notin {qty, price})
    OBVIOUS
  <2> HIDE DEF x, y, A, B
  <2>4. r = y \/ r = Skipped \/ r = x
    BY <2>1
  <2>5. QED
    BY <2>2, <2>3, <2>4
<1> HIDE DEF qty, price, kind, r, ts
<1>4. CASE r \in {Ignored, Skipped, Failed}
  BY <1>4, NoRow DEF r
<1>5. CASE r = RowOf(kind, Size(qty), OrZero(price), ts) /\ Junk \notin {qty, price}
  <2>1. Size(qty) \in Int /\ OrZero(price) \in Int
    BY <1>1, <1>5, Numbers
  <2>2. r.row \in Rows
    BY <1>1, <1>2, <1>5, <2>1, RowOfIs
  <2>3. QED
    BY <2>2 DEF r
<1>6. QED
  BY <1>3, <1>4, <1>5

\* A statement's cash line that yields a row yields a row of the log.
LEMMA CashLineIs ==
  ASSUME NEW doc, Statement(doc), NEW i \in DataLines(doc)
  PROVE  CashLine(doc, i).what = "row" => CashLine(doc, i).row \in Rows
<1> DEFINE amount == Get(doc, i, "amount")
           kind   == IF Negative(amount) THEN "withdrawal" ELSE "deposit"
           r      == CashLine(doc, i)
           ts     == doc[i].ts
           d      == RowOf("dividend", 0, amount, ts)
           m      == RowOf(kind, 0, Size(amount), ts)
<1>1. amount \in Cells /\ ts \in Int
  BY DEF Statement
<1>2. kind \in Kinds /\ "dividend" \in Kinds /\ 0 \in Int
  BY DEF Kinds
<1>3. \/ r \in {Ignored, Skipped, Failed}
      \/ r \in {d, m} /\ amount # Blank /\ amount # Junk
  <2> DEFINE c == Get(doc, i, "currency")
             x == IF amount = Blank THEN Ignored
                  ELSE IF amount = Junk THEN Failed
                  ELSE IF doc[i].section = "Dividends" THEN d ELSE m
             A == c \in {Blank, "Total"}
             B == c \notin {Blank, "Total", "USD"}
  <2>1. r = CASE A -> Ignored [] B -> Skipped [] OTHER -> x
    BY DEF CashLine
  <2>3. x \in {Ignored, Failed} \/ (x \in {d, m} /\ amount # Blank /\ amount # Junk)
    OBVIOUS
  <2>a. ~(A /\ B)
    OBVIOUS
  <2> HIDE DEF x, A, B
  <2>4. r = Ignored \/ r = Skipped \/ r = x
    BY <2>1
  <2>5. QED
    BY <2>3, <2>4
<1> HIDE DEF amount, kind, r, ts
<1>4. CASE r \in {Ignored, Skipped, Failed}
  BY <1>4, NoRow DEF r
<1>5. CASE r \in {d, m} /\ amount # Blank /\ amount # Junk
  <2>1. Size(amount) \in Int /\ amount \in Int
    BY <1>1, <1>5, Numbers DEF Cells
  <2>2. d.row \in Rows
    BY <1>1, <1>2, <2>1, RowOfIs
  <2>3. m.row \in Rows
    BY <1>1, <1>2, <2>1, RowOfIs
  <2>4. r.row \in Rows
    BY <1>5, <2>2, <2>3
  <2>5. QED
    BY <2>4 DEF r
<1>6. QED
  BY <1>3, <1>4, <1>5

\* A statement's line that yields a row yields a row of the log.
LEMMA IbkrLineIs ==
  ASSUME NEW doc, Statement(doc), NEW i
  PROVE  IbkrLine(doc, i).what = "row" => IbkrLine(doc, i).row \in Rows
<1> DEFINE r == IbkrLine(doc, i)
<1>1. \/ r \in {Ignored, Skipped}
      \/ i \in DataLines(doc) /\ r \in {TradeLine(doc, i), CashLine(doc, i)}
  <2> DEFINE section == doc[i].section
             totals == IF section \in Reported THEN {"Total"} ELSE {Blank, "Total"}
             x == IF section \in Reported \cup {"Withholding Tax"} /\ Get(doc, i, "currency") \notin totals
                  THEN Skipped ELSE Ignored
             A == i \notin DataLines(doc)
             B == section = "Trades"
             C == section \in {"Dividends", "Deposits & Withdrawals"}
  <2>1. r = CASE A -> Ignored [] ~A /\ B -> TradeLine(doc, i) [] ~A /\ C -> CashLine(doc, i)
              [] OTHER -> x
    BY DEF IbkrLine
  <2>2. x \in {Ignored, Skipped}
    OBVIOUS
  <2>3. ~(B /\ C)
    OBVIOUS
  <2> HIDE DEF x, B, C, r
  <2>4. QED
    BY <2>1, <2>2, <2>3
<1> HIDE DEF r
<1>2. CASE r \in {Ignored, Skipped}
  BY <1>2, NoRow DEF r
<1>3. CASE i \in DataLines(doc) /\ r \in {TradeLine(doc, i), CashLine(doc, i)}
  <2>1. r.what = "row" => r.row \in Rows
    BY <1>3, TradeLineIs, CashLineIs
  <2>2. QED
    BY <2>1 DEF r
<1>4. QED
  BY <1>1, <1>2, <1>3

\* Whatever the format, a line that yields a row yields a row of the log.
LEMMA ReadIs ==
  ASSUME NEW f, File(f), NEW i \in 1..Len(f.lines)
  PROVE  Read(f, i).what = "row" => Read(f, i).row \in Rows
<1>1. CASE f.format = "generic"
  <2>1. f.lines \in Seq(Rows)
    BY <1>1 DEF File
  <2>2. f.lines[i] \in Rows
    BY <2>1
  <2>3. Read(f, i).row = f.lines[i]
    BY <1>1 DEF Read
  <2>4. QED
    BY <2>2, <2>3
<1>2. CASE f.format = "ibkr"
  <2>1. Statement(f.lines)
    BY <1>2 DEF File, Statement
  <2>2. Read(f, i) = IbkrLine(f.lines, i)
    BY <1>2 DEF Read
  <2>3. QED
    BY <2>1, <2>2, IbkrLineIs
<1>3. CASE f.format # "generic" /\ f.format # "ibkr"
  <2>1. f.lines \in Seq(TableCells)
    BY <1>3 DEF File, TableCells
  <2>2. f.lines[i] \in TableCells
    BY <2>1
  <2>3. Read(f, i) = TableLine(f.format, f.lines[i])
    BY <1>3 DEF Read
  <2>4. QED
    BY <2>2, <2>3, TableLineIs
<1>4. QED
  BY <1>1, <1>2, <1>3

\* Every file becomes rows.
LEMMA MappedIs ==
  ASSUME NEW f, File(f)
  PROVE  Mapped(f) \in Seq(Rows)
<1> DEFINE n == Len(f.lines)
           T == Seq(Rows)
           none == <<>>
           next(k, x) == IF Read(f, k).what = "row" THEN Append(x, Read(f, k).row) ELSE x
           step == [q \in (1..n) \X T |-> next(q[1], q[2])]
           Is(g) == g = [k \in 0..n |-> IF k = 0 THEN none ELSE next(k, g[k - 1])]
           F == CHOOSE g : Is(g)
<1>1. n \in Nat
  <2>1. CASE f.format = "generic"
    BY <2>1 DEF File
  <2>2. CASE f.format = "ibkr"
    BY <2>2 DEF File
  <2>3. CASE f.format # "generic" /\ f.format # "ibkr"
    BY <2>3 DEF File
  <2>4. QED
    BY <2>1, <2>2, <2>3
<1>2. Mapped(f) = F[n]
  BY DEF Mapped
<1>3. none \in T
  OBVIOUS
<1> HIDE DEF none
<1>4. \A k \in 1..n, x \in T : next(k, x) \in T
  <2> TAKE k \in 1..n, x \in T
  <2>1. Read(f, k).what = "row" => Read(f, k).row \in Rows
    BY ReadIs
  <2>2. QED
    BY <2>1
<1> HIDE DEF T, n, next
<1>5. PICK g : IsTable(g, T, n, none, step)
  <2>1. \A k \in 1..n, x \in T : step[<<k, x>>] \in T
    BY <1>4
  <2> HIDE DEF step
  <2>2. QED
    BY <1>1, <1>3, <2>1, TableOf
<1>6. g \in [0..n -> T] /\ g[0] = none /\ \A k \in 1..n : g[k] = next(k, g[k - 1])
  <2>1. \A k \in 1..n : g[k - 1] \in T
    BY <1>1, <1>5 DEF IsTable
  <2>2. \A k \in 1..n : step[<<k, g[k - 1]>>] = next(k, g[k - 1])
    BY <2>1
  <2> HIDE DEF step
  <2>3. QED
    BY <1>5, <2>2 DEF IsTable
<1>7. Is(g)
  BY <1>1, <1>6
<1>8. Is(F)
  BY <1>7
<1> HIDE DEF F
<1>9. F[0] = none /\ \A k \in 1..n : F[k] = next(k, F[k - 1])
  BY <1>1, <1>8
<1>10. \A k \in 0..n : F[k] \in T
  <2> DEFINE G == {k \in 0..n : F[k] \in T}
  <2>1. 0 \in G
    BY <1>1, <1>3, <1>9
  <2>2. \A k \in 1..n : k - 1 \in G => k \in G
    BY <1>1, <1>4, <1>9
  <2> HIDE DEF G
  <2>3. \A k \in 0..n : k \in G
    BY <1>1, <2>1, <2>2, UpTo
  <2>4. QED
    BY <2>3 DEF G
<1>11. n \in 0..n
  BY <1>1
<1>12. QED
  BY <1>2, <1>10, <1>11 DEF T

\* The rows of a file in the order an import inserts them.
LEMMA ImportOrderIs ==
  ASSUME NEW file \in Seq(Rows)
  PROVE  ImportOrder(file) \in Seq(Rows) /\ Len(ImportOrder(file)) = Len(file)
<1> DEFINE S == DOMAIN file
           n == Len(file)
           sold(a) == Disposal(file[a])
           earlier(a, b) == \/ file[a].ts < file[b].ts
                            \/ /\ file[a].ts = file[b].ts
                               /\ \/ Disposal(file[b]) /\ ~Disposal(file[a])
                                  \/ (Disposal(file[a]) <=> Disposal(file[b])) /\ a < b
           R == {p \in S \X S : earlier(p[1], p[2])}
           order == InLine(S, R)
<1>1. n \in Nat /\ S = 1..n /\ \A i \in S : file[i] \in Rows /\ file[i].ts \in Int
  BY RowFields
<1>2. IsFiniteSet(S) /\ Cardinality(S) = n
  <2>1. 1 \in Int /\ n \in Int /\ n - 1 + 1 = n /\ (1 > n => n = 0)
    BY <1>1
  <2> HIDE DEF n, S
  <2>2. QED
    BY <1>1, <2>1, FS_Interval
<1>3. \A i, j \in S : <<i, j>> \in R <=> earlier(i, j)
  OBVIOUS
<1>4. StrictOrder(S, R)
  <2>0. \A i \in S : Disposal(file[i]) \in BOOLEAN
    BY DEF Disposal
  <2>1. \A i \in S : ~earlier(i, i)
    BY <1>1
  <2>2. \A i, j, k \in S : earlier(i, j) /\ earlier(j, k) => earlier(i, k)
    BY <1>1, <2>0
  <2>3. \A i, j \in S : i # j => earlier(i, j) \/ earlier(j, i)
    BY <1>1, <2>0
  <2> HIDE DEF S, R, earlier
  <2>4. QED
    BY <1>3, <2>1, <2>2, <2>3 DEF StrictOrder
<1>6. ImportOrder(file) = [i \in DOMAIN file |-> file[order[i]]]
  BY DEF ImportOrder
<1> HIDE DEF S, R, n, order
<1>7. order \in [1..n -> S]
  BY <1>2, <1>4, LineIs DEF order
<1>8. \A i \in 1..n : order[i] \in S /\ file[order[i]] \in Rows
  BY <1>1, <1>7
<1>9. ImportOrder(file) = [i \in 1..n |-> file[order[i]]]
  BY <1>1, <1>6 DEF S
<1>10. QED
  BY <1>1, <1>8, <1>9 DEF n

-----------------------------------------------------------------------------
(* Whatever is written to the log are rows.                                 *)

\* Every way of writing the log writes rows.
LEMMA LedgerStep ==
  ASSUME TypeOK, [Next]_vars
  PROVE  TypeOK'
<1>1. log \in Seq(Rows) /\ use \in Uses
  BY DEF TypeOK
<1>2. /\ use.rows \subseteq Rows /\ \A f \in use.files : File(f)
      /\ \A ev \in use.events : ev.day \in Nat /\ ev.ratio \in Nat \ {0}
  BY <1>1, LedgerAssumption
<1>3. ASSUME NEW r \in use.rows, Create(r) PROVE TypeOK'
  <2>1. r \in Rows /\ log' = Append(log, r) /\ use' = use
    BY <1>2, <1>3 DEF Create
  <2>2. QED
    BY <1>1, <2>1 DEF TypeOK
<1>4. ASSUME NEW ev \in use.events, RecordSplit(ev) PROVE TypeOK'
  <2>1. SplitRow(ev) \in Rows
    <3>1. ev.ratio \in Int /\ ev.day * PerDay + 1 \in Int
      BY <1>2, WindowAssumption
    <3>2. QED
      BY <3>1 DEF SplitRow, Rows, Kinds
  <2>2. log' = Append(log, SplitRow(ev)) /\ use' = use
    BY <1>4 DEF RecordSplit
  <2>3. QED
    BY <1>1, <2>1, <2>2 DEF TypeOK
<1>5. ASSUME NEW f \in use.files, Import(f) PROVE TypeOK'
  <2> DEFINE file == ImportOrder(Mapped(f))
             kept == Reconcile(file)
  <2>1. file \in Seq(Rows)
    BY <1>2, MappedIs, ImportOrderIs
  <2>2. log' = log \o Chosen(file, kept) /\ use' = use
    BY <1>5 DEF Import, Pick
  <2> HIDE DEF file, kept
  <2>3. Chosen(file, kept) \in Seq(Rows)
    BY <2>1, ChosenIs
  <2>4. QED
    BY <1>1, <2>2, <2>3 DEF TypeOK
<1>6. ASSUME NEW i \in DOMAIN log, Delete(i) PROVE TypeOK'
  <2>1. log' = SubSeq(log, 1, i - 1) \o SubSeq(log, i + 1, Len(log)) /\ use' = use
    BY <1>6 DEF Delete, RemoveAt
  <2>2. SubSeq(log, 1, i - 1) \in Seq(Rows) /\ SubSeq(log, i + 1, Len(log)) \in Seq(Rows)
    <3>1. i \in 1..Len(log) /\ Len(log) \in Nat /\ \A j \in 1..Len(log) : log[j] \in Rows
      BY <1>1
    <3>2. \A j \in 1..(i - 1) : log[j] \in Rows
      BY <3>1
    <3>3. \A j \in (i + 1)..Len(log) : log[j] \in Rows
      BY <3>1
    <3>4. i - 1 \in Nat /\ i + 1 \in Nat
      BY <3>1
    <3>5. QED
      BY <1>1, <3>1, <3>2, <3>3, <3>4
  <2>3. QED
    BY <1>1, <2>1, <2>2 DEF TypeOK
<1>7. CASE UNCHANGED vars
  BY <1>1, <1>7 DEF vars, TypeOK
<1>8. QED
  BY <1>3, <1>4, <1>5, <1>6, <1>7 DEF Next

\* The log holds rows, whatever forms, buttons, files and deletions write it.
THEOREM LedgerType == Spec => []TypeOK
<1>1. Init => TypeOK
  BY DEF Init, TypeOK
<1>2. TypeOK /\ [Next]_vars => TypeOK'
  BY LedgerStep
<1>3. QED
  BY <1>1, <1>2, PTL DEF Spec

\* portfolio.rs:180-181: in every state of the log the two engines agree.
THEOREM LedgerEnginesAgree == Spec => []EnginesAgree
<1>1. TypeOK => EnginesAgree
  <2> HAVE TypeOK
  <2>1. EnginesAgreeOn(log)
    BY EnginesAlwaysAgree DEF TypeOK
  <2>2. QED
    BY <2>1 DEF EnginesAgreeOn, EnginesAgree
<1>2. QED
  BY <1>1, LedgerType, PTL

-----------------------------------------------------------------------------
(* Within a purchase the adjusted lots come first.                          *)

\* The order of the lots of one purchase, whole or only of those with shares.
InFront(lots) ==
  \A i, j \in 1..Len(lots) :
     i < j /\ lots[i].buy = lots[j].buy /\ lots[i].rep = 0 => lots[j].rep = 0
Ahead(lots) ==
  \A i, j \in 1..Len(lots) :
     i < j /\ lots[i].qty > 0 /\ lots[j].qty > 0 /\ lots[i].buy = lots[j].buy /\ lots[i].rep = 0
     => lots[j].rep = 0
OfThose(lots, done) == \A i \in 1..Len(lots) : lots[i].buy \in done

\* Dropping empty lots keeps the order of the others.
LEMMA FilledInFront ==
  ASSUME NEW s \in Seq(TaxLot)
  PROVE  /\ Ahead(s) => InFront(Filled(s))
         /\ \A done : OfThose(s, done) => OfThose(Filled(s), done)
<1> DEFINE S == {i \in DOMAIN s : s[i].qty > 0}
           c == Chosen(s, S)
<1>1. Filled(s) = c
  BY DEF Filled
<1>2. \A i \in S : i \in 1..Len(s) /\ s[i].qty > 0
  OBVIOUS
<1> HIDE DEF S
<1>3. PICK at \in [1..Len(c) -> 1..Len(s)] :
         /\ \A j \in 1..Len(c) : at[j] \in S /\ c[j] = s[at[j]]
         /\ \A j, l \in 1..Len(c) : j < l => at[j] < at[l]
  BY ChosenFrom
<1> HIDE DEF c
<1>4. \A j \in 1..Len(c) : at[j] \in 1..Len(s) /\ s[at[j]].qty > 0 /\ c[j] = s[at[j]]
  BY <1>2, <1>3
<1>5. ASSUME Ahead(s), NEW j \in 1..Len(c), NEW l \in 1..Len(c), j < l, c[j].buy = c[l].buy, c[j].rep = 0
      PROVE  c[l].rep = 0
  <2>1. at[j] < at[l]
    BY <1>3, <1>5
  <2>2. /\ at[j] \in 1..Len(s) /\ at[l] \in 1..Len(s)
        /\ s[at[j]].qty > 0 /\ s[at[l]].qty > 0 /\ c[j] = s[at[j]] /\ c[l] = s[at[l]]
    BY <1>4
  <2>3. QED
    BY <1>5, <2>1, <2>2 DEF Ahead
<1>6. Ahead(s) => InFront(c)
  BY <1>5 DEF InFront
<1>7. \A done : OfThose(s, done) => OfThose(c, done)
  BY <1>4 DEF OfThose
<1>8. QED
  BY <1>1, <1>6, <1>7

\* Lots of other sizes.
LEMMA ResizedInFront ==
  ASSUME NEW s \in Seq(TaxLot), NEW q \in [1..Len(s) -> Nat]
  PROVE  /\ InFront(s) => InFront(Filled(WithQty(s, q)))
         /\ \A done : OfThose(s, done) => OfThose(Filled(WithQty(s, q)), done)
<1> DEFINE v == WithQty(s, q)
           k == Len(s)
<1>1. v \in Seq(TaxLot) /\ Len(v) = k /\ \A i \in 1..k : v[i] = [s[i] EXCEPT !.qty = q[i]]
  BY LotTypes, WithQtyIs
<1>2. \A i \in 1..k : s[i] \in TaxLot
  OBVIOUS
<1> HIDE DEF v, k
<1>3. \A i \in 1..k : v[i].buy = s[i].buy /\ v[i].rep = s[i].rep
  BY <1>1, <1>2 DEF TaxLot
<1>4. InFront(s) => Ahead(v)
  BY <1>1, <1>3 DEF InFront, Ahead, k
<1>5. \A done : OfThose(s, done) => OfThose(v, done)
  BY <1>1, <1>3 DEF OfThose, k
<1>6. QED
  BY <1>1, <1>4, <1>5, FilledInFront DEF v

\* A sale.
LEMMA SoldInFront ==
  ASSUME NEW s \in Seq(TaxLot), NEW n \in Nat
  PROVE  /\ InFront(s) => InFront(Rest(s, n))
         /\ \A done : OfThose(s, done) => OfThose(Rest(s, n), done) /\ OfThose(Taken(s, n), done)
<1> DEFINE t == InOrder(s, n)
           q == [i \in DOMAIN s |-> s[i].qty - t[i]]
           k == Len(s)
<1>1. k \in Nat /\ DOMAIN s = 1..k /\ \A i \in 1..k : s[i].qty \in Nat
  <2>1. \A i \in 1..Len(s) : s[i] \in TaxLot
    OBVIOUS
  <2>2. QED
    BY <2>1, LotFields
<1>2. t \in [1..k -> Nat]
  BY LotTypes, InOrderIs DEF Stock
<1>3. \A i \in 1..k : t[i] <= s[i].qty
  BY LotTypes, InOrderSums
<1> HIDE DEF t
<1>4. q \in [1..k -> Nat]
  BY <1>1, <1>2, <1>3
<1> HIDE DEF q
<1>5. Taken(s, n) = Filled(WithQty(s, t)) /\ Rest(s, n) = Filled(WithQty(s, q))
  BY DEF Taken, Rest, t, q
<1>6. QED
  BY <1>2, <1>4, <1>5, ResizedInFront

\* A replacement among the held lots.
LEMMA AdjustInFront ==
  ASSUME NEW lots \in Seq(TaxLot), NEW b, NEW q \in Nat, NEW add \in Int, NEW anchor \in Int
  PROVE  /\ InFront(lots) => InFront(AdjustHeld(lots, b, q, add, anchor))
         /\ \A done : OfThose(lots, done) => OfThose(AdjustHeld(lots, b, q, add, anchor), done)
<1> DEFINE k == Len(lots)
<1>1. k \in Nat /\ \A i \in 1..k : lots[i] \in TaxLot
  OBVIOUS
<1> DEFINE p == HeldParts(lots, b, q, add, anchor)
           n == Designated(lots, b, q)
           o == OfBuy(lots, b)
<1>2. /\ n \in [1..k -> Nat] /\ n \in Seq(Int) /\ Len(n) = k
      /\ \A i \in 1..k : n[i] <= lots[i].qty /\ (lots[i].buy # b => n[i] = 0)
      /\ o \in Seq(Int) /\ Len(o) = k
      /\ \A i \in 0..k : Sums(n)[i] = IF Sums(o)[i] <= q THEN Sums(o)[i] ELSE q
  <2>1. n \in [1..k -> Nat] /\ n \in Seq(Int) /\ Len(n) = k
    BY DesignatedIs
  <2>2. \A i \in 1..k : n[i] <= lots[i].qty /\ (lots[i].buy # b => n[i] = 0)
    BY DesignatedIs
  <2>3. o \in Seq(Int) /\ Len(o) = k
    BY DesignatedIs
  <2>4. \A i \in 0..k : Sums(n)[i] = IF Sums(o)[i] <= q THEN Sums(o)[i] ELSE q
    BY DesignatedIs
  <2>5. QED
    BY <2>1, <2>2, <2>3, <2>4
<1>3. \A i \in 1..k : o[i] = (IF lots[i].buy = b THEN lots[i].qty ELSE 0) /\ o[i] \in Nat
  BY OfBuyIs
<1>4. /\ p \in Seq(TaxLot) /\ Len(p) = 2 * k
      /\ \A i \in 1..k :
            /\ p[2 * i - 1] = Raised(lots[i], n[i], add, anchor)
            /\ p[2 * i] = Remainder(lots[i], n[i])
      /\ \A j \in 1..(2 * k) : \E i \in 1..k : j = 2 * i - 1 \/ j = 2 * i
      /\ AdjustHeld(lots, b, q, add, anchor) = Filled(p)
  <2>1. p \in Seq(TaxLot) /\ Len(p) = 2 * k
    BY HeldPartsAre
  <2>2. \A i \in 1..k :
            /\ p[2 * i - 1] = Raised(lots[i], n[i], add, anchor)
            /\ p[2 * i] = Remainder(lots[i], n[i])
    BY HeldPartsAre
  <2>3. \A j \in 1..(2 * k) : \E i \in 1..k : j = 2 * i - 1 \/ j = 2 * i
    BY HeldPartsAre
  <2>4. AdjustHeld(lots, b, q, add, anchor) = Filled(p)
    BY DEF HeldParts, AdjustHeld
  <2>5. QED
    BY <2>1, <2>2, <2>3, <2>4
<1> HIDE DEF p, n, o, k
<1> DEFINE f == [i \in 1..k |-> p[2 * i - 1]]
           g == [i \in 1..k |-> p[2 * i]]
<1>f. \A x \in 1..(2 * k) : \E i \in 1..k : (x = 2 * i - 1 /\ p[x] = f[i]) \/ (x = 2 * i /\ p[x] = g[i])
  BY <1>4
<1>g. \A i \in 1..k : f[i] = p[2 * i - 1] /\ g[i] = p[2 * i]
  OBVIOUS
<1> HIDE DEF f, g
<1>5. \A i \in 1..k : /\ f[i].buy = lots[i].buy /\ f[i].qty = n[i]
                      /\ f[i].rep = lots[i].rep + 1 /\ lots[i].rep \in Nat
                      /\ g[i].buy = lots[i].buy /\ g[i].qty = lots[i].qty - n[i]
                      /\ g[i].rep = lots[i].rep /\ lots[i].qty \in Nat /\ n[i] \in Nat
  <2> TAKE i \in 1..k
  <2>1. lots[i] \in TaxLot /\ n[i] \in Nat
    BY <1>1, <1>2
  <2>2. lots[i].rep \in Nat /\ lots[i].qty \in Nat
    BY <2>1, LotFields
  <2> DEFINE x == lots[i]
             u == x.unit + add
             r == x.rep + 1
             d == x.qty - n[i]
  <2>3. f[i] = [x EXCEPT !.qty = n[i], !.unit = u, !.from = anchor, !.rep = r]
    BY <1>4, <1>g DEF Raised
  <2>4. g[i] = [x EXCEPT !.qty = d]
    BY <1>4, <1>g DEF Remainder
  <2>5. x \in TaxLot
    BY <2>1
  <2> HIDE DEF x, u, r, d
  <2>6. /\ f[i].buy = x.buy /\ f[i].qty = n[i] /\ f[i].rep = r
    BY <2>3, <2>5 DEF TaxLot
  <2>7. g[i].buy = x.buy /\ g[i].qty = d /\ g[i].rep = x.rep
    BY <2>4, <2>5 DEF TaxLot
  <2>8. QED
    BY <2>1, <2>2, <2>6, <2>7 DEF x, r, d
\* When some of an earlier lot stays as it was, nothing of a later one is designated.
<1>6. ASSUME NEW i \in 1..k, NEW j \in 1..k, i < j, lots[i].buy = b, n[i] < lots[i].qty
      PROVE  n[j] = 0
  <2>1. i - 1 \in 0..k /\ i \in 0..k /\ j - 1 \in 0..k /\ j \in 0..k /\ i \in 0..(j - 1)
    BY <1>1, <1>6
  <2>2. /\ Sums(n)[i] = Sums(n)[i - 1] + n[i] /\ Sums(n)[j] = Sums(n)[j - 1] + n[j]
        /\ Sums(n)[i - 1] \in Int /\ Sums(n)[i] \in Int /\ Sums(n)[j - 1] \in Int /\ Sums(n)[j] \in Int
        /\ n[i] \in Int /\ n[j] \in Int
    BY <1>2, SumsAre
  <2>3. Sums(o)[i] = Sums(o)[i - 1] + o[i] /\ Sums(o)[i - 1] \in Int /\ Sums(o)[i] \in Int /\ o[i] \in Int
    BY <1>2, SumsAre
  <2>4. o[i] = lots[i].qty
    BY <1>3, <1>6
  <2>5. \A x \in 0..k : Sums(o)[x] \in Int
    BY <1>2, SumsAre
  <2>6. Sums(n)[i] = q
    <3>1. Sums(n)[i] = IF Sums(o)[i] <= q THEN Sums(o)[i] ELSE q
      BY <1>2, <2>1
    <3>2. Sums(n)[i - 1] = IF Sums(o)[i - 1] <= q THEN Sums(o)[i - 1] ELSE q
      BY <1>2, <2>1
    <3>3. o[i] > n[i]
      BY <1>6, <2>2, <2>3, <2>4
    <3>4. QED
      BY <2>2, <2>3, <3>1, <3>2, <3>3
  <2>7. Sums(n)[j] <= q
    <3>1. Sums(n)[j] = IF Sums(o)[j] <= q THEN Sums(o)[j] ELSE q
      BY <1>2, <2>1
    <3>2. Sums(o)[j] \in Int
      BY <2>1, <2>5
    <3>3. QED
      BY <3>1, <3>2
  <2>8. Sums(n)[i] <= Sums(n)[j - 1]
    <3>a. n \in [1..k -> Nat] /\ Len(n) = k
      BY <1>2
    <3>1. \A x \in 1..Len(n) : n[x] >= 0
      BY <3>a
    <3>2. j - 1 \in 0..Len(n)
      BY <1>2, <2>1
    <3>3. QED
      BY <1>2, <2>1, <3>1, <3>2, SumsGrow
  <2>9. n[j] \in Nat
    BY <1>2
  <2>10. QED
    BY <2>2, <2>6, <2>7, <2>8, <2>9
<1>7. ASSUME InFront(lots), NEW x \in 1..(2 * k), NEW y \in 1..(2 * k), x < y, p[x].qty > 0, p[y].qty > 0,
             p[x].buy = p[y].buy, p[x].rep = 0
      PROVE  p[y].rep = 0
  <2>1. PICK i \in 1..k : (x = 2 * i - 1 /\ p[x] = f[i]) \/ (x = 2 * i /\ p[x] = g[i])
    BY <1>f
  <2>2. PICK j \in 1..k : (y = 2 * j - 1 /\ p[y] = f[j]) \/ (y = 2 * j /\ p[y] = g[j])
    BY <1>f
  <2>3. x = 2 * i /\ p[x] = g[i]
    <3>1. f[i].rep # 0
      BY <1>5
    <3>2. QED
      BY <1>7, <2>1, <3>1
  <2>4. i < j
    BY <1>1, <1>7, <2>2, <2>3
  <2>5. lots[i].rep = 0 /\ lots[i].buy = p[y].buy /\ n[i] < lots[i].qty
    <3>1. /\ g[i].buy = lots[i].buy /\ g[i].qty = lots[i].qty - n[i] /\ g[i].rep = lots[i].rep
          /\ lots[i].qty \in Nat /\ n[i] \in Nat
      BY <1>5
    <3>2. QED
      BY <1>7, <2>3, <3>1
  <2>6. p[y].buy = lots[j].buy
    BY <1>5, <2>2
  <2>7. lots[j].rep = 0
    BY <1>7, <2>4, <2>5, <2>6 DEF InFront, k
  <2>8. CASE p[y] = g[j]
    BY <1>5, <2>7, <2>8
  <2>9. CASE p[y] = f[j]
    <3>1. n[j] > 0
      BY <1>5, <1>7, <2>9
    <3>2. lots[j].buy = b
      BY <1>2, <3>1
    <3>3. n[j] = 0
      BY <1>6, <2>4, <2>5, <2>6, <3>2
    <3>4. QED
      BY <3>1, <3>3
  <2>10. QED
    BY <2>2, <2>8, <2>9
<1>8. InFront(lots) => Ahead(p)
  BY <1>4, <1>7 DEF Ahead
<1>9. \A done : OfThose(lots, done) => OfThose(p, done)
  <2> TAKE done
  <2> HAVE OfThose(lots, done)
  <2>1. ASSUME NEW x \in 1..(2 * k) PROVE p[x].buy \in done
    <3>1. PICK i \in 1..k : p[x] = f[i] \/ p[x] = g[i]
      BY <1>f
    <3>2. p[x].buy = lots[i].buy
      BY <1>5, <3>1
    <3>3. QED
      BY <3>2 DEF OfThose, k
  <2>2. QED
    BY <1>4, <2>1 DEF OfThose
<1>10. QED
  BY <1>4, <1>8, <1>9, FilledInFront

\* A split.
LEMMA SplitInFront ==
  ASSUME NEW lots \in Seq(TaxLot), NEW r \in Nat \ {0}
  PROVE  /\ InFront(lots) => InFront(Multiplied(lots, r))
         /\ \A done : OfThose(lots, done) => OfThose(Multiplied(lots, r), done)
<1> DEFINE v == Multiplied(lots, r)
           k == Len(lots)
<1>1. v \in Seq(TaxLot) /\ Scaled(lots, v, r) /\ \A i \in 1..k : v[i] = MultipliedLot(lots[i], r)
  BY SplitIs
<1>2. Len(v) = k /\ \A i \in 1..k : v[i].buy = lots[i].buy
  BY <1>1 DEF Scaled
<1>a. \A i \in 1..k : lots[i] \in TaxLot
  OBVIOUS
<1> HIDE DEF v, k
<1>3. \A i \in 1..k : v[i].rep = lots[i].rep
  <2> TAKE i \in 1..k
  <2> DEFINE x == lots[i]
             q == x.qty * r
             u == x.unit \div r
  <2>1. v[i] = [x EXCEPT !.qty = q, !.unit = u] /\ x \in TaxLot
    BY <1>1, <1>a DEF MultipliedLot
  <2> HIDE DEF x, q, u
  <2>2. v[i].rep = x.rep
    BY <2>1 DEF TaxLot
  <2>3. QED
    BY <2>2 DEF x
<1> HIDE DEF v, k
<1>4. QED
  BY <1>2, <1>3 DEF InFront, OfThose, v, k

\* A purchase that holds no lots yet.
LEMMA BoughtInFront ==
  ASSUME NEW rows \in Seq(Rows), NEW id \in Buys(rows), rows[id].qty > 0, NEW t \in TaxBook(rows),
         NEW done, OfThose(t.lots, done), id \notin done, InFront(t.lots)
  PROVE  /\ InFront(Filled(t.lots \o Arrived(rows, t, id)))
         /\ OfThose(Filled(t.lots \o Arrived(rows, t, id)), done \cup {id})
<1> DEFINE s == t.lots
           a == Arrived(rows, t, id)
           k == Len(s)
           m == Len(a)
           v == s \o a
<1>1. /\ s \in Seq(TaxLot) /\ a \in Seq(TaxLot) /\ \A i \in 1..m : a[i].buy = id
  BY ArrivedIs DEF TaxBook
<1>2. \A i, j \in 1..m : i < j /\ a[i].rep = 0 => a[j].rep = 0
  <2>1. PICK early \in Seq(TaxLot), plain \in TaxLot : ArrivedParts(rows, t, id, early, plain)
    BY ArrivedIs
  <2>2. a = Append(early, plain) /\ \A i \in 1..Len(early) : early[i].rep = 1
    BY <2>1 DEF ArrivedParts
  <2> HIDE DEF a
  <2>3. Len(early) \in Nat /\ m = Len(early) + 1
        /\ \A i \in 1..m : a[i] = IF i <= Len(early) THEN early[i] ELSE plain
    BY <2>2
  <2>4. \A i \in 1..m : a[i].rep = 0 => i = m
    BY <2>2, <2>3
  <2>5. QED
    BY <2>3, <2>4
<1> HIDE DEF s, a
<1>3. k \in Nat /\ m \in Nat /\ v \in Seq(TaxLot) /\ Len(v) = k + m
      /\ \A i \in 1..(k + m) : v[i] = IF i <= k THEN s[i] ELSE a[i - k]
  BY <1>1
<1>4. \A i \in 1..k : s[i].buy \in done
  BY DEF OfThose, s
<1> HIDE DEF k, m, v
<1>5. ASSUME NEW i \in 1..Len(v), NEW j \in 1..Len(v), i < j, v[i].buy = v[j].buy, v[i].rep = 0
      PROVE  v[j].rep = 0
  <2>1. i \in 1..(k + m) /\ j \in 1..(k + m)
    BY <1>3
  <2>2. CASE j <= k
    <3>1. v[i] = s[i] /\ v[j] = s[j] /\ i \in 1..k /\ j \in 1..k
      BY <1>3, <1>5, <2>1, <2>2
    <3>2. QED
      BY <1>5, <3>1 DEF InFront, s, k
  <2>3. CASE i <= k /\ ~(j <= k)
    <3>1. v[i] = s[i] /\ v[j] = a[j - k] /\ i \in 1..k /\ j - k \in 1..m
      BY <1>3, <2>1, <2>3
    <3>2. v[i].buy \in done /\ v[j].buy = id
      BY <1>1, <1>4, <3>1 DEF m
    <3>3. QED
      BY <1>5, <3>2
  <2>4. CASE ~(i <= k) /\ ~(j <= k)
    <3>1. v[i] = a[i - k] /\ v[j] = a[j - k] /\ i - k \in 1..m /\ j - k \in 1..m /\ i - k < j - k
      BY <1>3, <1>5, <2>1, <2>4
    <3>2. QED
      BY <1>2, <1>5, <3>1
  <2>5. QED
    BY <1>3, <2>1, <2>2, <2>3, <2>4
<1>6. Ahead(v)
  BY <1>5 DEF Ahead
<1>7. OfThose(v, done \cup {id})
  <2>1. ASSUME NEW i \in 1..Len(v) PROVE v[i].buy \in done \cup {id}
    <3>1. i \in 1..(k + m)
      BY <1>3
    <3>2. CASE i <= k
      <4>1. v[i] = s[i] /\ i \in 1..k
        BY <1>3, <3>1, <3>2
      <4>2. QED
        BY <1>4, <4>1
    <3>3. CASE ~(i <= k)
      <4>1. v[i] = a[i - k] /\ i - k \in 1..m
        BY <1>3, <3>1, <3>3
      <4>2. QED
        BY <1>1, <4>1 DEF m
    <3>4. QED
      BY <3>2, <3>3
  <2>2. QED
    BY <2>1 DEF OfThose
<1>8. InFront(Filled(v)) /\ OfThose(Filled(v), done \cup {id})
  BY <1>3, <1>6, <1>7, FilledInFront
<1>9. QED
  BY <1>8 DEF v, s, a

\* The lots come from purchases in done, and in each the adjusted ones come first.
Ordered(lots, done) == InFront(lots) /\ OfThose(lots, done)

\* One replacement keeps the lots in order.
LEMMA DesignateOrdered ==
  ASSUME NEW rows \in Seq(Rows), NEW id \in 1..Len(rows), NEW t \in TaxBook(rows),
         NEW m \in Match(rows), NEW add \in Int, NEW held \in Int, NEW done, Ordered(t.lots, done)
  PROVE  Ordered(Designate(rows, id, t, m, add, held).lots, done)
<1> DEFINE anchor == Day(rows[m.buy].ts) - held
           adj    == [qty |-> m.qty, add |-> add, from |-> anchor]
           caps   == [t.caps EXCEPT ![m.buy] = t.caps[m.buy] - m.qty]
           capped == [t EXCEPT !.caps = caps]
           lots   == AdjustHeld(t.lots, m.buy, m.qty, add, anchor)
           pend   == [t.pending EXCEPT ![m.buy] = Append(t.pending[m.buy], adj)]
           d      == Designate(rows, id, t, m, add, held)
<1>1. m.buy \in Buys(rows) /\ m.buy \in 1..Len(rows) /\ m.qty \in Nat /\ t.lots \in Seq(TaxLot)
  BY DEF Match, Buys, TaxBook
<1>2. anchor \in Int
  <2>1. Day(rows[m.buy].ts) \in Int
    BY <1>1, RowFields, DayType
  <2>2. QED
    BY <2>1
<1>3. d = IF HasLots(rows, m.buy, id) THEN [capped EXCEPT !.lots = lots]
          ELSE [capped EXCEPT !.pending = pend]
  BY DEF Designate, TaxBook
<1> HIDE DEF anchor, adj, caps, pend
<1>4. [capped EXCEPT !.lots = lots].lots = lots /\ [capped EXCEPT !.pending = pend].lots = t.lots
  BY DEF TaxBook
<1>5. Ordered(lots, done)
  BY <1>1, <1>2, AdjustInFront DEF Ordered
<1>6. QED
  BY <1>3, <1>4, <1>5 DEF d

\* So do all of a closed lot's.
LEMMA CloseChunkOrdered ==
  ASSUME NEW rows \in Seq(Rows), NEW id \in 1..Len(rows), NEW t \in TaxBook(rows), NEW c \in TaxLot,
         NEW done, Ordered(t.lots, done)
  PROVE  Ordered(CloseChunk(rows, id, t, c).lots, done)
<1> DEFINE m == Matches(rows, id, t, c)
           n == Len(m)
           out == OutRow(rows, id, t, c)
           add == c.unit - rows[id].price
           held == Day(rows[id].ts) - c.from
<1>1. PICK f : WashTable(f, rows, id, t, c) /\ CloseChunk(rows, id, t, c) = [f[n] EXCEPT !.out = Append(@, out)]
  BY CloseChunkIs
<1>2. n \in Nat /\ \A k \in 1..n : m[k] \in Match(rows) /\ k - 1 \in 0..n
  <2>1. m \in Seq(Match(rows))
    BY MatchesAre
  <2> HIDE DEF m
  <2>2. QED
    BY <2>1
<1>3. add \in Int /\ held \in Int
  <2>1. rows[id].price \in Int /\ Day(rows[id].ts) \in Int /\ c.unit \in Int /\ c.from \in Int
    BY RowFields, DayType, LotFields
  <2>2. QED
    BY <2>1
<1>4. /\ f[0] = t /\ \A k \in 0..n : f[k] \in TaxBook(rows)
      /\ \A k \in 1..n : f[k] = Designate(rows, id, f[k - 1], m[k], add, held)
  BY <1>1 DEF WashTable
<1> DEFINE G == {k \in 0..n : Ordered(f[k].lots, done)}
<1> HIDE DEF m, n, add, held, out
<1>5. 0 \in G
  BY <1>2, <1>4
<1>6. \A k \in 1..n : k - 1 \in G => k \in G
  <2> TAKE k \in 1..n
  <2> HAVE k - 1 \in G
  <2> DEFINE old == f[k - 1]
             x == m[k]
  <2>1. old \in TaxBook(rows) /\ x \in Match(rows) /\ Ordered(old.lots, done) /\ k \in 0..n
        /\ f[k] = Designate(rows, id, old, x, add, held)
    BY <1>2, <1>4
  <2> HIDE DEF old, x
  <2>2. Ordered(f[k].lots, done)
    BY <1>3, <2>1, DesignateOrdered
  <2>3. QED
    BY <2>1, <2>2
<1>7. \A k \in 0..n : k \in G
  <2> HIDE DEF G
  <2>1. QED
    BY <1>2, <1>5, <1>6, UpTo
<1>8. f[n] \in TaxBook(rows) /\ Ordered(f[n].lots, done)
  BY <1>2, <1>4, <1>7
<1>9. [f[n] EXCEPT !.out = Append(@, out)].lots = f[n].lots
  BY <1>8 DEF TaxBook
<1>10. QED
  BY <1>1, <1>8, <1>9 DEF n, m, out

\* And a whole sale.
LEMMA TaxSellOrdered ==
  ASSUME NEW rows \in Seq(Rows), NEW id \in 1..Len(rows), NEW t \in TaxBook(rows),
         rows[id].qty > 0, rows[id].qty <= Shares(t.lots), NEW done, Ordered(t.lots, done)
  PROVE  Ordered(TaxSell(rows, t, id).lots, done)
<1> DEFINE qty == rows[id].qty
           chunks == Taken(t.lots, qty)
           n == Len(chunks)
           left == Rest(t.lots, qty)
<1>1. chunks \in Seq(TaxLot) /\ t.lots \in Seq(TaxLot) /\ qty \in Nat
  <2>1. qty \in Int /\ qty > 0 /\ t.lots \in Seq(TaxLot)
    BY RowFields DEF TaxBook
  <2>2. chunks \in Seq(TaxLot)
    BY TaxSellIs
  <2>3. QED
    BY <2>1, <2>2
<1>2. PICK f : SaleTable(f, rows, id, t) /\ TaxSell(rows, t, id) = f[n]
  BY TaxSellIs
<1>3. /\ f[0].lots = left
      /\ \A k \in 0..n : f[k] \in TaxBook(rows)
      /\ \A k \in 1..n : f[k] = CloseChunk(rows, id, f[k - 1], chunks[k])
  <2>1. /\ f[0] = [t EXCEPT !.lots = left, !.caps = Burn(t.caps, chunks)]
        /\ \A k \in 0..n : f[k] \in TaxBook(rows)
        /\ \A k \in 1..n : f[k] = CloseChunk(rows, id, f[k - 1], chunks[k])
    BY <1>2 DEF SaleTable, TaxBook
  <2> HIDE DEF left, n, chunks
  <2>2. f[0].lots = left
    BY <2>1 DEF TaxBook
  <2>3. QED
    BY <2>1, <2>2
<1>4. Ordered(left, done)
  BY <1>1, SoldInFront DEF Ordered
<1> DEFINE G == {k \in 0..n : Ordered(f[k].lots, done)}
<1>5. n \in Nat /\ \A k \in 1..n : chunks[k] \in TaxLot /\ k - 1 \in 0..n
  BY <1>1
<1> HIDE DEF left, n, chunks
<1>6. 0 \in G
  BY <1>3, <1>4, <1>5
<1>7. \A k \in 1..n : k - 1 \in G => k \in G
  <2> TAKE k \in 1..n
  <2> HAVE k - 1 \in G
  <2>1. f[k - 1] \in TaxBook(rows) /\ chunks[k] \in TaxLot /\ Ordered(f[k - 1].lots, done) /\ k \in 0..n
        /\ f[k] = CloseChunk(rows, id, f[k - 1], chunks[k])
    BY <1>3, <1>5
  <2>2. Ordered(f[k].lots, done)
    BY <2>1, CloseChunkOrdered
  <2>3. QED
    BY <2>1, <2>2
<1>8. \A k \in 0..n : k \in G
  <2> HIDE DEF G
  <2>1. QED
    BY <1>5, <1>6, <1>7, UpTo
<1>9. QED
  BY <1>2, <1>5, <1>8 DEF n, chunks

\* A row, not replayed before, brings its own purchase and no other.
LEMMA RowOrdered ==
  ASSUME NEW rows \in Seq(Rows), NEW id \in 1..Len(rows), NEW t \in TaxBook(rows),
         NEW done, Ordered(t.lots, done), id \notin done
  PROVE  Ordered(ApplyTax(rows, t, id).lots, done \cup {id})
<1> DEFINE tx == rows[id]
           have == Shares(t.lots)
           fault == FaultOf(tx, id, have)
           u == ApplyTax(rows, t, id)
<1>1. tx \in Rows /\ tx.kind \in Kinds /\ tx.qty \in Int /\ t.lots \in Seq(TaxLot)
  BY RowFields DEF TaxBook
<1>2. have \in Nat
  BY <1>1, LotTypes, StockSums
<1>3. u = IF t.fault # NoFault THEN t
          ELSE IF fault # NoFault THEN [t EXCEPT !.fault = fault]
          ELSE CASE tx.kind = "buy"   -> TaxBuy(rows, t, id)
                 [] tx.kind = "sell"  -> TaxSell(rows, t, id)
                 [] tx.kind = "split" -> TaxSplit(rows, t, id)
                 [] OTHER             -> t
  BY DEF ApplyTax
<1> HIDE DEF have
<1>4. fault = NoFault /\ tx.kind \in {"buy", "sell", "split"} => tx.qty > 0
  BY <1>1 DEF FaultOf, Malformed, Trade, NoFault
<1>5. fault = NoFault /\ tx.kind = "sell" => tx.qty <= have
  BY <1>1, <1>2 DEF FaultOf, Malformed, Oversells, Trade, NoFault
<1>6. \A lots : Ordered(lots, done) => Ordered(lots, done \cup {id})
  BY DEF Ordered, OfThose
<1>7. [t EXCEPT !.fault = fault].lots = t.lots
  BY DEF TaxBook
<1> HIDE DEF u, fault
<1>8. CASE u.lots = t.lots
  BY <1>6, <1>8 DEF u
<1>9. CASE u = TaxBuy(rows, t, id) /\ tx.kind = "buy" /\ tx.qty > 0
  <2>1. id \in Buys(rows)
    BY <1>9 DEF Buys
  <2>2. u.lots = Filled(t.lots \o Arrived(rows, t, id))
    BY <1>9, <2>1, TaxBuySame
  <2>3. QED
    BY <1>9, <2>1, <2>2, BoughtInFront DEF u, Ordered
<1>10. CASE u = TaxSell(rows, t, id) /\ tx.qty > 0 /\ tx.qty <= have
  BY <1>6, <1>10, TaxSellOrdered DEF u, have
<1>11. CASE u = TaxSplit(rows, t, id) /\ tx.qty > 0
  <2> DEFINE caps == [b \in DOMAIN t.caps |->
                         IF Before(rows, b, id) THEN t.caps[b] * rows[id].qty ELSE t.caps[b]]
             lots == Multiplied(t.lots, tx.qty)
  <2>1. u = [t EXCEPT !.lots = lots, !.caps = caps]
    BY <1>11 DEF TaxSplit, TaxBook
  <2> HIDE DEF lots, caps
  <2>2. u.lots = lots
    BY <2>1 DEF TaxBook
  <2>3. tx.qty \in Nat \ {0}
    BY <1>1, <1>11
  <2>4. Ordered(lots, done)
    BY <1>1, <2>3, SplitInFront DEF Ordered, lots
  <2>5. QED
    BY <1>6, <2>2, <2>4 DEF u
<1>12. QED
  BY <1>1, <1>3, <1>4, <1>5, <1>7, <1>8, <1>9, <1>10, <1>11 DEF Kinds

\* The rows replayed so far.
Done(rows, k) == {ReplayOrder(rows)[j] : j \in 1..k}

\* The purchases replayed, row by row.
LEMMA DoneIs ==
  ASSUME NEW rows \in Seq(Rows)
  PROVE  /\ Done(rows, 0) = {}
         /\ \A k \in 1..Len(rows) : /\ Done(rows, k) = Done(rows, k - 1) \cup {ReplayOrder(rows)[k]}
                                    /\ ReplayOrder(rows)[k] \notin Done(rows, k - 1)
<1> DEFINE n == Len(rows)
           order == ReplayOrder(rows)
<1>1. n \in Nat /\ Permutes(order, n)
  BY ReplayOrderIs
<1> HIDE DEF n, order
<1>2. \A k \in 1..n : 1..k = 1..(k - 1) \cup {k} /\ k \notin 1..(k - 1) /\ 1..(k - 1) \subseteq 1..n
  BY <1>1
<1>3. \A k, l \in 1..n : order[k] = order[l] => k = l
  BY <1>1 DEF Permutes
<1>4. \A k \in 1..n : {order[j] : j \in 1..k} = {order[j] : j \in 1..(k - 1)} \cup {order[k]}
  BY <1>2
<1>5. \A k \in 1..n : order[k] \notin {order[j] : j \in 1..(k - 1)}
  BY <1>2, <1>3
<1>6. {order[j] : j \in 1..0} = {}
  OBVIOUS
<1>7. QED
  BY <1>4, <1>5, <1>6 DEF Done, n, order

\* After each row the lots are in order, and of rows replayed.
LEMMA BooksOrdered ==
  ASSUME NEW rows \in Seq(Rows)
  PROVE  \A k \in 0..Len(rows) : Ordered(TaxBooks(rows)[k].lots, Done(rows, k))
<1> DEFINE n == Len(rows)
           S == {k \in 0..n : Ordered(TaxBooks(rows)[k].lots, Done(rows, k))}
<1>1. n \in Nat /\ \A k \in 1..n : ReplayOrder(rows)[k] \in 1..Len(rows) /\ k - 1 \in 0..n /\ k \in 0..n
  BY OrderIn
<1>2. BooksAre(rows)
  BY ReplaysAre
<1>3. 0 \in S
  <2>1. TaxBooks(rows)[0].lots = <<>>
    BY <1>2 DEF BooksAre, EmptyTaxBook
  <2> DEFINE none == <<>>
  <2>2. Len(none) = 0
    OBVIOUS
  <2> HIDE DEF none
  <2>3. Ordered(none, Done(rows, 0))
    BY <2>2 DEF Ordered, InFront, OfThose
  <2>4. QED
    BY <1>1, <2>1, <2>3 DEF none
<1>4. \A k \in 1..n : k - 1 \in S => k \in S
  <2> TAKE k \in 1..n
  <2> HAVE k - 1 \in S
  <2> DEFINE t == TaxBooks(rows)[k - 1]
             id == ReplayOrder(rows)[k]
             done == Done(rows, k - 1)
  <2>1. t \in TaxBook(rows) /\ id \in 1..Len(rows) /\ Ordered(t.lots, done)
    BY <1>1, BooksInStep DEF InStep
  <2>2. id \notin done /\ Done(rows, k) = done \cup {id} /\ TaxBooks(rows)[k] = ApplyTax(rows, t, id)
    BY <1>2, DoneIs DEF BooksAre
  <2> HIDE DEF t, id, done
  <2>a. Ordered(ApplyTax(rows, t, id).lots, done \cup {id})
    BY <2>1, <2>2, RowOrdered
  <2>3. Ordered(TaxBooks(rows)[k].lots, Done(rows, k))
    BY <2>2, <2>a
  <2>4. QED
    BY <1>1, <2>3
<1>5. \A k \in 0..n : k \in S
  <2> HIDE DEF S, n
  <2>1. QED
    BY <1>1, <1>3, <1>4, UpTo
<1>6. QED
  BY <1>5

\* taxes.rs:463-469: in every log, and so in every state, the shares of a purchase
\* that carry a deferred loss are sold before its others.
THEOREM LedgerAdjustedFirst == Spec => []AdjustedFirst
<1>1. TypeOK => AdjustedFirst
  <2> HAVE TypeOK
  <2> DEFINE n == Len(log)
             lots == TaxDisposals(log).lots
  <2>1. log \in Seq(Rows)
    BY DEF TypeOK
  <2>2. n \in Nat /\ n \in 0..n
    BY <2>1
  <2>3. TaxDisposals(log) = TaxBooks(log)[n]
    BY DEF TaxDisposals
  <2>4. lots \in Seq(TaxLot) /\ InFront(lots)
    BY <2>1, <2>2, <2>3, BooksInStep, BooksOrdered DEF InStep, TaxBook, Ordered
  <2> HIDE DEF lots
  <2>5. DOMAIN lots = 1..Len(lots)
    BY <2>4
  <2>6. \A i, j \in DOMAIN lots :
            i < j /\ lots[i].buy = lots[j].buy /\ lots[i].rep = 0 => lots[j].rep = 0
    BY <2>4, <2>5 DEF InFront
  <2>7. QED
    BY <2>6 DEF AdjustedFirst, lots
<1>2. QED
  BY <1>1, LedgerType, PTL

-----------------------------------------------------------------------------
(* What is owed to purchases that have not been replayed.                   *)

\* One amount changes, and the total by as much.
LEMMA TotalChange ==
  ASSUME NEW a \in Seq(Int), NEW c \in Seq(Int), Len(c) = Len(a), NEW b \in 1..Len(a),
         \A i \in 1..Len(a) : i # b => c[i] = a[i]
  PROVE  Total(c) = Total(a) + (c[b] - a[b])
<1> DEFINE n == Len(a)
           d == c[b] - a[b]
           S == {k \in 0..n : Sums(c)[k] - Sums(a)[k] = IF b <= k THEN d ELSE 0}
<1>1. n \in Nat /\ b \in 1..n /\ d \in Int
  OBVIOUS
<1>2. /\ Sums(a)[0] = 0 /\ Sums(c)[0] = 0
      /\ \A k \in 1..n : /\ Sums(a)[k] = Sums(a)[k - 1] + a[k] /\ Sums(c)[k] = Sums(c)[k - 1] + c[k]
                         /\ a[k] \in Int /\ c[k] \in Int
                         /\ Sums(a)[k - 1] \in Int /\ Sums(c)[k - 1] \in Int
  BY SumsAre
<1>3. c[b] - a[b] = d /\ \A k \in 1..n : k # b => c[k] = a[k]
  OBVIOUS
<1> HIDE DEF n, d
<1>4. 0 \in S
  BY <1>1, <1>2
<1>5. \A k \in 1..n : k - 1 \in S => k \in S
  <2> TAKE k \in 1..n
  <2> HAVE k - 1 \in S
  <2> DEFINE x == Sums(a)[k - 1]
             y == Sums(c)[k - 1]
  <2>1. y - x = IF b <= k - 1 THEN d ELSE 0
    OBVIOUS
  <2>2. x \in Int /\ y \in Int /\ a[k] \in Int /\ c[k] \in Int
        /\ Sums(a)[k] = x + a[k] /\ Sums(c)[k] = y + c[k] /\ k \in Int /\ b \in Int /\ k \in 0..n
    BY <1>1, <1>2
  <2> HIDE DEF x, y, S
  <2>3. Sums(c)[k] - Sums(a)[k] = (y - x) + (c[k] - a[k])
    BY <2>2
  <2>4. Sums(c)[k] - Sums(a)[k] = IF b <= k THEN d ELSE 0
    <3>1. CASE k = b
      <4>1. c[k] - a[k] = d /\ y - x = 0 /\ b <= k
        BY <1>3, <2>1, <2>2, <3>1
      <4>2. QED
        BY <1>1, <2>3, <4>1
    <3>2. CASE k # b
      <4>1. c[k] = a[k]
        BY <1>3, <3>2
      <4>2. b <= k <=> b <= k - 1
        BY <2>2, <3>2
      <4>3. QED
        BY <2>1, <2>2, <2>3, <4>1, <4>2
    <3>3. QED
      BY <3>1, <3>2
  <2>5. QED
    BY <2>2, <2>4 DEF S
<1>6. \A k \in 0..n : k \in S
  <2> HIDE DEF S
  <2>1. QED
    BY <1>1, <1>4, <1>5, UpTo
<1>7. Sums(c)[n] - Sums(a)[n] = d
  <2>1. n \in 0..n /\ b <= n
    BY <1>1
  <2>2. QED
    BY <1>6, <2>1
<1>8. Sums(c)[n] \in Int /\ Sums(a)[n] \in Int
  <2>1. n \in 0..Len(a) /\ n \in 0..Len(c)
    BY <1>1 DEF n
  <2>2. QED
    BY <2>1, SumsAre
<1>9. Sums(c)[n] = Sums(a)[n] + d
  BY <1>1, <1>7, <1>8
<1>10. QED
  BY <1>9 DEF Total, n, d

\* Zeros add up to zero.
LEMMA TotalZero ==
  ASSUME NEW a \in Seq(Int), \A i \in 1..Len(a) : a[i] = 0
  PROVE  Total(a) = 0
<1> DEFINE n == Len(a)
           S == {k \in 0..n : Sums(a)[k] = 0}
<1>1. n \in Nat
  OBVIOUS
<1>2. Sums(a)[0] = 0 /\ \A k \in 1..n : Sums(a)[k] = Sums(a)[k - 1] + a[k] /\ a[k] = 0
  BY SumsAre
<1> HIDE DEF n
<1>3. 0 \in S /\ \A k \in 1..n : k - 1 \in S => k \in S
  BY <1>1, <1>2
<1>4. \A k \in 0..n : k \in S
  <2> HIDE DEF S
  <2>1. QED
    BY <1>1, <1>3, UpTo
<1>5. QED
  BY <1>1, <1>4 DEF Total, n

\* The losses announced to one purchase.
Debt(p) == Total([i \in DOMAIN p |-> p[i].qty * p[i].add])
AddOf   == [x \in Adjustment |-> x.add]

\* What is owed to one purchase is what its adjustments are worth.
LEMMA DebtIs ==
  /\ Stock(Adjustment) /\ Rates(Adjustment, AddOf)
  /\ \A p \in Seq(Adjustment) : Debt(p) = Worth(Adjustment, AddOf, p) /\ Debt(p) \in Int
  /\ Debt(<<>>) = 0
  /\ \A p \in Seq(Adjustment), x \in Adjustment : Debt(Append(p, x)) = Debt(p) + x.qty * x.add
<1>1. Stock(Adjustment)
  BY LotTypes
<1>2. Rates(Adjustment, AddOf)
  <2>1. AddOf \in [Adjustment -> Int]
    BY LotFields DEF AddOf
  <2>2. \A x \in Adjustment, q \in Nat :
           [x EXCEPT !.qty = q] \in Adjustment /\ [x EXCEPT !.qty = q].add = x.add
    BY DEF Adjustment
  <2>3. QED
    BY <2>1, <2>2 DEF Rates, AddOf
<1>3. \A x \in Adjustment : AddOf[x] = x.add
  BY DEF AddOf
<1>4. ASSUME NEW p \in Seq(Adjustment) PROVE Debt(p) = Worth(Adjustment, AddOf, p)
  <2> DEFINE w == Value(Adjustment, AddOf)
  <2>1. \A x \in Adjustment : w[x] = x.qty * x.add
    BY <1>3 DEF Value
  <2>2. \A i \in DOMAIN p : p[i] \in Adjustment
    OBVIOUS
  <2> HIDE DEF w
  <2>3. [i \in DOMAIN p |-> p[i].qty * p[i].add] = [i \in DOMAIN p |-> w[p[i]]]
    <3>1. \A i \in DOMAIN p : p[i].qty * p[i].add = w[p[i]]
      BY <2>1, <2>2
    <3>2. QED
      BY <3>1
  <2>4. QED
    BY <2>3 DEF Debt, Worth, Weights, w
<1>5. \A p \in Seq(Adjustment) : Debt(p) \in Int
  BY <1>1, <1>2, <1>4, WorthType
<1>6. Debt(<<>>) = 0
  <2> DEFINE none == <<>>
  <2>1. none \in Seq(Adjustment)
    OBVIOUS
  <2>2. Worth(Adjustment, AddOf, none) = 0
    BY <1>1, <1>2, WorthNone
  <2> HIDE DEF none
  <2>3. Debt(none) = 0
    BY <1>4, <2>1, <2>2
  <2>4. QED
    BY <2>3 DEF none
<1>7. ASSUME NEW p \in Seq(Adjustment), NEW x \in Adjustment
      PROVE  Debt(Append(p, x)) = Debt(p) + x.qty * x.add
  <2>1. Append(p, x) \in Seq(Adjustment)
    OBVIOUS
  <2>2. Worth(Adjustment, AddOf, Append(p, x)) = Worth(Adjustment, AddOf, p) + x.qty * AddOf[x]
    BY <1>1, <1>2, WorthAppend
  <2>3. QED
    BY <1>3, <1>4, <2>1, <2>2
<1>8. QED
  BY <1>1, <1>2, <1>4, <1>5, <1>6, <1>7

\* The debts, purchase by purchase.
Debts(rows, pending) ==
  [b \in 1..Len(rows) |-> IF b \in Buys(rows) THEN Debt(pending[b]) ELSE 0]

\* What is owed to the purchases, one by one.
LEMMA DebtsAre ==
  ASSUME NEW rows \in Seq(Rows), NEW pending \in [Buys(rows) -> Seq(Adjustment)]
  PROVE  /\ Debts(rows, pending) \in Seq(Int) /\ Len(Debts(rows, pending)) = Len(rows)
         /\ \A b \in 1..Len(rows) :
               Debts(rows, pending)[b] = IF b \in Buys(rows) THEN Debt(pending[b]) ELSE 0
         /\ Owed(rows, pending) = Total(Debts(rows, pending)) /\ Owed(rows, pending) \in Int
<1> DEFINE d == Debts(rows, pending)
           n == Len(rows)
           e(b) == IF b \in Buys(rows) THEN Debt(pending[b]) ELSE 0
<1>1. n \in Nat /\ DOMAIN rows = 1..n
  OBVIOUS
<1>2. \A b \in 1..n : e(b) \in Int
  BY DebtIs
<1>3. d = [b \in 1..n |-> e(b)]
  BY DEF Debts
<1>4. Owed(rows, pending) = Total(d)
  BY <1>1 DEF Owed, Debts, Debt
<1> HIDE DEF d, e, n
<1>5. d \in Seq(Int) /\ Len(d) = n /\ \A b \in 1..n : d[b] = e(b)
  BY <1>1, <1>2, <1>3
<1>6. Total(d) \in Int
  <2>1. Sums(d)[n] \in Int
    <3>1. n \in 0..Len(d)
      BY <1>1, <1>5
    <3>2. QED
      BY <1>5, <3>1, SumsAre
  <2>2. QED
    BY <1>5, <2>1 DEF Total
<1>7. QED
  BY <1>4, <1>5, <1>6 DEF d, e, n

\* Announcing a loss to a purchase, or its arrival, changes only what it is owed.
LEMMA OwedChange ==
  ASSUME NEW rows \in Seq(Rows), NEW pending \in [Buys(rows) -> Seq(Adjustment)],
         NEW new \in [Buys(rows) -> Seq(Adjustment)], NEW b \in Buys(rows),
         \A i \in Buys(rows) : i # b => new[i] = pending[i]
  PROVE  /\ Debt(new[b]) \in Int /\ Debt(pending[b]) \in Int
         /\ Owed(rows, new) = Owed(rows, pending) + (Debt(new[b]) - Debt(pending[b]))
<1> DEFINE a == Debts(rows, pending)
           c == Debts(rows, new)
<1>1. new[b] \in Seq(Adjustment) /\ pending[b] \in Seq(Adjustment)
  OBVIOUS
<1>2. b \in 1..Len(rows)
  BY DEF Buys
<1>3. /\ a \in Seq(Int) /\ Len(a) = Len(rows) /\ Owed(rows, pending) = Total(a)
      /\ \A i \in 1..Len(rows) : a[i] = IF i \in Buys(rows) THEN Debt(pending[i]) ELSE 0
  BY DebtsAre
<1>4. /\ c \in Seq(Int) /\ Len(c) = Len(rows) /\ Owed(rows, new) = Total(c)
      /\ \A i \in 1..Len(rows) : c[i] = IF i \in Buys(rows) THEN Debt(new[i]) ELSE 0
  BY DebtsAre
<1> HIDE DEF a, c
<1>5. c[b] = Debt(new[b]) /\ a[b] = Debt(pending[b])
  BY <1>2, <1>3, <1>4
<1>6. \A i \in 1..Len(a) : i # b => c[i] = a[i]
  BY <1>3, <1>4
<1>7. Total(c) = Total(a) + (c[b] - a[b])
  <2>1. b \in 1..Len(a) /\ Len(c) = Len(a)
    BY <1>2, <1>3, <1>4
  <2>2. QED
    BY <1>3, <1>4, <1>6, <2>1, TotalChange
<1>8. Debt(new[b]) \in Int /\ Debt(pending[b]) \in Int
  BY <1>1, DebtIs
<1>9. QED
  BY <1>3, <1>4, <1>5, <1>7, <1>8

\* At the start nothing is.
LEMMA OwedNothing ==
  ASSUME NEW rows \in Seq(Rows)
  PROVE  Owed(rows, [b \in Buys(rows) |-> <<>>]) = 0
<1> DEFINE none == <<>>
           pend == [b \in Buys(rows) |-> none]
           a == Debts(rows, pend)
<1>1. none \in Seq(Adjustment) /\ Debt(none) = 0
  BY DebtIs
<1> HIDE DEF none
<1>2. pend \in [Buys(rows) -> Seq(Adjustment)] /\ \A b \in Buys(rows) : pend[b] = none
  BY <1>1
<1> HIDE DEF pend
<1>3. /\ a \in Seq(Int) /\ Len(a) = Len(rows) /\ Owed(rows, pend) = Total(a)
      /\ \A i \in 1..Len(rows) : a[i] = IF i \in Buys(rows) THEN Debt(pend[i]) ELSE 0
  BY <1>2, DebtsAre
<1> HIDE DEF a
<1>4. \A i \in 1..Len(a) : a[i] = 0
  BY <1>1, <1>2, <1>3
<1>5. Owed(rows, pend) = 0
  BY <1>3, <1>4, TotalZero
<1>6. QED
  BY <1>5 DEF pend, none

-----------------------------------------------------------------------------
(* The worth of lots that are paired, raised or counted.                    *)

\* At one value per share, lots are worth their shares.
LEMMA WorthEven ==
  ASSUME NEW T, Stock(T), NEW u, Rates(T, u), NEW p \in Int, \A x \in T : u[x] = p, NEW s \in Seq(T)
  PROVE  Worth(T, u, s) = Shares(s) * p
<1> DEFINE w == Value(T, u)
           b == Weights(w, s)
           a == Qty(s)
           k == Len(s)
<1>1. w \in [T -> Int] /\ \A x \in T : w[x] = x.qty * p
  BY ValueIs
<1> HIDE DEF w
<1>2. b \in Seq(Int) /\ Len(b) = k /\ \A i \in 1..k : b[i] = w[s[i]]
  BY <1>1, WeightsAre
<1>3. /\ a \in Seq(Int) /\ Len(a) = k /\ k \in Nat
      /\ \A i \in 1..k : a[i] = s[i].qty /\ s[i] \in T
  <2>1. \A x \in T : x.qty \in Int
    BY DEF Stock
  <2>2. \A i \in 1..k : s[i] \in T
    OBVIOUS
  <2>3. a \in Seq(Int) /\ Len(a) = k /\ \A i \in 1..k : a[i] = s[i].qty
    BY <2>1, QtyIs
  <2>4. QED
    BY <2>2, <2>3
<1> HIDE DEF a, b, k
<1>4. \A i \in 1..Len(a) : b[i] = a[i] * p
  <2> TAKE i \in 1..Len(a)
  <2>1. i \in 1..k
    BY <1>3
  <2>2. QED
    BY <1>1, <1>2, <1>3, <2>1
<1>5. \A i \in 0..Len(a) : Sums(b)[i] = Sums(a)[i] * p
  <2>1. Len(b) = Len(a)
    BY <1>2, <1>3
  <2>2. QED
    BY <1>2, <1>3, <1>4, <2>1, SumsScale
<1>6. k \in 0..Len(a)
  BY <1>3
<1>7. Total(b) = Total(a) * p
  BY <1>2, <1>3, <1>5, <1>6 DEF Total
<1>8. QED
  BY <1>7 DEF Worth, Shares, a, b, w

\* Shares valued at `add` more each.
Dearer(u, a, v, c, add) ==
  Len(a) = Len(c) /\ \A i \in 1..Len(c) : a[i].qty = c[i].qty /\ u[a[i]] = v[c[i]] + add
WorthMore(T, u, a, U, v, c, add) ==
  /\ Shares(c) \in Nat /\ Worth(U, v, c) \in Int
  /\ Worth(T, u, a) = Worth(U, v, c) + Shares(c) * add

\* A sequence that costs so much more a share than another of the same quantities is
\* worth that much more.
LEMMA WorthApart ==
  ASSUME NEW T, Stock(T), NEW u, Rates(T, u), NEW a \in Seq(T),
         NEW U, Stock(U), NEW v, Rates(U, v), NEW c \in Seq(U), NEW add \in Int,
         Dearer(u, a, v, c, add)
  PROVE  WorthMore(T, u, a, U, v, c, add)
<1> DEFINE wa == Weights(Value(T, u), a)
           wc == Weights(Value(U, v), c)
           q == Qty(c)
           k == Len(c)
           e == [i \in 1..k |-> q[i] * add]
<1>0. Len(a) = k /\ \A i \in 1..k : a[i].qty = c[i].qty /\ u[a[i]] = v[c[i]] + add
  BY DEF Dearer
<1>1. /\ wa \in Seq(Int) /\ Len(wa) = k /\ \A i \in 1..k : wa[i] = a[i].qty * u[a[i]]
  <2> DEFINE w == Value(T, u)
  <2>1. w \in [T -> Int] /\ \A x \in T : w[x] = x.qty * u[x]
    BY ValueIs
  <2> HIDE DEF w
  <2>2. Weights(w, a) \in Seq(Int) /\ Len(Weights(w, a)) = Len(a) /\ \A i \in 1..Len(a) : Weights(w, a)[i] = w[a[i]]
    BY <2>1, WeightsAre
  <2>3. \A i \in 1..Len(a) : a[i] \in T
    OBVIOUS
  <2>4. QED
    BY <1>0, <2>1, <2>2, <2>3 DEF w
<1>2. /\ wc \in Seq(Int) /\ Len(wc) = k /\ \A i \in 1..k : wc[i] = c[i].qty * v[c[i]]
  <2> DEFINE w == Value(U, v)
  <2>1. w \in [U -> Int] /\ \A x \in U : w[x] = x.qty * v[x]
    BY ValueIs
  <2> HIDE DEF w
  <2>2. Weights(w, c) \in Seq(Int) /\ Len(Weights(w, c)) = Len(c) /\ \A i \in 1..Len(c) : Weights(w, c)[i] = w[c[i]]
    BY <2>1, WeightsAre
  <2>3. \A i \in 1..Len(c) : c[i] \in U
    OBVIOUS
  <2>4. QED
    BY <2>1, <2>2, <2>3 DEF w
<1>3. q \in Seq(Int) /\ Len(q) = k /\ k \in Nat /\ \A i \in 1..k : q[i] = c[i].qty /\ q[i] \in Int
  <2>1. \A x \in U : x.qty \in Int
    BY DEF Stock
  <2>2. q \in Seq(Int) /\ Len(q) = k /\ \A i \in 1..k : q[i] = c[i].qty
    BY <2>1, QtyIs
  <2> HIDE DEF q
  <2>3. QED
    BY <2>2
<1>4. \A i \in 1..k : v[c[i]] \in Int /\ u[a[i]] = v[c[i]] + add /\ a[i].qty = q[i]
  <2>1. \A i \in 1..k : c[i] \in U
    OBVIOUS
  <2>2. QED
    BY <1>0, <1>3, <2>1 DEF Rates
<1> HIDE DEF wa, wc, q, k
<1>5. e \in Seq(Int) /\ Len(e) = k /\ \A i \in 1..k : e[i] = q[i] * add
  BY <1>3
<1> HIDE DEF e
<1>6. \A i \in 1..k : wa[i] = wc[i] + e[i]
  <2> TAKE i \in 1..k
  <2> DEFINE x == v[c[i]]
             y == q[i]
  <2>1. x \in Int /\ y \in Int /\ wa[i] = y * (x + add) /\ wc[i] = y * x /\ e[i] = y * add
    BY <1>1, <1>2, <1>3, <1>4, <1>5
  <2> HIDE DEF x, y
  <2>2. y * (x + add) = y * x + y * add
    BY <2>1
  <2>3. QED
    BY <2>1, <2>2
<1>7. \A i \in 0..k : Sums(wa)[i] = Sums(wc)[i] + Sums(e)[i]
  <2>1. Len(e) = Len(wc) /\ Len(wa) = Len(wc) /\ \A i \in 1..Len(wc) : wa[i] = wc[i] + e[i]
    BY <1>1, <1>2, <1>5, <1>6
  <2>2. \A i \in 0..Len(wc) : Sums(wa)[i] = Sums(wc)[i] + Sums(e)[i]
    BY <1>1, <1>2, <1>5, <2>1, SumsAdd
  <2>3. QED
    BY <1>2, <2>2
<1>8. \A i \in 0..k : Sums(e)[i] = Sums(q)[i] * add
  <2>1. Len(e) = Len(q) /\ \A i \in 1..Len(q) : e[i] = q[i] * add
    BY <1>3, <1>5
  <2>2. \A i \in 0..Len(q) : Sums(e)[i] = Sums(q)[i] * add
    BY <1>3, <1>5, <2>1, SumsScale
  <2>3. QED
    BY <1>3, <2>2
<1>9. k \in 0..k
  BY <1>3
<1>10. Total(wa) = Total(wc) + Total(q) * add
  <2>1. Total(wa) = Sums(wa)[k] /\ Total(wc) = Sums(wc)[k] /\ Total(q) = Sums(q)[k]
    BY <1>1, <1>2, <1>3 DEF Total
  <2>2. Sums(wa)[k] = Sums(wc)[k] + Sums(q)[k] * add
    BY <1>7, <1>8, <1>9
  <2>3. QED
    BY <2>1, <2>2
<1>11. Shares(c) \in Nat /\ Worth(U, v, c) \in Int
  BY StockSums, WorthType
<1>12. QED
  BY <1>10, <1>11 DEF WorthMore, Worth, Shares, wa, wc, q

\* Lots by turns are worth what they are worth apart.
LEMMA WorthPairs ==
  ASSUME NEW T, Stock(T), NEW u, Rates(T, u), NEW a \in Seq(T), NEW b \in Seq(T), Len(b) = Len(a)
  PROVE  InPairs(a, b) \in Seq(T) /\ Worth(T, u, InPairs(a, b)) = Worth(T, u, a) + Worth(T, u, b)
<1> DEFINE w == Value(T, u)
           p == InPairs(a, b)
           wa == Weights(w, a)
           wb == Weights(w, b)
           wp == Weights(w, p)
           k == Len(a)
           S == {i \in 0..k : Sums(wp)[2 * i] = Sums(wa)[i] + Sums(wb)[i]}
<1>0. w \in [T -> Int]
  BY ValueIs
<1> HIDE DEF w
<1>1. /\ p \in Seq(T) /\ Len(p) = 2 * k /\ k \in Nat
      /\ \A i \in 1..k : /\ 2 * i - 1 \in 1..(2 * k) /\ 2 * i \in 1..(2 * k)
                         /\ p[2 * i - 1] = a[i] /\ p[2 * i] = b[i]
  BY InPairsIs
<1> HIDE DEF p
<1>2. wa \in Seq(Int) /\ Len(wa) = k /\ \A i \in 1..k : wa[i] = w[a[i]]
  BY <1>0, WeightsAre
<1>3. wb \in Seq(Int) /\ Len(wb) = k /\ \A i \in 1..k : wb[i] = w[b[i]]
  <2>1. wb \in Seq(Int) /\ Len(wb) = Len(b) /\ \A i \in 1..Len(b) : wb[i] = w[b[i]]
    BY <1>0, WeightsAre
  <2> HIDE DEF wb
  <2>2. QED
    BY <2>1
<1>4. wp \in Seq(Int) /\ Len(wp) = 2 * k /\ \A i \in 1..(2 * k) : wp[i] = w[p[i]]
  <2>0. p \in Seq(T)
    BY <1>1
  <2>1. wp \in Seq(Int) /\ Len(wp) = Len(p) /\ \A i \in 1..Len(p) : wp[i] = w[p[i]]
    BY <1>0, <2>0, WeightsAre
  <2> HIDE DEF wp
  <2>2. QED
    BY <1>1, <2>1
<1> HIDE DEF wa, wb, wp, k
<1>5. Sums(wa)[0] = 0 /\ Sums(wb)[0] = 0 /\ Sums(wp)[0] = 0
  BY <1>2, <1>3, <1>4, SumsAre
<1>6. 0 \in S
  <2>1. 2 * 0 = 0 /\ 0 \in 0..k
    BY <1>1
  <2>2. QED
    BY <1>5, <2>1
<1>7. ASSUME NEW i \in 1..k, i - 1 \in S PROVE i \in S
  <2>1. Sums(wp)[2 * (i - 1)] = Sums(wa)[i - 1] + Sums(wb)[i - 1]
    BY <1>7
  <2> DEFINE x == 2 * i - 1
             y == 2 * i
  <2>2. x \in 1..(2 * k) /\ y \in 1..(2 * k) /\ x - 1 = 2 * (i - 1) /\ y - 1 = x
        /\ wp[x] = wa[i] /\ wp[y] = wb[i]
    <3>1. x - 1 = 2 * (i - 1) /\ y - 1 = x
      BY <1>1
    <3>2. x \in 1..(2 * k) /\ y \in 1..(2 * k) /\ p[x] = a[i] /\ p[y] = b[i]
      BY <1>1
    <3>3. QED
      BY <1>2, <1>3, <1>4, <3>1, <3>2
  <2>3. /\ Sums(wa)[i] = Sums(wa)[i - 1] + wa[i] /\ Sums(wb)[i] = Sums(wb)[i - 1] + wb[i]
        /\ Sums(wa)[i - 1] \in Int /\ Sums(wb)[i - 1] \in Int /\ wa[i] \in Int /\ wb[i] \in Int
    BY <1>2, <1>3, SumsAre
  <2> HIDE DEF x, y
  <2>4. Sums(wp)[x] = Sums(wp)[x - 1] + wp[x] /\ Sums(wp)[y] = Sums(wp)[y - 1] + wp[y]
    BY <1>4, <2>2, SumsAre
  <2>5. Sums(wp)[y] = Sums(wa)[i] + Sums(wb)[i]
    <3>1. Sums(wp)[x - 1] = Sums(wa)[i - 1] + Sums(wb)[i - 1]
      BY <2>1, <2>2
    <3>2. Sums(wp)[y - 1] = Sums(wp)[x]
      BY <2>2
    <3>3. QED
      BY <2>2, <2>3, <2>4, <3>1, <3>2
  <2>6. i \in 0..k
    BY <1>1
  <2>7. QED
    BY <2>5, <2>6 DEF y
<1>8. \A i \in 0..k : i \in S
  <2> HIDE DEF S
  <2>1. QED
    BY <1>1, <1>6, <1>7, UpTo
<1>9. Sums(wp)[2 * k] = Sums(wa)[k] + Sums(wb)[k]
  <2>1. k \in 0..k
    BY <1>1
  <2>2. QED
    BY <1>8, <2>1
<1>10. Total(wp) = Total(wa) + Total(wb)
  BY <1>2, <1>3, <1>4, <1>9 DEF Total
<1>11. QED
  BY <1>1, <1>10 DEF Worth, wp, wa, wb, w, p

\* The shares held of one purchase.
OfRate(b) == [x \in TaxLot |-> IF x.buy = b THEN 1 ELSE 0]

\* The shares of one purchase, counted as worth.
LEMMA HeldIsWorth ==
  ASSUME NEW b
  PROVE  /\ Stock(TaxLot) /\ Rates(TaxLot, OfRate(b))
         /\ \A x \in TaxLot : OfRate(b)[x] = IF x.buy = b THEN 1 ELSE 0
         /\ \A s \in Seq(TaxLot) : HeldOf(s, b) = Worth(TaxLot, OfRate(b), s) /\ HeldOf(s, b) \in Nat
<1> DEFINE u == OfRate(b)
<1>1. Stock(TaxLot) /\ Lots(TaxLot)
  BY LotTypes
<1>2. \A x \in TaxLot : u[x] = IF x.buy = b THEN 1 ELSE 0
  BY DEF OfRate
<1>3. Rates(TaxLot, u)
  <2>1. u \in [TaxLot -> Int]
    BY DEF OfRate
  <2>2. \A x \in TaxLot, q \in Nat : [x EXCEPT !.qty = q] \in TaxLot /\ [x EXCEPT !.qty = q].buy = x.buy
    BY <1>1 DEF Lots, Stock
  <2> HIDE DEF u
  <2>3. ASSUME NEW x \in TaxLot, NEW q \in Nat PROVE u[[x EXCEPT !.qty = q]] = u[x]
    <3> DEFINE y == [x EXCEPT !.qty = q]
    <3>1. y \in TaxLot /\ y.buy = x.buy
      BY <2>2
    <3> HIDE DEF y
    <3>2. u[y] = u[x]
      BY <1>2, <3>1
    <3>3. QED
      BY <3>2 DEF y
  <2>4. QED
    BY <2>1, <2>3 DEF Rates
<1> HIDE DEF u
<1>4. ASSUME NEW s \in Seq(TaxLot) PROVE HeldOf(s, b) = Worth(TaxLot, u, s)
  <2> DEFINE w == Value(TaxLot, u)
             e(x) == IF x.buy = b THEN x.qty ELSE 0
  <2>1. \A x \in TaxLot : w[x] = e(x)
    <3> TAKE x \in TaxLot
    <3>1. w[x] = x.qty * u[x] /\ x.qty \in Nat
      BY <1>1 DEF Value, Stock
    <3>2. QED
      BY <1>2, <3>1
  <2>2. \A i \in DOMAIN s : s[i] \in TaxLot
    OBVIOUS
  <2>3. OfBuy(s, b) = [i \in DOMAIN s |-> e(s[i])]
    BY DEF OfBuy
  <2> HIDE DEF w, e
  <2>4. [i \in DOMAIN s |-> e(s[i])] = [i \in DOMAIN s |-> w[s[i]]]
    BY <2>1, <2>2
  <2>5. QED
    BY <2>3, <2>4 DEF HeldOf, Worth, Weights, w
<1>5. QED
  BY <1>1, <1>2, <1>3, <1>4, OfBuyIs DEF u

\* What a replacement among held lots does to the cost and to what is held.
LEMMA AdjustWorth ==
  ASSUME NEW lots \in Seq(TaxLot), NEW b, NEW q \in Nat, NEW add \in Int, NEW anchor \in Int,
         q <= HeldOf(lots, b)
  PROVE  /\ Cost(AdjustHeld(lots, b, q, add, anchor)) = Cost(lots) + q * add
         /\ \A o : HeldOf(AdjustHeld(lots, b, q, add, anchor), o) = HeldOf(lots, o)
<1> DEFINE n == Designated(lots, b, q)
           k == Len(lots)
           r == [i \in 1..k |-> lots[i].qty - n[i]]
           f == [i \in DOMAIN lots |-> Raised(lots[i], n[i], add, anchor)]
           g == [i \in DOMAIN lots |-> Remainder(lots[i], n[i])]
           c == WithQty(lots, n)
           d == WithQty(lots, r)
           p == InPairs(f, g)
<1>1. k \in Nat /\ DOMAIN lots = 1..k /\ \A i \in 1..k : lots[i] \in TaxLot
  OBVIOUS
<1>2. /\ n \in [1..k -> Nat] /\ n \in Seq(Int) /\ Len(n) = k
      /\ \A i \in 1..k : n[i] <= lots[i].qty
      /\ Sums(n)[k] = IF Sums(OfBuy(lots, b))[k] <= q THEN Sums(OfBuy(lots, b))[k] ELSE q
  <2>1. k \in 0..k
    BY <1>1
  <2>2. QED
    BY <2>1, DesignatedIs
<1>3. Total(n) = q
  <2>1. OfBuy(lots, b) \in Seq(Int) /\ Len(OfBuy(lots, b)) = k /\ HeldOf(lots, b) \in Nat
    BY OfBuyIs
  <2>2. Sums(OfBuy(lots, b))[k] = HeldOf(lots, b)
    BY <2>1 DEF HeldOf, Total
  <2>3. Total(n) = Sums(n)[k]
    BY <1>2 DEF Total
  <2>4. QED
    BY <1>2, <2>1, <2>2, <2>3
<1> HIDE DEF n, k
<1>4. r \in [1..k -> Nat] /\ \A i \in 1..k : r[i] = lots[i].qty - n[i] /\ r[i] + n[i] = lots[i].qty
  <2>1. \A i \in 1..k : lots[i].qty \in Nat
    BY <1>1, LotFields
  <2>2. \A i \in 1..k : n[i] \in Nat /\ n[i] <= lots[i].qty
    BY <1>2
  <2>3. QED
    BY <2>1, <2>2
<1> HIDE DEF r
<1>5. /\ c \in Seq(TaxLot) /\ Len(c) = k
      /\ \A i \in 1..k : c[i] = [lots[i] EXCEPT !.qty = n[i]] /\ c[i].qty = n[i]
  BY <1>2, LotTypes, WithQtyIs DEF k
<1>6. /\ d \in Seq(TaxLot) /\ Len(d) = k
      /\ \A i \in 1..k : d[i] = [lots[i] EXCEPT !.qty = r[i]] /\ d[i].qty = r[i]
  BY <1>4, LotTypes, WithQtyIs DEF k
<1> HIDE DEF c, d
<1>7. g = d
  <2>1. g = [i \in 1..k |-> d[i]]
    <3>1. \A i \in 1..k : Remainder(lots[i], n[i]) = d[i]
      BY <1>4, <1>6 DEF Remainder
    <3>2. QED
      BY <1>1, <3>1
  <2> HIDE DEF g
  <2>2. d = [i \in 1..k |-> d[i]]
    BY <1>6
  <2>3. QED
    BY <2>1, <2>2
<1> HIDE DEF g
<1>8. /\ f \in Seq(TaxLot) /\ Len(f) = k
      /\ \A i \in 1..k : f[i].qty = n[i] /\ f[i].unit = lots[i].unit + add /\ f[i].buy = lots[i].buy
  <2>1. \A i \in 1..k : /\ Raised(lots[i], n[i], add, anchor) \in TaxLot
                        /\ Raised(lots[i], n[i], add, anchor).qty = n[i]
                        /\ Raised(lots[i], n[i], add, anchor).unit = lots[i].unit + add
                        /\ Raised(lots[i], n[i], add, anchor).buy = lots[i].buy
    <3> TAKE i \in 1..k
    <3> DEFINE x == lots[i]
               m == n[i]
               v == x.unit + add
               t == x.rep + 1
    <3>1. x \in TaxLot /\ m \in Nat /\ v \in Int /\ t \in Nat
      BY <1>1, <1>2, LotFields
    <3>2. Raised(lots[i], n[i], add, anchor) = [x EXCEPT !.qty = m, !.unit = v, !.from = anchor, !.rep = t]
      BY DEF Raised
    <3>3. v = lots[i].unit + add /\ x.buy = lots[i].buy /\ m = n[i]
      OBVIOUS
    <3> HIDE DEF x, m, v, t
    <3>4. /\ [x EXCEPT !.qty = m, !.unit = v, !.from = anchor, !.rep = t] \in TaxLot
          /\ [x EXCEPT !.qty = m, !.unit = v, !.from = anchor, !.rep = t].qty = m
          /\ [x EXCEPT !.qty = m, !.unit = v, !.from = anchor, !.rep = t].unit = v
          /\ [x EXCEPT !.qty = m, !.unit = v, !.from = anchor, !.rep = t].buy = x.buy
      BY <3>1 DEF TaxLot
    <3>5. QED
      BY <3>2, <3>3, <3>4
  <2> DEFINE h(i) == Raised(lots[i], n[i], add, anchor)
  <2>2. f = [i \in 1..k |-> h(i)]
    BY <1>1
  <2> HIDE DEF f
  <2>3. \A i \in 1..k : h(i) \in TaxLot
    BY <2>1
  <2> HIDE DEF h
  <2>4. f \in Seq(TaxLot) /\ Len(f) = k /\ \A i \in 1..k : f[i] = h(i)
    BY <1>1, <2>2, <2>3
  <2>5. QED
    BY <2>1, <2>4 DEF h
<1> HIDE DEF f
<1>9. AdjustHeld(lots, b, q, add, anchor) = Filled(p) /\ p \in Seq(TaxLot)
  <2>1. AdjustHeld(lots, b, q, add, anchor) = Filled(p)
    BY DEF AdjustHeld, f, g, p, n
  <2>2. p \in Seq(TaxLot)
    BY <1>6, <1>7, <1>8, LotTypes, InPairsIs
  <2>3. QED
    BY <2>1, <2>2
<1>10. ASSUME NEW u, Rates(TaxLot, u)
       PROVE  /\ Worth(TaxLot, u, AdjustHeld(lots, b, q, add, anchor))
                    = Worth(TaxLot, u, f) + Worth(TaxLot, u, d)
              /\ Worth(TaxLot, u, lots) = Worth(TaxLot, u, c) + Worth(TaxLot, u, d)
  <2>1. Worth(TaxLot, u, Filled(p)) = Worth(TaxLot, u, p)
    <3> HIDE DEF p
    <3>1. QED
      BY <1>9, <1>10, LotTypes, WorthFilled
  <2>2. Worth(TaxLot, u, p) = Worth(TaxLot, u, f) + Worth(TaxLot, u, d)
    <3>1. Len(d) = Len(f) /\ d \in Seq(TaxLot) /\ f \in Seq(TaxLot)
      BY <1>6, <1>8
    <3>2. Worth(TaxLot, u, InPairs(f, d)) = Worth(TaxLot, u, f) + Worth(TaxLot, u, d)
      BY <1>10, <3>1, LotTypes, WorthPairs
    <3>3. QED
      BY <1>7, <3>2
  <2>3. Worth(TaxLot, u, lots) = Worth(TaxLot, u, c) + Worth(TaxLot, u, d)
    <3>1. \A i \in 1..k : /\ c[i].qty + d[i].qty = lots[i].qty
                          /\ u[c[i]] = u[lots[i]] /\ u[d[i]] = u[lots[i]]
      <4> TAKE i \in 1..k
      <4>1. n[i] \in Nat /\ r[i] \in Nat /\ lots[i] \in TaxLot /\ r[i] + n[i] = lots[i].qty
        BY <1>1, <1>2, <1>4
      <4>2. u[c[i]] = u[lots[i]]
        BY <1>5, <1>10, <4>1 DEF Rates
      <4>3. u[d[i]] = u[lots[i]]
        BY <1>6, <1>10, <4>1 DEF Rates
      <4>4. QED
        BY <1>5, <1>6, <4>1, <4>2, <4>3
    <3>2. \A i \in 1..Len(lots) : /\ c[i].qty + d[i].qty = lots[i].qty
                                  /\ u[c[i]] = u[lots[i]] /\ u[d[i]] = u[lots[i]]
      BY <3>1 DEF k
    <3>3. /\ c \in Seq(TaxLot) /\ Len(c) = Len(lots)
          /\ d \in Seq(TaxLot) /\ Len(d) = Len(lots)
      BY <1>5, <1>6 DEF k
    <3> HIDE DEF p, k
    <3>4. Stock(TaxLot) /\ Rates(TaxLot, u)
      BY <1>10, LotTypes
    <3>5. QED
      BY <3>2, <3>3, <3>4, WorthParts
  <2>4. QED
    BY <1>9, <2>1, <2>2, <2>3
<1> DEFINE adj == AdjustHeld(lots, b, q, add, anchor)
<1>11. adj \in Seq(TaxLot)
  BY AdjustHeldSame
<1> HIDE DEF p, adj
<1>12. Cost(adj) = Cost(lots) + q * add
  <2> DEFINE u == UnitOf(TaxLot)
  <2>1. /\ Stock(TaxLot) /\ Rates(TaxLot, u) /\ \A x \in TaxLot : u[x] = x.unit
        /\ \A s \in Seq(TaxLot) : Cost(s) = Worth(TaxLot, u, s)
    BY CostIsWorth
  <2> HIDE DEF u
  <2>2. Worth(TaxLot, u, adj) = Worth(TaxLot, u, f) + Worth(TaxLot, u, d)
        /\ Worth(TaxLot, u, lots) = Worth(TaxLot, u, c) + Worth(TaxLot, u, d)
    BY <1>10, <2>1 DEF adj
  <2>3. Shares(c) \in Nat /\ Worth(TaxLot, u, c) \in Int
        /\ Worth(TaxLot, u, f) = Worth(TaxLot, u, c) + Shares(c) * add
    <3>1. \A i \in 1..Len(c) : f[i].qty = c[i].qty /\ u[f[i]] = u[c[i]] + add
      <4> TAKE i \in 1..Len(c)
      <4>1. i \in 1..k
        BY <1>5
      <4>2. f[i] \in TaxLot /\ c[i] \in TaxLot
        BY <1>5, <1>8, <4>1
      <4>3. c[i].unit = lots[i].unit
        <5>1. lots[i] \in TaxLot /\ n[i] \in Nat
          BY <1>1, <1>2, <4>1
        <5>2. QED
          BY <1>5, <4>1, <5>1 DEF TaxLot
      <4>4. QED
        BY <1>5, <1>8, <2>1, <4>1, <4>2, <4>3
    <3>2. Len(f) = Len(c) /\ f \in Seq(TaxLot) /\ c \in Seq(TaxLot)
      BY <1>5, <1>8
    <3>3. Stock(TaxLot) /\ Rates(TaxLot, u)
      BY <2>1
    <3>4. Dearer(u, f, u, c, add)
      BY <3>1, <3>2 DEF Dearer
    <3>5. WorthMore(TaxLot, u, f, TaxLot, u, c, add)
      BY <3>2, <3>3, <3>4, WorthApart
    <3>6. QED
      BY <3>5 DEF WorthMore
  <2>4. Shares(c) = q
    <3>1. Qty(c) = [i \in 1..k |-> n[i]]
      <4>1. DOMAIN c = 1..k
        BY <1>5
      <4>2. Qty(c) = [i \in 1..k |-> c[i].qty]
        BY <4>1 DEF Qty
      <4>3. QED
        BY <1>5, <4>2
    <3>2. n = [i \in 1..k |-> n[i]]
      BY <1>2
    <3>3. Qty(c) = n
      BY <3>1, <3>2
    <3>4. QED
      BY <1>3, <3>3 DEF Shares
  <2>5. Worth(TaxLot, u, d) \in Int
    BY <1>6, <2>1, WorthType
  <2> DEFINE z == q * add
  <2>6. z \in Int /\ Worth(TaxLot, u, f) = Worth(TaxLot, u, c) + z
    BY <2>3, <2>4
  <2> HIDE DEF z
  <2>7. Worth(TaxLot, u, adj) = Worth(TaxLot, u, lots) + z
    BY <2>2, <2>3, <2>5, <2>6
  <2>8. QED
    BY <1>11, <2>1, <2>7 DEF z
<1>13. ASSUME NEW o PROVE HeldOf(adj, o) = HeldOf(lots, o)
  <2> DEFINE u == OfRate(o)
  <2>1. /\ Stock(TaxLot) /\ Rates(TaxLot, u) /\ \A x \in TaxLot : u[x] = IF x.buy = o THEN 1 ELSE 0
        /\ \A s \in Seq(TaxLot) : HeldOf(s, o) = Worth(TaxLot, u, s)
    BY HeldIsWorth
  <2> HIDE DEF u
  <2>2. Worth(TaxLot, u, adj) = Worth(TaxLot, u, f) + Worth(TaxLot, u, d)
        /\ Worth(TaxLot, u, lots) = Worth(TaxLot, u, c) + Worth(TaxLot, u, d)
    BY <1>10, <2>1 DEF adj
  <2>3. Worth(TaxLot, u, f) = Worth(TaxLot, u, c) + Shares(c) * 0 /\ Worth(TaxLot, u, c) \in Int /\ Shares(c) \in Nat
    <3>1. \A i \in 1..Len(c) : f[i].qty = c[i].qty /\ u[f[i]] = u[c[i]] + 0
      <4> TAKE i \in 1..Len(c)
      <4>1. i \in 1..k
        BY <1>5
      <4>2. f[i] \in TaxLot /\ c[i] \in TaxLot
        BY <1>5, <1>8, <4>1
      <4>3. c[i].buy = lots[i].buy
        <5>1. lots[i] \in TaxLot /\ n[i] \in Nat
          BY <1>1, <1>2, <4>1
        <5>2. QED
          BY <1>5, <4>1, <5>1 DEF TaxLot
      <4>4. u[f[i]] = u[c[i]] /\ u[c[i]] \in Int
        BY <1>8, <2>1, <4>1, <4>2, <4>3
      <4>5. QED
        BY <1>5, <1>8, <4>1, <4>4
    <3>2. Len(f) = Len(c) /\ f \in Seq(TaxLot) /\ c \in Seq(TaxLot)
      BY <1>5, <1>8
    <3>3. Stock(TaxLot) /\ Rates(TaxLot, u) /\ 0 \in Int
      BY <2>1
    <3>4. Dearer(u, f, u, c, 0)
      BY <3>1, <3>2 DEF Dearer
    <3>5. WorthMore(TaxLot, u, f, TaxLot, u, c, 0)
      BY <3>2, <3>3, <3>4, WorthApart
    <3>6. QED
      BY <3>5 DEF WorthMore
  <2>4. Worth(TaxLot, u, f) = Worth(TaxLot, u, c)
    BY <2>3
  <2>5. QED
    BY <1>11, <2>1, <2>2, <2>4
<1>14. QED
  BY <1>12, <1>13 DEF adj

-----------------------------------------------------------------------------
(* No loss is lost: one replacement and the replacements of one lot.        *)

\* A purchase may still be designated for what is held of it or, before it is
\* replayed, for what it has not been promised.
Room(rows, t, done, b) ==
  /\ b \in done => t.caps[b] <= HeldOf(t.lots, b)
  /\ b \notin done /\ rows[b].qty > 0 =>
        t.caps[b] >= 0 /\ Shares(t.pending[b]) + t.caps[b] = rows[b].qty
  /\ b \notin done /\ rows[b].qty <= 0 => t.caps[b] <= 0
Fits(rows, t, done) == \A b \in Buys(rows) : Room(rows, t, done, b)

\* The purchases replayed before a row.
Since(rows, id, done) == \A b \in Buys(rows) : HasLots(rows, b, id) <=> b \in done

\* Losses in the basis of lots or owed, with the price paid for the lots.
Carried(rows, t) == Cost(t.lots) + Owed(rows, t.pending)

\* What is carried is an integer.
LEMMA CarriedType ==
  ASSUME NEW rows \in Seq(Rows), NEW t \in TaxBook(rows)
  PROVE  Cost(t.lots) \in Int /\ Owed(rows, t.pending) \in Int /\ Carried(rows, t) \in Int
<1>1. t.lots \in Seq(TaxLot) /\ t.pending \in [Buys(rows) -> Seq(Adjustment)]
  BY DEF TaxBook
<1>2. Cost(t.lots) \in Int
  BY <1>1, CostType
<1>3. Owed(rows, t.pending) \in Int
  BY <1>1, DebtsAre
<1>4. QED
  BY <1>2, <1>3 DEF Carried

\* One replacement: d is what Designate makes of t.
Designates(rows, t, d, m, add, done) ==
  /\ Fits(rows, d, done)
  /\ Carried(rows, d) = Carried(rows, t) + m.qty * add
  /\ d.out = t.out
  /\ \A b \in Buys(rows) : b # m.buy => d.caps[b] = t.caps[b]

\* taxes.rs:4-11: one replacement carries its loss on, in the basis of a held share or
\* owed to a purchase, and never promises a share that is not there.
LEMMA DesignateCarries ==
  ASSUME NEW rows \in Seq(Rows), NEW id \in 1..Len(rows), NEW t \in TaxBook(rows),
         NEW m \in Match(rows), NEW add \in Int, NEW held \in Int, NEW done,
         Since(rows, id, done), Fits(rows, t, done), m.qty > 0, m.qty <= t.caps[m.buy]
  PROVE  Designates(rows, t, Designate(rows, id, t, m, add, held), m, add, done)
<1> DEFINE x      == m.buy
           q      == m.qty
           anchor == Day(rows[x].ts) - held
           adj    == [qty |-> q, add |-> add, from |-> anchor]
           caps   == [t.caps EXCEPT ![x] = t.caps[x] - q]
           capped == [t EXCEPT !.caps = caps]
           lots   == AdjustHeld(t.lots, x, q, add, anchor)
           p      == Append(t.pending[x], adj)
           pend   == [t.pending EXCEPT ![x] = p]
           d      == Designate(rows, id, t, m, add, held)
<1>1. x \in Buys(rows) /\ x \in 1..Len(rows) /\ q \in Nat /\ q > 0 /\ q <= t.caps[x]
  BY DEF Match, Buys
<1>2. anchor \in Int
  <2>1. Day(rows[x].ts) \in Int
    BY <1>1, RowFields, DayType
  <2>2. QED
    BY <2>1
<1>3. /\ t.lots \in Seq(TaxLot) /\ t.caps \in [Buys(rows) -> Int]
      /\ t.pending \in [Buys(rows) -> Seq(Adjustment)]
  BY DEF TaxBook
<1>4. d = IF HasLots(rows, x, id) THEN [capped EXCEPT !.lots = lots]
          ELSE [capped EXCEPT !.pending = pend]
  BY DEF Designate, TaxBook
<1> HIDE DEF anchor
<1>5. adj \in Adjustment /\ adj.qty = q /\ adj.add = add
  BY <1>1, <1>2 DEF Adjustment
<1> HIDE DEF adj
<1>6. /\ caps[x] = t.caps[x] - q /\ caps[x] \in Int /\ t.caps[x] \in Int
      /\ \A b \in Buys(rows) : b # x => caps[b] = t.caps[b]
      /\ caps \in [Buys(rows) -> Int]
  BY <1>1, <1>3
<1>7. p \in Seq(Adjustment) /\ Shares(p) = Shares(t.pending[x]) + q /\ Shares(t.pending[x]) \in Nat
  <2>1. t.pending[x] \in Seq(Adjustment)
    BY <1>1, <1>3
  <2>2. /\ Append(t.pending[x], adj) \in Seq(Adjustment)
        /\ Shares(Append(t.pending[x], adj)) = Shares(t.pending[x]) + adj.qty
    BY <1>5, <2>1, LotTypes, SharesAppend
  <2>3. Shares(t.pending[x]) \in Nat
    BY <2>1, LotTypes, StockSums
  <2>4. QED
    BY <1>5, <2>2, <2>3
<1>8. /\ pend \in [Buys(rows) -> Seq(Adjustment)] /\ pend[x] = p
      /\ \A b \in Buys(rows) : b # x => pend[b] = t.pending[b]
  BY <1>1, <1>3, <1>7
<1>9. q * add \in Int /\ Cost(t.lots) \in Int /\ Owed(rows, t.pending) \in Int
  <2>1. q * add \in Int
    BY <1>1
  <2>2. QED
    BY <2>1, CarriedType
<1>10. \A b \in Buys(rows) : Room(rows, t, done, b)
  BY DEF Fits
<1>11. x \in done => q <= HeldOf(t.lots, x) /\ HeldOf(t.lots, x) \in Nat
  <2>1. HeldOf(t.lots, x) \in Nat
    BY <1>3, OfBuyIs
  <2>2. QED
    BY <1>1, <1>6, <1>10, <2>1 DEF Room
<1> DEFINE w == q * add
<1>12. x \in done => Cost(lots) = Cost(t.lots) + w /\ \A o : HeldOf(lots, o) = HeldOf(t.lots, o)
  <2> HAVE x \in done
  <2>1. q <= HeldOf(t.lots, x) /\ q \in Nat
    BY <1>1, <1>11
  <2> HIDE DEF q, x
  <2>2. QED
    BY <1>2, <1>3, <2>1, AdjustWorth
<1>13. Owed(rows, pend) = Owed(rows, t.pending) + w
  <2>1. /\ Debt(p) \in Int /\ Debt(t.pending[x]) \in Int
        /\ Owed(rows, pend) = Owed(rows, t.pending) + (Debt(p) - Debt(t.pending[x]))
    <3>1. \A i \in Buys(rows) : i # x => pend[i] = t.pending[i]
      BY <1>8
    <3> DEFINE old == t.pending
    <3>2. x \in Buys(rows) /\ old \in [Buys(rows) -> Seq(Adjustment)]
          /\ pend \in [Buys(rows) -> Seq(Adjustment)] /\ pend[x] = p
      BY <1>1, <1>3, <1>8
    <3> HIDE DEF x, p, old, pend
    <3>3. /\ Debt(pend[x]) \in Int /\ Debt(old[x]) \in Int
          /\ Owed(rows, pend) = Owed(rows, old) + (Debt(pend[x]) - Debt(old[x]))
      BY <3>1, <3>2, OwedChange DEF old
    <3>4. QED
      BY <3>2, <3>3 DEF old
  <2>2. Debt(p) = Debt(t.pending[x]) + w
    <3>1. t.pending[x] \in Seq(Adjustment)
      BY <1>1, <1>3
    <3>2. Debt(Append(t.pending[x], adj)) = Debt(t.pending[x]) + adj.qty * adj.add
      BY <1>5, <3>1, DebtIs
    <3>3. QED
      BY <1>5, <3>2
  <2>3. w \in Int
    BY <1>9
  <2> HIDE DEF w, p, pend
  <2>4. QED
    BY <1>9, <2>1, <2>2, <2>3
<1>14. /\ capped \in TaxBook(rows) /\ capped.caps = caps /\ capped.lots = t.lots
       /\ capped.pending = t.pending /\ capped.out = t.out
  <2> HIDE DEF caps
  <2>1. QED
    BY <1>6 DEF TaxBook
<1> HIDE DEF capped, caps, lots, p, pend, d, w
<1>15. CASE HasLots(rows, x, id)
  <2>1. x \in done
    BY <1>1, <1>15 DEF Since
  <2>2. d = [capped EXCEPT !.lots = lots]
    BY <1>4, <1>15
  <2>3. d.caps = caps /\ d.lots = lots /\ d.pending = t.pending /\ d.out = t.out
    BY <1>14, <2>2 DEF TaxBook
  <2>4. ASSUME NEW b \in Buys(rows) PROVE Room(rows, d, done, b)
    <3>1. Room(rows, t, done, b) /\ HeldOf(lots, b) = HeldOf(t.lots, b)
      BY <1>10, <1>12, <2>1
    <3>2. CASE b # x
      <4>1. d.caps[b] = t.caps[b] /\ HeldOf(d.lots, b) = HeldOf(t.lots, b) /\ d.pending[b] = t.pending[b]
        BY <1>6, <2>3, <3>1, <3>2
      <4>2. QED
        BY <3>1, <4>1 DEF Room
    <3>3. CASE b = x
      <4>1. d.caps[b] = t.caps[x] - q /\ HeldOf(d.lots, b) = HeldOf(t.lots, x)
        BY <1>6, <2>3, <3>1, <3>3
      <4>2. HeldOf(t.lots, x) \in Nat /\ t.caps[x] <= HeldOf(t.lots, x)
        BY <1>11, <2>1, <3>1, <3>3 DEF Room
      <4>3. d.caps[b] <= HeldOf(d.lots, b)
        BY <1>1, <1>6, <4>1, <4>2
      <4>4. QED
        BY <2>1, <3>3, <4>3 DEF Room
    <3>4. QED
      BY <3>2, <3>3
  <2>5. Carried(rows, d) = Carried(rows, t) + w
    <3>1. Cost(d.lots) = Cost(t.lots) + w /\ Owed(rows, d.pending) = Owed(rows, t.pending) /\ w \in Int
      BY <1>9, <1>12, <2>1, <2>3 DEF w
    <3>2. QED
      BY <1>9, <3>1 DEF Carried
  <2>6. QED
    BY <1>6, <2>3, <2>4, <2>5 DEF Designates, Fits, d, w, x, q
<1>16. CASE ~ HasLots(rows, x, id)
  <2>1. x \notin done
    BY <1>1, <1>16 DEF Since
  <2>2. d = [capped EXCEPT !.pending = pend]
    BY <1>4, <1>16
  <2>3. d.caps = caps /\ d.lots = t.lots /\ d.pending = pend /\ d.out = t.out
    BY <1>14, <2>2 DEF TaxBook
  <2>4. ASSUME NEW b \in Buys(rows) PROVE Room(rows, d, done, b)
    <3>1. Room(rows, t, done, b)
      BY <1>10
    <3>2. CASE b # x
      <4>1. d.caps[b] = t.caps[b] /\ d.lots = t.lots /\ d.pending[b] = t.pending[b]
        BY <1>6, <1>8, <2>3, <3>2
      <4>2. QED
        BY <3>1, <4>1 DEF Room
    <3>3. CASE b = x
      <4>1. d.caps[b] = t.caps[x] - q /\ Shares(d.pending[b]) = Shares(t.pending[x]) + q
        BY <1>6, <1>7, <1>8, <2>3, <3>3
      <4>2. rows[x].qty \in Int
        BY <1>1, RowFields
      <4>3. rows[x].qty > 0
        BY <1>1, <1>6, <2>1, <3>1, <3>3, <4>2 DEF Room
      <4>4. t.caps[x] >= 0 /\ Shares(t.pending[x]) + t.caps[x] = rows[x].qty
        BY <2>1, <3>1, <3>3, <4>3 DEF Room
      <4>5. d.caps[b] >= 0 /\ Shares(d.pending[b]) + d.caps[b] = rows[x].qty
        BY <1>1, <1>6, <1>7, <4>1, <4>4
      <4>6. QED
        BY <2>1, <3>3, <4>2, <4>3, <4>5 DEF Room
    <3>4. QED
      BY <3>2, <3>3
  <2>5. Carried(rows, d) = Carried(rows, t) + w
    <3>1. Cost(d.lots) = Cost(t.lots) /\ Owed(rows, d.pending) = Owed(rows, t.pending) + w /\ w \in Int
      BY <1>9, <1>13, <2>3 DEF w
    <3>2. QED
      BY <1>9, <3>1 DEF Carried
  <2>6. QED
    BY <1>6, <2>3, <2>4, <2>5 DEF Designates, Fits, d, w, x, q
<1>17. QED
  BY <1>15, <1>16

\* What the closed lots report.
Gain(d)     == d.proceeds - d.basis + d.disallowed
Gained(out) == Total([i \in DOMAIN out |-> Gain(out[i])])
GainOf      == [d \in Closed |-> Gain(d)]

\* What disposals report, one by one.
LEMMA GainedIs ==
  /\ GainOf \in [Closed -> Int] /\ \A d \in Closed : GainOf[d] = Gain(d) /\ Gain(d) \in Int
  /\ \A out \in Seq(Closed) : Gained(out) = Total(Weights(GainOf, out)) /\ Gained(out) \in Int
  /\ Gained(<<>>) = 0
  /\ \A out \in Seq(Closed), d \in Closed : Gained(Append(out, d)) = Gained(out) + Gain(d)
<1>1. \A d \in Closed : Gain(d) \in Int
  BY DEF Closed, Gain
<1>2. GainOf \in [Closed -> Int] /\ \A d \in Closed : GainOf[d] = Gain(d)
  BY <1>1 DEF GainOf
<1>3. ASSUME NEW out \in Seq(Closed)
      PROVE  Gained(out) = Total(Weights(GainOf, out)) /\ Gained(out) \in Int
  <2>1. \A i \in DOMAIN out : out[i] \in Closed
    OBVIOUS
  <2>2. [i \in DOMAIN out |-> Gain(out[i])] = [i \in DOMAIN out |-> GainOf[out[i]]]
    BY <1>2, <2>1
  <2>3. Gained(out) = Total(Weights(GainOf, out))
    BY <2>2 DEF Gained, Weights
  <2> DEFINE a == Weights(GainOf, out)
  <2>4. a \in Seq(Int)
    BY <1>2, WeightsAre
  <2> HIDE DEF a
  <2>5. Len(a) \in 0..Len(a)
    BY <2>4
  <2>6. Total(a) \in Int
    BY <2>4, <2>5, SumsAre DEF Total
  <2>7. QED
    BY <2>3, <2>6 DEF a
<1>4. Gained(<<>>) = 0
  <2> DEFINE none == <<>>
             a == Weights(GainOf, none)
  <2>1. none \in Seq(Closed) /\ Len(none) = 0
    OBVIOUS
  <2> HIDE DEF none
  <2>2. a \in Seq(Int) /\ Len(a) = 0
    BY <1>2, <2>1, WeightsAre
  <2> HIDE DEF a
  <2>3. Total(a) = 0
    BY <2>2, SumsAre DEF Total
  <2>4. Gained(none) = Total(a)
    BY <1>3, <2>1 DEF a
  <2>5. QED
    BY <2>3, <2>4 DEF none
<1>5. ASSUME NEW out \in Seq(Closed), NEW d \in Closed PROVE Gained(Append(out, d)) = Gained(out) + Gain(d)
  <2> DEFINE w == GainOf
  <2>1. w \in [Closed -> Int] /\ w[d] = Gain(d) /\ w[d] \in Int
    BY <1>1, <1>2
  <2>2. Append(out, d) \in Seq(Closed)
    OBVIOUS
  <2>3. Gained(out) = Total(Weights(w, out)) /\ Gained(Append(out, d)) = Total(Weights(w, Append(out, d)))
    BY <1>3, <2>2
  <2> HIDE DEF w
  <2>4. Weights(w, out) \in Seq(Int) /\ Weights(w, Append(out, d)) = Append(Weights(w, out), w[d])
    BY <2>1, WeightsAre
  <2>5. Total(Append(Weights(w, out), w[d])) = Total(Weights(w, out)) + w[d]
    BY <2>1, <2>4, TotalAppend
  <2>6. QED
    BY <2>1, <2>3, <2>4, <2>5
<1>6. QED
  BY <1>1, <1>2, <1>3, <1>4, <1>5

\* Lots are closed on the days of rows.
OnDays(rows, out) == \A i \in 1..Len(out) : \E j \in 1..Len(rows) : out[i].sold = Day(rows[j].ts)

\* One closed lot: d is what CloseChunk makes of t.
Closes(rows, t, d, gain, done) ==
  /\ Fits(rows, d, done)
  /\ Gained(d.out) - Carried(rows, d) = (Gained(t.out) - Carried(rows, t)) + gain
  /\ OnDays(rows, t.out) => OnDays(rows, d.out)

\* What one closed chunk reports: its gain, and back what is disallowed of its loss.
LEMMA OutRowIs ==
  ASSUME NEW rows \in Seq(Rows), NEW id \in 1..Len(rows), NEW t \in TaxBook(rows), NEW c \in TaxLot
  PROVE  /\ OutRow(rows, id, t, c) \in Closed
         /\ OutRow(rows, id, t, c).sold = Day(rows[id].ts)
         /\ c.qty * (rows[id].price - c.unit) \in Int
         /\ Shares(Matches(rows, id, t, c)) * (c.unit - rows[id].price) \in Int
         /\ Gain(OutRow(rows, id, t, c))
              = c.qty * (rows[id].price - c.unit)
                + Shares(Matches(rows, id, t, c)) * (c.unit - rows[id].price)
<1> DEFINE m == Matches(rows, id, t, c)
           n == Shares(m)
           p == rows[id].price
           u == c.unit
           q == c.qty
           loss == u - p
           washed == n * Max({loss, 0})
           from == c.from
           sold == Day(rows[id].ts)
           out == OutRow(rows, id, t, c)
<1>1. n \in Nat
  BY MatchesAre
<1>2. p \in Int /\ u \in Int /\ q \in Nat /\ from \in Int /\ sold \in Int
  <2>1. rows[id].price \in Int /\ rows[id].ts \in Int
    BY RowFields
  <2>2. QED
    BY <2>1, DayType, LotFields
<1>3. ~(loss > 0) => n = 0
  <2> HAVE ~(loss > 0)
  <2>1. m = <<>>
    BY DEF Matches
  <2> DEFINE none == <<>>
  <2>2. Shares(none) = 0
    BY LotTypes, SharesOfNone
  <2> HIDE DEF none, m
  <2>3. QED
    BY <2>1, <2>2 DEF none
<1>4. out = [qty |-> q, from |-> from, sold |-> sold, proceeds |-> q * p, basis |-> q * u, disallowed |-> washed]
  BY DEF OutRow
<1> HIDE DEF n, p, u, q, from, sold
<1>5. loss \in Int
  BY <1>2
<1> HIDE DEF loss
<1>6. Max({loss, 0}) = IF loss >= 0 THEN loss ELSE 0
  BY <1>5, GreaterAndLess
<1>7. washed = n * loss
  <2>1. CASE loss > 0
    <3>1. Max({loss, 0}) = loss
      BY <1>5, <1>6, <2>1
    <3>2. QED
      BY <3>1
  <2>2. CASE ~(loss > 0)
    <3>1. n = 0 /\ Max({loss, 0}) \in Int
      BY <1>3, <1>5, <1>6, <2>2
    <3> DEFINE x == Max({loss, 0})
    <3>2. x \in Int
      BY <3>1
    <3> HIDE DEF x
    <3>3. n * x = 0 /\ n * loss = 0
      BY <1>5, <3>1, <3>2
    <3>4. QED
      BY <3>3 DEF x
  <2>3. QED
    BY <2>1, <2>2
<1> HIDE DEF washed
<1> DEFINE a == q * p
           b == q * u
           d == n * loss
<1>8. a \in Int /\ b \in Int /\ d \in Int
  BY <1>1, <1>2, <1>5
<1>9. q * (p - u) = a - b /\ q * (p - u) \in Int
  BY <1>2
<1>10. out = [qty |-> q, from |-> from, sold |-> sold, proceeds |-> a, basis |-> b, disallowed |-> d]
  BY <1>4, <1>7
<1> HIDE DEF a, b, d, out
<1>11. out \in Closed /\ out.sold = sold /\ Gain(out) = (a - b) + d
  BY <1>2, <1>8, <1>10 DEF Closed, Gain
<1>12. QED
  BY <1>8, <1>9, <1>11 DEF out, d, loss, n, m, p, u, q, sold

\* What is disallowed of a closed chunk's loss is what its replacements carry on.
LEMMA CloseChunkCarries ==
  ASSUME NEW rows \in Seq(Rows), NEW id \in 1..Len(rows), NEW t \in TaxBook(rows), NEW c \in TaxLot,
         NEW done, Since(rows, id, done), Fits(rows, t, done)
  PROVE  Closes(rows, t, CloseChunk(rows, id, t, c), c.qty * (rows[id].price - c.unit), done)
<1> DEFINE m == Matches(rows, id, t, c)
           n == Len(m)
           out == OutRow(rows, id, t, c)
           add == c.unit - rows[id].price
           held == Day(rows[id].ts) - c.from
           gain == c.qty * (rows[id].price - c.unit)
           d == CloseChunk(rows, id, t, c)
<1>1. PICK f : WashTable(f, rows, id, t, c) /\ d = [f[n] EXCEPT !.out = Append(@, out)]
  BY CloseChunkIs
<1>2. /\ out \in Closed /\ out.sold = Day(rows[id].ts) /\ gain \in Int /\ Shares(m) * add \in Int
      /\ Gain(out) = gain + Shares(m) * add
  BY OutRowIs
<1>3. /\ m \in Seq(Match(rows))
      /\ \A j \in 1..n : m[j].qty > 0 /\ m[j].qty <= t.caps[m[j].buy]
      /\ \A i, j \in 1..n : m[i].buy = m[j].buy => i = j
  BY MatchesAre
<1>4. add \in Int /\ held \in Int
  <2>1. rows[id].price \in Int /\ Day(rows[id].ts) \in Int /\ c.unit \in Int /\ c.from \in Int
    BY RowFields, DayType, LotFields
  <2>2. QED
    BY <2>1
<1>5. /\ f[0] = t /\ \A k \in 0..n : f[k] \in TaxBook(rows)
      /\ \A k \in 1..n : f[k] = Designate(rows, id, f[k - 1], m[k], add, held)
  BY <1>1 DEF WashTable
<1> HIDE DEF m, n, add, held, out, gain, d
<1>6. /\ n \in Nat
      /\ \A k \in 1..n : /\ m[k] \in Match(rows) /\ m[k].buy \in Buys(rows) /\ m[k].qty \in Nat
                         /\ k - 1 \in 0..n /\ k \in 0..n
  <2>1. n \in Nat /\ \A k \in 1..n : m[k] \in Match(rows) /\ k - 1 \in 0..n /\ k \in 0..n
    BY <1>3 DEF n
  <2>2. \A x \in Match(rows) : x.buy \in Buys(rows) /\ x.qty \in Nat
    BY DEF Match
  <2>3. QED
    BY <2>1, <2>2
<1> DEFINE g == Sums(Qty(m))
<1>7. /\ g[0] = 0 /\ Shares(m) = g[n] /\ \A k \in 0..n : g[k] \in Nat
      /\ \A k \in 1..n : g[k] = g[k - 1] + m[k].qty
  <2>1. Stock(Match(rows))
    BY DEF Stock, Match
  <2>2. QED
    BY <1>3, <2>1, StockSums DEF n
<1> HIDE DEF g
<1> DEFINE At(k) == /\ Fits(rows, f[k], done)
                    /\ Carried(rows, f[k]) = Carried(rows, t) + g[k] * add
                    /\ f[k].out = t.out
                    /\ \A j \in 1..n : k < j => f[k].caps[m[j].buy] = t.caps[m[j].buy]
           G == {k \in 0..n : At(k)}
<1>8. Carried(rows, t) \in Int
  BY CarriedType
<1>9. 0 \in G
  <2>1. 0 * add = 0
    BY <1>4
  <2>2. At(0)
    BY <1>5, <1>7, <1>8, <2>1
  <2>3. QED
    BY <1>6, <2>2
<1>10. ASSUME NEW k \in 1..n, k - 1 \in G PROVE k \in G
  <2> DEFINE old == f[k - 1]
             new == f[k]
             x == m[k]
             w == x.qty * add
             v == g[k - 1] * add
  <2>1. At(k - 1)
    BY <1>10
  <2>2. /\ old \in TaxBook(rows) /\ x \in Match(rows) /\ x.buy \in Buys(rows) /\ x.qty \in Nat
        /\ new = Designate(rows, id, old, x, add, held)
        /\ x.qty > 0
    BY <1>3, <1>5, <1>6
  <2>3. k - 1 < k /\ k - 1 \in 0..n /\ k \in 0..n /\ k \in Int
    BY <1>6
  <2>4. x.qty <= old.caps[x.buy]
    BY <1>3, <2>1, <2>3
  <2>5. Fits(rows, old, done)
    BY <2>1
  <2>6. Designates(rows, old, new, x, add, done)
    <3> HIDE DEF old, new, x, At
    <3>1. QED
      BY <1>4, <2>2, <2>4, <2>5, DesignateCarries
  <2>7. /\ Fits(rows, new, done) /\ Carried(rows, new) = Carried(rows, old) + w /\ new.out = old.out
        /\ \A b \in Buys(rows) : b # x.buy => new.caps[b] = old.caps[b]
    BY <2>6 DEF Designates
  <2>8. g[k] * add = v + w /\ v \in Int /\ w \in Int
    <3>1. g[k - 1] \in Nat /\ g[k] = g[k - 1] + x.qty
      BY <1>7, <2>3
    <3> DEFINE y == g[k - 1]
               z == x.qty
    <3>2. y \in Int /\ z \in Int /\ g[k] = y + z
      BY <2>2, <3>1
    <3> HIDE DEF y, z
    <3>3. (y + z) * add = y * add + z * add /\ y * add \in Int /\ z * add \in Int
      BY <1>4, <3>2
    <3>4. QED
      BY <3>2, <3>3 DEF y, z
  <2>9. Carried(rows, new) = Carried(rows, t) + g[k] * add
    <3>1. Carried(rows, old) = Carried(rows, t) + v
      BY <2>1
    <3> HIDE DEF v, w, old, new, At
    <3>2. QED
      BY <1>8, <2>7, <2>8, <3>1
  <2>10. \A j \in 1..n : k < j => new.caps[m[j].buy] = t.caps[m[j].buy]
    <3> TAKE j \in 1..n
    <3> HAVE k < j
    <3>1. k - 1 < j /\ j # k
      BY <1>6, <2>3
    <3>2. old.caps[m[j].buy] = t.caps[m[j].buy]
      BY <2>1, <3>1
    <3>3. m[j].buy # x.buy /\ m[j].buy \in Buys(rows)
      BY <1>3, <1>6, <3>1
    <3>4. QED
      BY <2>7, <3>2, <3>3
  <2>11. new.out = t.out
    BY <2>1, <2>7
  <2>12. At(k)
    BY <2>7, <2>9, <2>10, <2>11
  <2>13. QED
    BY <2>3, <2>12
<1>11. \A k \in 0..n : k \in G
  <2> HIDE DEF G
  <2>1. QED
    BY <1>6, <1>9, <1>10, UpTo
<1>12. /\ Fits(rows, f[n], done) /\ Carried(rows, f[n]) = Carried(rows, t) + Shares(m) * add
       /\ f[n].out = t.out /\ f[n] \in TaxBook(rows)
  <2>1. n \in 0..n
    BY <1>6
  <2>2. At(n)
    BY <1>11, <2>1
  <2>3. QED
    BY <1>5, <1>7, <2>1, <2>2
<1>13. /\ d.lots = f[n].lots /\ d.caps = f[n].caps /\ d.pending = f[n].pending
       /\ d.out = Append(t.out, out) /\ t.out \in Seq(Closed)
  <2> DEFINE z == f[n]
  <2>1. z \in TaxBook(rows) /\ z.out = t.out /\ d = [z EXCEPT !.out = Append(@, out)]
    BY <1>1, <1>12
  <2> HIDE DEF z
  <2>2. d.lots = z.lots /\ d.caps = z.caps /\ d.pending = z.pending /\ d.out = Append(z.out, out) /\ z.out \in Seq(Closed)
    BY <2>1 DEF TaxBook
  <2>3. QED
    BY <2>1, <2>2 DEF z
<1>14. Fits(rows, d, done) /\ Carried(rows, d) = Carried(rows, t) + Shares(m) * add
  BY <1>12, <1>13 DEF Fits, Room, Carried
<1>15. Gained(d.out) = Gained(t.out) + Gain(out) /\ Gained(t.out) \in Int
  BY <1>2, <1>13, GainedIs
<1>16. Gained(d.out) - Carried(rows, d) = (Gained(t.out) - Carried(rows, t)) + gain
  <2> DEFINE s == Shares(m) * add
  <2>1. s \in Int /\ gain \in Int /\ Carried(rows, d) = Carried(rows, t) + s /\ Gain(out) = gain + s
    BY <1>2, <1>14
  <2> HIDE DEF s
  <2>2. QED
    BY <1>8, <1>15, <2>1
<1>17. OnDays(rows, t.out) => OnDays(rows, d.out)
  <2> HAVE OnDays(rows, t.out)
  <2>1. Len(d.out) = Len(t.out) + 1 /\ Len(t.out) \in Nat
    BY <1>13
  <2>2. ASSUME NEW i \in 1..Len(d.out) PROVE \E j \in 1..Len(rows) : d.out[i].sold = Day(rows[j].ts)
    <3>1. CASE i \in 1..Len(t.out)
      <4>1. d.out[i] = t.out[i]
        BY <1>13, <3>1
      <4>2. QED
        BY <3>1, <4>1 DEF OnDays
    <3>2. CASE i = Len(t.out) + 1
      <4>1. d.out[i] = out
        BY <1>13, <3>2
      <4>2. QED
        BY <1>2, <4>1
    <3>3. QED
      BY <2>1, <3>1, <3>2
  <2>3. QED
    BY <2>2 DEF OnDays
<1>18. QED
  BY <1>14, <1>16, <1>17 DEF Closes, d, gain

\* Two values per share add up.
LEMMA WorthRates ==
  ASSUME NEW T, Stock(T), NEW u, Rates(T, u), NEW v, Rates(T, v), NEW w, Rates(T, w),
         \A x \in T : w[x] = u[x] + v[x], NEW s \in Seq(T)
  PROVE  Worth(T, w, s) = Worth(T, u, s) + Worth(T, v, s)
<1> DEFINE fu == Value(T, u)
           fv == Value(T, v)
           fw == Value(T, w)
           a == Weights(fu, s)
           b == Weights(fv, s)
           c == Weights(fw, s)
           k == Len(s)
<1>1. /\ fu \in [T -> Int] /\ \A x \in T : fu[x] = x.qty * u[x]
      /\ fv \in [T -> Int] /\ \A x \in T : fv[x] = x.qty * v[x]
      /\ fw \in [T -> Int] /\ \A x \in T : fw[x] = x.qty * w[x]
  BY ValueIs
<1>2. \A x \in T : x.qty \in Int /\ u[x] \in Int /\ v[x] \in Int
  BY DEF Stock, Rates
<1> HIDE DEF fu, fv, fw
<1>3. \A x \in T : fw[x] = fu[x] + fv[x]
  <2> TAKE x \in T
  <2> DEFINE q == x.qty
             y == u[x]
             z == v[x]
  <2>1. q \in Int /\ y \in Int /\ z \in Int /\ fw[x] = q * (y + z) /\ fu[x] = q * y /\ fv[x] = q * z
    BY <1>1, <1>2
  <2> HIDE DEF q, y, z
  <2>2. q * (y + z) = q * y + q * z
    BY <2>1
  <2>3. QED
    BY <2>1, <2>2
<1>4. /\ a \in Seq(Int) /\ Len(a) = k /\ \A i \in 1..k : a[i] = fu[s[i]]
      /\ b \in Seq(Int) /\ Len(b) = k /\ \A i \in 1..k : b[i] = fv[s[i]]
      /\ c \in Seq(Int) /\ Len(c) = k /\ \A i \in 1..k : c[i] = fw[s[i]]
  <2>1. fu \in [T -> Int] /\ fv \in [T -> Int] /\ fw \in [T -> Int]
    BY <1>1
  <2>2. a \in Seq(Int) /\ Len(a) = k /\ \A i \in 1..k : a[i] = fu[s[i]]
    BY <2>1, WeightsAre
  <2>3. b \in Seq(Int) /\ Len(b) = k /\ \A i \in 1..k : b[i] = fv[s[i]]
    BY <2>1, WeightsAre
  <2>4. c \in Seq(Int) /\ Len(c) = k /\ \A i \in 1..k : c[i] = fw[s[i]]
    BY <2>1, WeightsAre
  <2>5. QED
    BY <2>2, <2>3, <2>4
<1>5. k \in Nat /\ \A i \in 1..k : s[i] \in T
  OBVIOUS
<1> HIDE DEF a, b, c, k
<1>6. Len(b) = Len(a) /\ Len(c) = Len(a) /\ \A i \in 1..Len(a) : c[i] = a[i] + b[i]
  BY <1>3, <1>4, <1>5
<1>7. \A i \in 0..Len(a) : Sums(c)[i] = Sums(a)[i] + Sums(b)[i]
  BY <1>4, <1>6, SumsAdd
<1>8. Len(a) \in 0..Len(a)
  BY <1>4, <1>5
<1>9. Total(c) = Total(a) + Total(b)
  BY <1>6, <1>7, <1>8 DEF Total
<1>10. QED
  BY <1>9 DEF Worth, a, b, c, fu, fv, fw

\* What a sale takes is as many shares as it sells.
LEMMA TakenShares ==
  ASSUME NEW s \in Seq(TaxLot), NEW n \in Nat, n <= Shares(s)
  PROVE  Taken(s, n) \in Seq(TaxLot) /\ Rest(s, n) \in Seq(TaxLot) /\ Shares(Taken(s, n)) = n
<1> DEFINE one == [x \in TaxLot |-> 1]
           a == Taken(s, n)
           b == Rest(s, n)
<1>1. Stock(TaxLot) /\ Lots(TaxLot)
  BY LotTypes
<1>2. Rates(TaxLot, one) /\ \A x \in TaxLot : one[x] = 1
  <2>1. \A x \in TaxLot, q \in Nat : [x EXCEPT !.qty = q] \in TaxLot
    BY <1>1 DEF Stock
  <2>2. QED
    BY <2>1 DEF Rates
<1> HIDE DEF one
<1>3. a \in Seq(TaxLot) /\ b \in Seq(TaxLot)
      /\ Worth(TaxLot, one, s) = Worth(TaxLot, one, a) + Worth(TaxLot, one, b)
  BY <1>1, <1>2, WorthSold
<1>4. Shares(s) \in Nat /\ n \in 0..Shares(s)
  BY <1>1, StockSums
<1>5. Shares(b) = Shares(s) - n
  BY <1>1, <1>4, LeftOver
<1> HIDE DEF a, b
<1>6. Shares(a) \in Nat /\ Shares(b) \in Nat
  BY <1>1, <1>3, StockSums
<1>7. /\ Worth(TaxLot, one, s) = Shares(s) * 1 /\ Worth(TaxLot, one, a) = Shares(a) * 1
      /\ Worth(TaxLot, one, b) = Shares(b) * 1
  <2>1. 1 \in Int
    OBVIOUS
  <2>2. Worth(TaxLot, one, s) = Shares(s) * 1
    BY <1>1, <1>2, <2>1, WorthEven
  <2>3. Worth(TaxLot, one, a) = Shares(a) * 1
    BY <1>1, <1>2, <1>3, <2>1, WorthEven
  <2>4. Worth(TaxLot, one, b) = Shares(b) * 1
    BY <1>1, <1>2, <1>3, <2>1, WorthEven
  <2>5. QED
    BY <2>2, <2>3, <2>4
<1>8. Shares(s) = Shares(a) + Shares(b)
  BY <1>3, <1>4, <1>6, <1>7
<1>9. QED
  BY <1>3, <1>4, <1>5, <1>6, <1>8 DEF a, b

\* The profit on lots at a price is what they bring less what they cost.
Margin(p) == [x \in TaxLot |-> p - x.unit]

\* Proceeds are cost and margin.
LEMMA MarginIs ==
  ASSUME NEW p \in Int
  PROVE  /\ Rates(TaxLot, Margin(p)) /\ \A x \in TaxLot : Margin(p)[x] = p - x.unit
         /\ \A s \in Seq(TaxLot) : /\ Worth(TaxLot, Margin(p), s) \in Int /\ Cost(s) \in Int
                                   /\ Worth(TaxLot, Margin(p), s) + Cost(s) = Shares(s) * p
<1> DEFINE u == Margin(p)
           v == UnitOf(TaxLot)
           w == [x \in TaxLot |-> p]
<1>1. Stock(TaxLot) /\ Lots(TaxLot)
  BY LotTypes
<1>2. Rates(TaxLot, v) /\ \A x \in TaxLot : v[x] = x.unit /\ x.unit \in Int
  BY CostIsWorth
<1>3. \A s \in Seq(TaxLot) : Cost(s) = Worth(TaxLot, v, s)
  BY CostIsWorth
<1>4. Rates(TaxLot, w) /\ \A x \in TaxLot : w[x] = p
  <2>1. \A x \in TaxLot, q \in Nat : [x EXCEPT !.qty = q] \in TaxLot
    BY <1>1 DEF Stock
  <2>2. QED
    BY <2>1 DEF Rates
<1> HIDE DEF v, w
<1>5. \A x \in TaxLot : u[x] = p - x.unit
  BY DEF Margin
<1>6. Rates(TaxLot, u)
  <2>1. u \in [TaxLot -> Int]
    BY <1>2 DEF Margin
  <2> HIDE DEF u
  <2>2. ASSUME NEW x \in TaxLot, NEW q \in Nat PROVE u[[x EXCEPT !.qty = q]] = u[x]
    <3> DEFINE y == [x EXCEPT !.qty = q]
    <3>1. y \in TaxLot /\ y.unit = x.unit
      BY <1>1 DEF Lots, Stock
    <3> HIDE DEF y
    <3>2. u[y] = u[x]
      BY <1>5, <3>1
    <3>3. QED
      BY <3>2 DEF y
  <2>3. QED
    BY <2>1, <2>2 DEF Rates
<1> HIDE DEF u
<1>7. ASSUME NEW s \in Seq(TaxLot)
      PROVE  /\ Worth(TaxLot, u, s) \in Int /\ Cost(s) \in Int
             /\ Worth(TaxLot, u, s) + Cost(s) = Shares(s) * p
  <2>1. \A x \in TaxLot : w[x] = u[x] + v[x]
    BY <1>2, <1>4, <1>5
  <2>2. Worth(TaxLot, w, s) = Worth(TaxLot, u, s) + Worth(TaxLot, v, s)
    BY <1>1, <1>2, <1>4, <1>6, <2>1, WorthRates
  <2>3. Worth(TaxLot, w, s) = Shares(s) * p
    BY <1>1, <1>4, WorthEven
  <2>4. Worth(TaxLot, u, s) \in Int /\ Cost(s) \in Int
    BY <1>1, <1>6, CostType, WorthType
  <2>5. QED
    BY <1>3, <2>2, <2>3, <2>4
<1>8. QED
  BY <1>5, <1>6, <1>7 DEF u

\* The sold shares stop counting, in the capacities as in the lots.
LEMMA BurnFits ==
  ASSUME NEW rows \in Seq(Rows), NEW t \in TaxBook(rows), NEW n \in Nat, n <= Shares(t.lots),
         NEW done, OfThose(t.lots, done), Fits(rows, t, done), NEW base \in TaxBook(rows),
         base.lots = Rest(t.lots, n), base.caps = Burn(t.caps, Taken(t.lots, n)),
         base.pending = t.pending, base.out = t.out
  PROVE  /\ Fits(rows, base, done)
         /\ Carried(rows, base) = Carried(rows, t) - Cost(Taken(t.lots, n))
<1> DEFINE lots == t.lots
           a == Taken(lots, n)
           b == Rest(lots, n)
<1>1. lots \in Seq(TaxLot) /\ t.caps \in [Buys(rows) -> Int]
  BY DEF TaxBook
<1>a. n <= Shares(lots) /\ OfThose(lots, done)
  OBVIOUS
<1> HIDE DEF lots
<1>2. a \in Seq(TaxLot) /\ b \in Seq(TaxLot) /\ OfThose(a, done)
  BY <1>1, <1>a, TakenShares, SoldInFront
<1>3. /\ \A u : Rates(TaxLot, u) => Worth(TaxLot, u, lots) = Worth(TaxLot, u, a) + Worth(TaxLot, u, b)
  BY <1>1, LotTypes, WorthSold
<1>4. base.lots = b /\ base.caps = Burn(t.caps, a) /\ base.pending = t.pending
  BY DEF lots
<1> HIDE DEF a, b
<1>5. ASSUME NEW o \in Buys(rows)
      PROVE  /\ HeldOf(lots, o) = HeldOf(a, o) + HeldOf(b, o)
             /\ HeldOf(a, o) \in Nat /\ HeldOf(b, o) \in Nat /\ HeldOf(lots, o) \in Nat
             /\ o \notin done => HeldOf(a, o) = 0
  <2>1. HeldOf(lots, o) = HeldOf(a, o) + HeldOf(b, o)
    <3>1. Rates(TaxLot, OfRate(o)) /\ \A s \in Seq(TaxLot) : HeldOf(s, o) = Worth(TaxLot, OfRate(o), s)
      BY HeldIsWorth
    <3>2. QED
      BY <1>1, <1>2, <1>3, <3>1
  <2>2. HeldOf(a, o) \in Nat /\ HeldOf(b, o) \in Nat /\ HeldOf(lots, o) \in Nat
    BY <1>1, <1>2, HeldIsWorth
  <2>3. o \notin done => HeldOf(a, o) = 0
    <3> HAVE o \notin done
    <3>1. OfBuy(a, o) \in Seq(Int) /\ Len(OfBuy(a, o)) = Len(a)
          /\ \A i \in 1..Len(a) : OfBuy(a, o)[i] = IF a[i].buy = o THEN a[i].qty ELSE 0
      BY <1>2, OfBuyIs
    <3>2. \A i \in 1..Len(a) : a[i].buy # o
      BY <1>2 DEF OfThose
    <3> DEFINE c == OfBuy(a, o)
    <3>3. c \in Seq(Int) /\ \A i \in 1..Len(c) : c[i] = 0
      BY <3>1, <3>2
    <3> HIDE DEF c
    <3>4. Total(c) = 0
      BY <3>3, TotalZero
    <3>5. QED
      BY <3>4 DEF HeldOf, c
  <2>4. QED
    BY <2>1, <2>2, <2>3
<1>6. ASSUME NEW o \in Buys(rows) PROVE Room(rows, base, done, o)
  <2>1. Room(rows, t, done, o)
    BY DEF Fits
  <2>2. base.caps[o] = IF t.caps[o] - HeldOf(a, o) > 0 THEN t.caps[o] - HeldOf(a, o) ELSE 0
    <3> DEFINE caps == t.caps
    <3>1. caps \in [Buys(rows) -> Int] /\ base.caps = Burn(caps, a)
      BY <1>1, <1>4
    <3> HIDE DEF caps
    <3>2. Burn(caps, a)[o] = IF caps[o] - HeldOf(a, o) > 0 THEN caps[o] - HeldOf(a, o) ELSE 0
      BY <3>1, <1>2, BurnIs
    <3>3. QED
      BY <3>1, <3>2 DEF caps
  <2>3. t.caps[o] \in Int
    BY <1>1
  <2>4. CASE o \in done
    <3>1. t.caps[o] <= HeldOf(lots, o)
      BY <2>1, <2>4 DEF Room, lots
    <3>2. base.caps[o] <= HeldOf(b, o)
      BY <1>5, <2>2, <2>3, <3>1
    <3>3. QED
      BY <1>4, <2>4, <3>2 DEF Room
  <2>5. CASE o \notin done
    <3>1. HeldOf(a, o) = 0
      BY <1>5, <2>5
    <3>2. rows[o].qty > 0 => base.caps[o] = t.caps[o] /\ base.pending[o] = t.pending[o]
      <4> HAVE rows[o].qty > 0
      <4>1. t.caps[o] >= 0
        BY <2>1, <2>5 DEF Room
      <4>2. QED
        BY <1>4, <2>2, <2>3, <3>1, <4>1
    <3>3. rows[o].qty <= 0 => base.caps[o] <= 0
      <4> HAVE rows[o].qty <= 0
      <4>1. t.caps[o] <= 0
        BY <2>1, <2>5 DEF Room
      <4>2. QED
        BY <2>2, <2>3, <3>1, <4>1
    <3>4. QED
      BY <2>1, <2>5, <3>2, <3>3 DEF Room
  <2>6. QED
    BY <2>4, <2>5
<1>7. Carried(rows, base) = Carried(rows, t) - Cost(a)
  <2>1. Cost(lots) = Cost(a) + Cost(b)
    <3>1. Rates(TaxLot, UnitOf(TaxLot)) /\ \A s \in Seq(TaxLot) : Cost(s) = Worth(TaxLot, UnitOf(TaxLot), s)
      BY CostIsWorth
    <3>2. QED
      BY <1>1, <1>2, <1>3, <3>1
  <2>2. Cost(lots) \in Int /\ Cost(a) \in Int /\ Cost(b) \in Int
    BY <1>1, <1>2, CostType
  <2>3. Owed(rows, t.pending) \in Int
    BY CarriedType
  <2>4. Carried(rows, base) = Cost(b) + Owed(rows, t.pending)
    BY <1>4 DEF Carried
  <2>5. Carried(rows, t) = Cost(lots) + Owed(rows, t.pending)
    BY DEF Carried, lots
  <2>6. QED
    BY <2>1, <2>2, <2>3, <2>4, <2>5
<1>8. QED
  BY <1>6, <1>7 DEF Fits, a, lots

\* A sale reports its proceeds less the cost it takes away, and what it defers is
\* carried on.
LEMMA TaxSellCarries ==
  ASSUME NEW rows \in Seq(Rows), NEW id \in 1..Len(rows), NEW t \in TaxBook(rows),
         rows[id].qty > 0, rows[id].qty <= Shares(t.lots),
         NEW done, Since(rows, id, done), OfThose(t.lots, done), Fits(rows, t, done)
  PROVE  Closes(rows, t, TaxSell(rows, t, id), rows[id].qty * rows[id].price, done)
<1> DEFINE qty == rows[id].qty
           price == rows[id].price
           chunks == Taken(t.lots, qty)
           n == Len(chunks)
           left == Rest(t.lots, qty)
           u == Margin(price)
           w == Weights(Value(TaxLot, u), chunks)
           s == TaxSell(rows, t, id)
           proceeds == qty * price
<1>1. qty \in Nat /\ qty > 0 /\ price \in Int /\ qty <= Shares(t.lots) /\ t.lots \in Seq(TaxLot)
  BY RowFields DEF TaxBook
<1>2. chunks \in Seq(TaxLot) /\ left \in Seq(TaxLot) /\ Shares(chunks) = qty
  <2> DEFINE l == t.lots
  <2>1. l \in Seq(TaxLot) /\ qty \in Nat /\ qty <= Shares(l)
    BY <1>1
  <2> HIDE DEF l, qty
  <2>2. Taken(l, qty) \in Seq(TaxLot) /\ Rest(l, qty) \in Seq(TaxLot) /\ Shares(Taken(l, qty)) = qty
    BY <2>1, TakenShares
  <2>3. QED
    BY <2>2 DEF l
<1>3. PICK f : SaleTable(f, rows, id, t) /\ s = f[n]
  BY TaxSellIs
<1>4. /\ f[0] \in TaxBook(rows) /\ f[0].lots = left /\ f[0].caps = Burn(t.caps, chunks)
      /\ f[0].pending = t.pending /\ f[0].out = t.out
      /\ \A k \in 0..n : f[k] \in TaxBook(rows)
      /\ \A k \in 1..n : f[k] = CloseChunk(rows, id, f[k - 1], chunks[k])
  <2> DEFINE caps == Burn(t.caps, chunks)
  <2>0. n \in Nat
    BY <1>2
  <2>1. /\ f[0] = [t EXCEPT !.lots = left, !.caps = caps]
        /\ \A k \in 0..n : f[k] \in TaxBook(rows)
        /\ \A k \in 1..n : f[k] = CloseChunk(rows, id, f[k - 1], chunks[k])
    BY <1>3 DEF SaleTable, TaxBook
  <2> HIDE DEF left, n, chunks, caps
  <2>2. f[0].lots = left /\ f[0].caps = caps /\ f[0].pending = t.pending /\ f[0].out = t.out
    BY <2>1 DEF TaxBook
  <2>3. f[0] \in TaxBook(rows)
    BY <2>0, <2>1
  <2>4. QED
    BY <2>1, <2>2, <2>3 DEF caps
<1>5. n \in Nat /\ \A k \in 1..n : chunks[k] \in TaxLot /\ k - 1 \in 0..n /\ k \in 0..n
  BY <1>2
<1>6. /\ Fits(rows, f[0], done) /\ Carried(rows, f[0]) = Carried(rows, t) - Cost(chunks)
  BY <1>1, <1>4, BurnFits
<1> HIDE DEF chunks, n, left, price, qty, u, s, proceeds
<1>7. /\ Rates(TaxLot, u) /\ \A x \in TaxLot : u[x] = price - x.unit
      /\ Worth(TaxLot, u, chunks) \in Int /\ Cost(chunks) \in Int
      /\ Worth(TaxLot, u, chunks) + Cost(chunks) = qty * price
  BY <1>1, <1>2, MarginIs DEF u
<1>8. w \in Seq(Int) /\ Len(w) = n /\ \A k \in 1..n : w[k] = chunks[k].qty * (price - chunks[k].unit)
  <2> DEFINE v == Value(TaxLot, u)
  <2>1. v \in [TaxLot -> Int] /\ \A x \in TaxLot : v[x] = x.qty * u[x]
    BY <1>7, LotTypes, ValueIs
  <2> HIDE DEF v
  <2>2. Weights(v, chunks) \in Seq(Int) /\ Len(Weights(v, chunks)) = Len(chunks)
        /\ \A k \in 1..Len(chunks) : Weights(v, chunks)[k] = v[chunks[k]]
    BY <1>2, <2>1, WeightsAre
  <2>3. \A k \in 1..n : v[chunks[k]] = chunks[k].qty * (price - chunks[k].unit)
    BY <1>5, <1>7, <2>1
  <2>4. QED
    BY <2>2, <2>3 DEF v, n
<1>9. Worth(TaxLot, u, chunks) = Sums(w)[n]
  BY <1>8 DEF Worth, Total
<1> HIDE DEF w
<1> DEFINE due == Gained(t.out) - Carried(rows, f[0])
           At(k) == /\ Fits(rows, f[k], done)
                    /\ Gained(f[k].out) - Carried(rows, f[k]) = due + Sums(w)[k]
                    /\ OnDays(rows, t.out) => OnDays(rows, f[k].out)
           G == {k \in 0..n : At(k)}
<1>10. /\ Sums(w)[0] = 0 /\ \A k \in 1..n : /\ Sums(w)[k] = Sums(w)[k - 1] + w[k]
                                             /\ Sums(w)[k - 1] \in Int /\ w[k] \in Int
  BY <1>8, SumsAre
<1>11. due \in Int /\ Gained(t.out) \in Int /\ Carried(rows, f[0]) \in Int /\ Carried(rows, t) \in Int
  <2>1. t.out \in Seq(Closed)
    BY DEF TaxBook
  <2>2. Gained(t.out) \in Int
    BY <2>1, GainedIs
  <2>3. QED
    BY <1>4, <2>2, CarriedType
<1>12. 0 \in G
  <2>1. Gained(f[0].out) = Gained(t.out)
    BY <1>4
  <2>2. At(0)
    BY <1>4, <1>6, <1>10, <1>11, <2>1
  <2>3. QED
    BY <1>5, <2>2
<1> HIDE DEF due
<1>13. ASSUME NEW k \in 1..n, k - 1 \in G PROVE k \in G
  <2> DEFINE old == f[k - 1]
             new == f[k]
             c == chunks[k]
             gain == c.qty * (price - c.unit)
  <2>1. At(k - 1)
    BY <1>13
  <2>2. old \in TaxBook(rows) /\ c \in TaxLot /\ new = CloseChunk(rows, id, old, c) /\ new \in TaxBook(rows)
    BY <1>4, <1>5
  <2>3. Fits(rows, old, done) /\ Gained(old.out) - Carried(rows, old) = due + Sums(w)[k - 1]
        /\ (OnDays(rows, t.out) => OnDays(rows, old.out))
    BY <2>1
  <2>4. w[k] = gain
    BY <1>8
  <2>5. Closes(rows, old, new, gain, done)
    <3> HIDE DEF old, new, c, At
    <3>1. Closes(rows, old, CloseChunk(rows, id, old, c), c.qty * (rows[id].price - c.unit), done)
      BY <2>2, <2>3, CloseChunkCarries
    <3>2. QED
      BY <2>2, <3>1 DEF price
  <2>6. /\ Fits(rows, new, done)
        /\ Gained(new.out) - Carried(rows, new) = (Gained(old.out) - Carried(rows, old)) + gain
        /\ OnDays(rows, old.out) => OnDays(rows, new.out)
    BY <2>5 DEF Closes
  <2>7. Gained(new.out) - Carried(rows, new) = due + Sums(w)[k]
    <3>1. Sums(w)[k] = Sums(w)[k - 1] + gain /\ Sums(w)[k - 1] \in Int /\ gain \in Int
      BY <1>10, <2>4
    <3> HIDE DEF gain, old, new, At
    <3>2. QED
      BY <1>11, <2>3, <2>6, <3>1
  <2>8. At(k)
    BY <2>3, <2>6, <2>7
  <2>9. QED
    BY <1>5, <2>8
<1>14. \A k \in 0..n : k \in G
  <2> HIDE DEF G
  <2>1. QED
    BY <1>5, <1>12, <1>13, UpTo
<1>15. At(n)
  <2>1. n \in 0..n
    BY <1>5
  <2>2. QED
    BY <1>14, <2>1
<1>16. Gained(s.out) - Carried(rows, s) = (Gained(t.out) - Carried(rows, t)) + proceeds
  <2>1. Gained(s.out) - Carried(rows, s) = due + Worth(TaxLot, u, chunks)
    BY <1>3, <1>9, <1>15
  <2>2. due = Gained(t.out) - (Carried(rows, t) - Cost(chunks))
    BY <1>6 DEF due
  <2>3. proceeds = Worth(TaxLot, u, chunks) + Cost(chunks)
    BY <1>7 DEF proceeds
  <2>4. QED
    BY <1>7, <1>11, <2>1, <2>2, <2>3
<1>17. QED
  BY <1>3, <1>15, <1>16 DEF Closes, s, proceeds, qty, price

-----------------------------------------------------------------------------
(* No loss is lost: purchases, splits, whole logs.                          *)

\* What a purchase leaves of the books.
LEMMA TaxBuyIs ==
  ASSUME NEW rows \in Seq(Rows), NEW id \in Buys(rows), NEW t \in TaxBook(rows)
  PROVE  /\ TaxBuy(rows, t, id).caps = t.caps /\ TaxBuy(rows, t, id).out = t.out
         /\ TaxBuy(rows, t, id).pending[id] = <<>>
         /\ \A b \in Buys(rows) : b # id => TaxBuy(rows, t, id).pending[b] = t.pending[b]
<1> DEFINE lots == Filled(t.lots \o Arrived(rows, t, id))
           none == <<>>
           pend == [t.pending EXCEPT ![id] = none]
<1>0. TaxBuy(rows, t, id) = [t EXCEPT !.lots = lots, !.pending[id] = <<>>]
  BY DEF TaxBuy, Arrived
<1>1. TaxBuy(rows, t, id) = [t EXCEPT !.lots = lots, !.pending = pend]
  <2> HIDE DEF lots
  <2>1. QED
    BY <1>0
<1>2. pend[id] = none /\ \A b \in Buys(rows) : b # id => pend[b] = t.pending[b]
  <2> HIDE DEF none
  <2>1. QED
    BY DEF TaxBook
<1> HIDE DEF lots, pend, none
<1>3. /\ TaxBuy(rows, t, id).caps = t.caps /\ TaxBuy(rows, t, id).out = t.out
      /\ TaxBuy(rows, t, id).pending = pend
  BY <1>1 DEF TaxBook
<1>4. QED
  BY <1>2, <1>3 DEF none

\* When there are shares for all of them, each gets all it asks for.
LEMMA AllTaken ==
  ASSUME NEW T, Stock(T), NEW s \in Seq(T), NEW n \in Int, Shares(s) <= n
  PROVE  \A i \in 1..Len(s) : InOrder(s, n)[i] = s[i].qty
<1> DEFINE sum == Sums(Qty(s))
           k == Len(s)
<1>1. /\ k \in Nat /\ Shares(s) = sum[k] /\ Shares(s) \in Nat
      /\ \A i \in 1..k : sum[i] = sum[i - 1] + s[i].qty /\ s[i].qty \in Nat
      /\ \A j \in 0..k : sum[j] \in Nat /\ sum[j] <= sum[k]
  <2>1. /\ k \in Nat /\ Shares(s) = sum[k] /\ Shares(s) \in Nat
        /\ \A i \in 1..k : sum[i] = sum[i - 1] + s[i].qty /\ s[i].qty \in Nat
    BY StockSums
  <2>2. /\ \A j \in 0..k : sum[j] \in Nat
        /\ \A i \in 0..k : \A j \in 0..i : sum[j] <= sum[i]
    BY StockSums
  <2> HIDE DEF sum, k
  <2>3. QED
    BY <2>1, <2>2
<1> TAKE i \in 1..k
<1>2. InOrder(s, n)[i] = IF n - sum[i - 1] <= 0 \/ s[i].qty <= 0 THEN 0
                         ELSE IF s[i].qty <= n - sum[i - 1] THEN s[i].qty ELSE n - sum[i - 1]
  <2>1. \A x \in T : x.qty \in Int
    BY DEF Stock
  <2>2. QED
    BY <2>1, InOrderIs
<1>3. sum[i - 1] \in Nat /\ sum[i] \in Nat /\ sum[i] <= sum[k] /\ i - 1 \in 0..k /\ i \in 0..k
  <2>1. i - 1 \in 0..k /\ i \in 0..k
    BY <1>1
  <2>2. QED
    BY <1>1, <2>1
<1> DEFINE x == sum[i - 1]
           y == sum[i]
           z == s[i].qty
           out == InOrder(s, n)[i]
<1>4. /\ x \in Nat /\ y \in Nat /\ z \in Nat /\ y = x + z /\ y <= n
      /\ out = IF n - x <= 0 \/ z <= 0 THEN 0 ELSE IF z <= n - x THEN z ELSE n - x
  BY <1>1, <1>2, <1>3
<1> HIDE DEF x, y, out, sum, k
<1>5. out = z
  <2> HIDE DEF z
  <2>1. QED
    BY <1>4
<1>6. QED
  BY <1>5 DEF out

\* Two sequences with the same quantities have the same shares.
LEMMA SameShares ==
  ASSUME NEW T, Stock(T), NEW s \in Seq(T), NEW U, Stock(U), NEW t \in Seq(U), Len(s) = Len(t),
         \A i \in 1..Len(s) : s[i].qty = t[i].qty
  PROVE  Shares(s) = Shares(t)
<1>1. \A x \in T : x.qty \in Int
  BY DEF Stock
<1>2. \A x \in U : x.qty \in Int
  BY DEF Stock
<1>3. Qty(s) \in Seq(Int) /\ Len(Qty(s)) = Len(s) /\ \A i \in 1..Len(s) : Qty(s)[i] = s[i].qty
  BY <1>1, QtyIs
<1>4. Qty(t) \in Seq(Int) /\ Len(Qty(t)) = Len(t) /\ \A i \in 1..Len(t) : Qty(t)[i] = t[i].qty
  BY <1>2, QtyIs
<1> DEFINE a == Qty(s)
           b == Qty(t)
           n == Len(a)
<1>5. a \in Seq(Int) /\ b \in Seq(Int) /\ n \in Nat /\ n = Len(b) /\ \A i \in 1..n : a[i] = b[i]
  BY <1>3, <1>4
<1> HIDE DEF a, b
<1>a. n = Len(a) /\ n <= Len(a) /\ n <= Len(b) /\ n \in 0..n
  BY <1>5
<1> HIDE DEF n
<1>6. \A k \in 0..n : Sums(a)[k] = Sums(b)[k]
  BY <1>5, <1>a, SumsAgree
<1>7. Sums(a)[Len(a)] = Sums(b)[Len(b)]
  BY <1>5, <1>6, <1>a
<1>8. QED
  BY <1>7 DEF Shares, Total, a, b

\* The lots a purchase brings cost what it cost, and the losses it was owed.
LEMMA ArrivedWorth ==
  ASSUME NEW rows \in Seq(Rows), NEW id \in Buys(rows), rows[id].qty > 0, NEW t \in TaxBook(rows),
         Shares(t.pending[id]) <= rows[id].qty
  PROVE  /\ Cost(Arrived(rows, t, id)) = rows[id].qty * rows[id].price + Debt(t.pending[id])
         /\ HeldOf(Arrived(rows, t, id), id) = rows[id].qty
<1> DEFINE adjs == t.pending[id]
           n == rows[id].qty
           price == rows[id].price
           new == Arrived(rows, t, id)
           u == UnitOf(TaxLot)
<1>1. adjs \in Seq(Adjustment) /\ n \in Int /\ n > 0 /\ price \in Int /\ Shares(adjs) <= n
  <2>1. id \in 1..Len(rows)
    BY DEF Buys
  <2>2. QED
    BY <2>1, RowFields DEF TaxBook
<1>2. /\ new \in Seq(TaxLot) /\ Shares(new) = n /\ \A i \in 1..Len(new) : new[i].buy = id
  BY ArrivedIs
<1>3. PICK early \in Seq(TaxLot), plain \in TaxLot : ArrivedParts(rows, t, id, early, plain)
  BY ArrivedIs
<1>4. /\ new = Append(early, plain) /\ Len(early) = Len(adjs)
      /\ \A i \in 1..Len(early) : /\ early[i].qty = InOrder(adjs, n)[i]
                                  /\ early[i].unit = price + adjs[i].add
      /\ plain.qty = n - Shares(early) /\ plain.unit = price
  BY <1>3 DEF ArrivedParts
<1> HIDE DEF adjs, n, price, new
<1>5. \A i \in 1..Len(early) : early[i].qty = adjs[i].qty
  <2>1. \A i \in 1..Len(adjs) : InOrder(adjs, n)[i] = adjs[i].qty
    BY <1>1, LotTypes, AllTaken
  <2>2. QED
    BY <1>4, <2>1
<1>6. Shares(early) = Shares(adjs)
  BY <1>1, <1>4, <1>5, LotTypes, SameShares
<1>7. Rates(TaxLot, u) /\ Rates(Adjustment, AddOf) /\ Stock(Adjustment) /\ Stock(TaxLot)
      /\ (\A x \in TaxLot : u[x] = x.unit /\ x.unit \in Int)
      /\ \A s \in Seq(TaxLot) : Cost(s) = Worth(TaxLot, u, s)
  BY CostIsWorth, DebtIs
<1>8. Debt(adjs) = Worth(Adjustment, AddOf, adjs)
  BY <1>1, DebtIs
<1> HIDE DEF u
<1>9. Dearer(u, early, AddOf, adjs, price)
  <2>1. \A i \in 1..Len(adjs) : adjs[i] \in Adjustment /\ adjs[i].add \in Int
    BY <1>1, LotFields
  <2>2. \A i \in 1..Len(adjs) : AddOf[adjs[i]] = adjs[i].add
    BY <2>1 DEF AddOf
  <2>3. \A i \in 1..Len(early) : early[i] \in TaxLot
    OBVIOUS
  <2>4. \A i \in 1..Len(adjs) : u[early[i]] = price + adjs[i].add
    BY <1>4, <1>7, <2>3
  <2>5. \A i \in 1..Len(adjs) : u[early[i]] = AddOf[adjs[i]] + price
    BY <1>1, <2>1, <2>2, <2>4
  <2>6. QED
    BY <1>4, <1>5, <2>5 DEF Dearer
<1>10. WorthMore(TaxLot, u, early, Adjustment, AddOf, adjs, price)
  BY <1>1, <1>7, <1>9, WorthApart
<1>11. Worth(TaxLot, u, new) = Worth(TaxLot, u, early) + plain.qty * u[plain]
  BY <1>4, <1>7, WorthAppend
<1>12. Cost(new) = n * price + Debt(adjs)
  <2> DEFINE h == Shares(adjs)
             d == Debt(adjs)
             w == Worth(TaxLot, u, early)
  <2>1. h \in Nat /\ d \in Int /\ w = d + h * price
    BY <1>8, <1>10 DEF WorthMore
  <2>2. Cost(new) = w + (n - h) * price
    BY <1>2, <1>4, <1>6, <1>7, <1>11
  <2> HIDE DEF h, d, w
  <2>3. (n - h) * price = n * price - h * price
    BY <1>1, <2>1
  <2>4. n * price \in Int /\ h * price \in Int
    BY <1>1, <2>1
  <2> DEFINE np == n * price
             hp == h * price
  <2>5. np \in Int /\ hp \in Int /\ d \in Int /\ Cost(new) = (d + hp) + (np - hp)
    BY <2>1, <2>2, <2>3, <2>4
  <2> HIDE DEF np, hp
  <2>6. Cost(new) = np + d
    BY <2>5
  <2>7. QED
    BY <2>6 DEF np, d
<1>13. HeldOf(new, id) = n
  <2>1. OfBuy(new, id) = Qty(new)
    <3>1. DOMAIN new = 1..Len(new)
      BY <1>2
    <3>2. \A i \in DOMAIN new : (IF new[i].buy = id THEN new[i].qty ELSE 0) = new[i].qty
      BY <1>2, <3>1
    <3>3. QED
      BY <3>2 DEF OfBuy, Qty
  <2>2. QED
    BY <1>2, <2>1 DEF HeldOf, Shares
<1>14. QED
  BY <1>12, <1>13 DEF adjs, n, price, new

\* A purchase carries its price and the losses it was owed.
LEMMA BuyCarries ==
  ASSUME NEW rows \in Seq(Rows), NEW id \in Buys(rows), rows[id].qty > 0, NEW t \in TaxBook(rows),
         NEW done, id \notin done, Fits(rows, t, done)
  PROVE  /\ Fits(rows, TaxBuy(rows, t, id), done \cup {id})
         /\ Carried(rows, TaxBuy(rows, t, id)) = Carried(rows, t) + rows[id].qty * rows[id].price
         /\ TaxBuy(rows, t, id).out = t.out
<1> DEFINE n == rows[id].qty
           paid == n * rows[id].price
           new == Arrived(rows, t, id)
           lots == t.lots
           pend == t.pending
           both == lots \o new
           u == TaxBuy(rows, t, id)
           owing == u.pending
<1>1. id \in 1..Len(rows) /\ n \in Int /\ n > 0 /\ paid \in Int
  <2>1. id \in 1..Len(rows)
    BY DEF Buys
  <2>2. n \in Int /\ rows[id].price \in Int
    BY <2>1, RowFields
  <2>3. QED
    BY <2>1, <2>2
<1>2. /\ lots \in Seq(TaxLot) /\ pend \in [Buys(rows) -> Seq(Adjustment)]
      /\ t.caps \in [Buys(rows) -> Int]
  BY DEF TaxBook
<1>3. /\ u \in TaxBook(rows) /\ u.lots = Filled(both)
  BY TaxBuySame
<1>4. /\ u.caps = t.caps /\ u.out = t.out /\ owing[id] = <<>>
      /\ \A b \in Buys(rows) : b # id => owing[b] = pend[b]
  BY TaxBuyIs
<1>5. owing \in [Buys(rows) -> Seq(Adjustment)]
  BY <1>3 DEF TaxBook
<1>6. \A b \in Buys(rows) : Room(rows, t, done, b)
  BY DEF Fits
<1>7. Shares(pend[id]) \in Nat /\ t.caps[id] \in Int /\ t.caps[id] >= 0 /\ Shares(pend[id]) + t.caps[id] = n
  <2>1. pend[id] \in Seq(Adjustment) /\ t.caps[id] \in Int
    BY <1>2
  <2>2. Shares(pend[id]) \in Nat
    BY <2>1, LotTypes, StockSums
  <2>3. QED
    BY <1>1, <1>6, <2>1, <2>2 DEF Room
<1>8. Shares(pend[id]) <= n /\ t.caps[id] <= n
  BY <1>1, <1>7
<1>9. Cost(new) = paid + Debt(pend[id]) /\ HeldOf(new, id) = n /\ new \in Seq(TaxLot)
  BY <1>8, ArrivedWorth, ArrivedIs
<1> HIDE DEF u, new, paid, n, lots, pend, owing
<1>10. ASSUME NEW w, Rates(TaxLot, w)
       PROVE  Worth(TaxLot, w, u.lots) = Worth(TaxLot, w, lots) + Worth(TaxLot, w, new)
  <2>1. both \in Seq(TaxLot)
    BY <1>2, <1>9
  <2>2. Worth(TaxLot, w, both) = Worth(TaxLot, w, lots) + Worth(TaxLot, w, new)
    BY <1>2, <1>9, <1>10, LotTypes, WorthConcat
  <2> HIDE DEF both
  <2>3. Worth(TaxLot, w, Filled(both)) = Worth(TaxLot, w, both)
    BY <1>10, <2>1, LotTypes, WorthFilled
  <2>4. QED
    BY <1>3, <2>2, <2>3
<1>11. u.lots \in Seq(TaxLot)
  BY <1>3 DEF TaxBook
<1>12. Cost(u.lots) = Cost(lots) + Cost(new)
  <2>1. Rates(TaxLot, UnitOf(TaxLot)) /\ \A s \in Seq(TaxLot) : Cost(s) = Worth(TaxLot, UnitOf(TaxLot), s)
    BY CostIsWorth
  <2>2. QED
    BY <1>2, <1>9, <1>10, <1>11, <2>1
<1>13. ASSUME NEW b
       PROVE  /\ HeldOf(u.lots, b) = HeldOf(lots, b) + HeldOf(new, b)
              /\ HeldOf(lots, b) \in Nat /\ HeldOf(new, b) \in Nat
  <2>1. Rates(TaxLot, OfRate(b))
        /\ \A s \in Seq(TaxLot) : HeldOf(s, b) = Worth(TaxLot, OfRate(b), s) /\ HeldOf(s, b) \in Nat
    BY HeldIsWorth
  <2>2. QED
    BY <1>2, <1>9, <1>10, <1>11, <2>1
<1>14. Owed(rows, owing) = Owed(rows, pend) - Debt(pend[id]) /\ Debt(pend[id]) \in Int
       /\ Owed(rows, pend) \in Int
  <2>1. /\ Debt(owing[id]) \in Int /\ Debt(pend[id]) \in Int
        /\ Owed(rows, owing) = Owed(rows, pend) + (Debt(owing[id]) - Debt(pend[id]))
    BY <1>2, <1>4, <1>5, OwedChange
  <2>2. Debt(owing[id]) = 0
    BY <1>4, DebtIs
  <2>3. Owed(rows, pend) \in Int
    BY <1>2, DebtsAre
  <2>4. QED
    BY <2>1, <2>2, <2>3
<1>15. Carried(rows, u) = Carried(rows, t) + paid
  <2>1. Cost(lots) \in Int
    BY <1>2, CostType
  <2>2. Carried(rows, u) = (Cost(lots) + (paid + Debt(pend[id]))) + (Owed(rows, pend) - Debt(pend[id]))
    BY <1>9, <1>12, <1>14 DEF Carried, owing
  <2>3. Carried(rows, t) = Cost(lots) + Owed(rows, pend)
    BY DEF Carried, lots, pend
  <2>4. QED
    BY <1>1, <1>14, <2>1, <2>2, <2>3
<1>16. ASSUME NEW b \in Buys(rows) PROVE Room(rows, u, done \cup {id}, b)
  <2>1. Room(rows, t, done, b)
    BY <1>6
  <2>2. CASE b = id
    <3>1. u.caps[b] <= n /\ u.caps[b] \in Int
      BY <1>4, <1>7, <1>8, <2>2
    <3>2. HeldOf(u.lots, b) = HeldOf(lots, b) + n /\ HeldOf(lots, b) \in Nat
      BY <1>9, <1>13, <2>2
    <3>3. u.caps[b] <= HeldOf(u.lots, b)
      BY <1>1, <3>1, <3>2
    <3>4. QED
      BY <2>2, <3>3 DEF Room
  <2>3. CASE b # id
    <3>1. u.caps[b] = t.caps[b] /\ u.pending[b] = t.pending[b] /\ t.caps[b] \in Int
      BY <1>2, <1>4, <2>3 DEF owing, pend
    <3>2. HeldOf(t.lots, b) <= HeldOf(u.lots, b) /\ HeldOf(t.lots, b) \in Nat /\ HeldOf(u.lots, b) \in Nat
      <4>1. HeldOf(u.lots, b) = HeldOf(lots, b) + HeldOf(new, b) /\ HeldOf(lots, b) \in Nat
            /\ HeldOf(new, b) \in Nat
        BY <1>13
      <4>2. QED
        BY <4>1 DEF lots
    <3>3. b \in done \cup {id} <=> b \in done
      BY <2>3
    <3>4. b \in done => u.caps[b] <= HeldOf(u.lots, b)
      BY <2>1, <3>1, <3>2 DEF Room
    <3>5. QED
      BY <2>1, <3>1, <3>3, <3>4 DEF Room
  <2>4. QED
    BY <2>2, <2>3
<1>17. QED
  BY <1>4, <1>15, <1>16 DEF Fits, u, paid, n

\* A split scales the shares of each purchase.
LEMMA HeldScaled ==
  ASSUME NEW lots \in Seq(TaxLot), NEW v \in Seq(TaxLot), NEW r \in Nat, Scaled(lots, v, r), NEW b
  PROVE  HeldOf(v, b) = HeldOf(lots, b) * r
<1> DEFINE x == OfBuy(lots, b)
           y == OfBuy(v, b)
           k == Len(lots)
<1>1. /\ k \in Nat /\ Len(v) = k
      /\ \A i \in 1..k : v[i].qty = lots[i].qty * r /\ v[i].buy = lots[i].buy
      /\ \A i \in 1..k : lots[i].qty \in Nat
  <2>1. \A i \in 1..k : lots[i] \in TaxLot
    OBVIOUS
  <2>2. QED
    BY <2>1, LotFields DEF Scaled
<1>2. x \in Seq(Int) /\ Len(x) = k /\ \A i \in 1..k : x[i] = IF lots[i].buy = b THEN lots[i].qty ELSE 0
  BY OfBuyIs
<1>3. y \in Seq(Int) /\ Len(y) = k /\ \A i \in 1..k : y[i] = IF v[i].buy = b THEN v[i].qty ELSE 0
  <2>1. y \in Seq(Int) /\ Len(y) = Len(v) /\ \A i \in 1..Len(v) : y[i] = IF v[i].buy = b THEN v[i].qty ELSE 0
    BY OfBuyIs
  <2> HIDE DEF y
  <2>2. QED
    BY <1>1, <2>1
<1> HIDE DEF x, y
<1>4. ASSUME NEW i \in 1..k PROVE y[i] = x[i] * r
  <2>1. CASE lots[i].buy = b
    BY <1>1, <1>2, <1>3, <2>1
  <2>2. CASE lots[i].buy # b
    <3>1. x[i] = 0 /\ y[i] = 0
      BY <1>1, <1>2, <1>3, <2>2
    <3>2. QED
      BY <3>1
  <2>3. QED
    BY <2>1, <2>2
<1> HIDE DEF k
<1>5. \A i \in 1..Len(x) : y[i] = x[i] * r
  BY <1>2, <1>4
<1>6. Len(y) = Len(x) /\ r \in Int /\ Len(x) \in 0..Len(x)
  BY <1>1, <1>2, <1>3
<1>7. \A i \in 0..Len(x) : Sums(y)[i] = Sums(x)[i] * r
  BY <1>2, <1>3, <1>5, <1>6, SumsScale
<1>8. Sums(y)[Len(y)] = Sums(x)[Len(x)] * r
  BY <1>6, <1>7
<1>9. QED
  BY <1>8 DEF HeldOf, Total, x, y

\* A split scales what a purchase may be designated for with what is held of it,
\* and moves no loss.
LEMMA SplitCarries ==
  ASSUME NEW rows \in Seq(Rows), NEW id \in 1..Len(rows), rows[id].qty > 0, NEW t \in TaxBook(rows),
         \A i \in 1..Len(t.lots) : t.lots[i].unit % rows[id].qty = 0,
         NEW done, Since(rows, id, done), Fits(rows, t, done)
  PROVE  /\ Fits(rows, TaxSplit(rows, t, id), done)
         /\ Carried(rows, TaxSplit(rows, t, id)) = Carried(rows, t)
         /\ TaxSplit(rows, t, id).out = t.out
<1> DEFINE r == rows[id].qty
           old == t.lots
           lots == Multiplied(old, r)
           caps == [b \in DOMAIN t.caps |-> IF Before(rows, b, id) THEN t.caps[b] * r ELSE t.caps[b]]
           u == TaxSplit(rows, t, id)
<1>1. old \in Seq(TaxLot) /\ t.caps \in [Buys(rows) -> Int]
  BY DEF TaxBook
<1>2. r \in Nat \ {0}
  <2>1. r \in Int
    BY RowFields
  <2>2. QED
    BY <2>1
<1>3. u = [t EXCEPT !.lots = lots, !.caps = caps]
  BY DEF TaxSplit
<1>4. \A i \in 1..Len(old) : old[i].unit % r = 0
  OBVIOUS
<1> HIDE DEF r, old, u
<1>5. lots \in Seq(TaxLot) /\ Scaled(old, lots, r)
  BY <1>1, <1>2, SplitIs
<1>6. Cost(lots) = Cost(old)
  BY <1>1, <1>2, <1>4, CostScaled
<1>7. \A b \in Buys(rows) : caps[b] = IF b \in done THEN t.caps[b] * r ELSE t.caps[b]
  BY <1>1 DEF Since, HasLots
<1> HIDE DEF lots, caps
<1>8. u.lots = lots /\ u.caps = caps /\ u.pending = t.pending /\ u.out = t.out
  BY <1>3 DEF TaxBook
<1>9. ASSUME NEW b \in Buys(rows) PROVE Room(rows, u, done, b)
  <2>1. Room(rows, t, done, b)
    BY DEF Fits
  <2>2. CASE b \in done
    <3> DEFINE x == t.caps[b]
               y == HeldOf(old, b)
    <3>1. x \in Int /\ y \in Nat /\ x <= y
      BY <1>1, <2>1, <2>2, OfBuyIs DEF Room, old
    <3>2. HeldOf(lots, b) = y * r
      BY <1>1, <1>2, <1>5, HeldScaled
    <3>3. u.caps[b] = x * r
      BY <1>7, <1>8, <2>2
    <3> HIDE DEF x, y
    <3>4. x * r <= y * r
      BY <1>2, <3>1
    <3>5. u.caps[b] <= HeldOf(u.lots, b)
      BY <1>8, <3>2, <3>3, <3>4
    <3>6. QED
      BY <2>2, <3>5 DEF Room
  <2>3. CASE b \notin done
    <3>1. u.caps[b] = t.caps[b] /\ u.pending[b] = t.pending[b]
      BY <1>7, <1>8, <2>3
    <3>2. QED
      BY <2>1, <2>3, <3>1 DEF Room
  <2>4. QED
    BY <2>2, <2>3
<1>10. QED
  BY <1>6, <1>8, <1>9 DEF Fits, Carried, u, old

-----------------------------------------------------------------------------
\* What is reported so far is the profit realized, and the losses deferred: those
\* in the basis of lots, beyond what their shares cost, or owed.
Settled(rows, book, t, done) ==
  /\ Fits(rows, t, done)
  /\ Gained(t.out) - Carried(rows, t) = book.realized - book.cost
  /\ OnDays(rows, t.out)

\* A row that is not a purchase adds none to those replayed.
LEMMA FitsAlso ==
  ASSUME NEW rows, NEW t, NEW done, Fits(rows, t, done), NEW id, id \notin Buys(rows)
  PROVE  Fits(rows, t, done \cup {id})
<1>1. \A b \in Buys(rows) : Room(rows, t, done, b) /\ (b \in done \cup {id} <=> b \in done)
  BY DEF Fits
<1>2. QED
  BY <1>1 DEF Fits, Room

\* A purchase leaves the two engines settled.
LEMMA BoughtSettled ==
  ASSUME NEW rows \in Seq(Rows), NEW id \in Buys(rows), rows[id].qty > 0,
         NEW book \in Book, NEW t \in TaxBook(rows), NEW done, id \notin done, Settled(rows, book, t, done)
  PROVE  Settled(rows, Bought(book, rows[id], id), TaxBuy(rows, t, id), done \cup {id})
<1> DEFINE paid == rows[id].qty * rows[id].price
           b == Bought(book, rows[id], id)
           u == TaxBuy(rows, t, id)
           g == Gained(t.out)
<1>1. /\ Fits(rows, t, done) /\ g - Carried(rows, t) = book.realized - book.cost /\ OnDays(rows, t.out)
  BY DEF Settled
<1>2. Fits(rows, u, done \cup {id}) /\ Carried(rows, u) = Carried(rows, t) + paid /\ u.out = t.out
  BY <1>1, BuyCarries
<1>3. paid \in Int /\ book.cost \in Int /\ book.realized \in Int
  <2>1. rows[id].qty \in Int /\ rows[id].price \in Int
    BY RowFields DEF Buys
  <2>2. QED
    BY <2>1 DEF Book
<1>4. b.realized = book.realized /\ b.cost = book.cost + paid
  BY DEF Bought, Book
<1>5. Carried(rows, t) \in Int /\ g \in Int
  <2>1. t.out \in Seq(Closed)
    BY DEF TaxBook
  <2>2. QED
    BY <2>1, CarriedType, GainedIs
<1> HIDE DEF paid, b, u, g
<1>6. g - Carried(rows, u) = b.realized - b.cost
  BY <1>1, <1>2, <1>3, <1>4, <1>5
<1>7. QED
  BY <1>1, <1>2, <1>6 DEF Settled, b, u, g

\* A sale leaves the two engines settled.
LEMMA SoldSettled ==
  ASSUME NEW rows \in Seq(Rows), NEW id \in 1..Len(rows), rows[id].qty > 0,
         NEW book \in Book, NEW t \in TaxBook(rows), rows[id].qty <= Shares(t.lots),
         NEW done, Since(rows, id, done), OfThose(t.lots, done), Settled(rows, book, t, done)
  PROVE  Settled(rows, Sold(book, rows[id]), TaxSell(rows, t, id), done)
<1> DEFINE gain == rows[id].qty * rows[id].price
           basis == Cost(Taken(book.lots, rows[id].qty))
           b == Sold(book, rows[id])
           u == TaxSell(rows, t, id)
           g == Gained(t.out)
           h == Gained(u.out)
<1>1. /\ Fits(rows, t, done) /\ g - Carried(rows, t) = book.realized - book.cost /\ OnDays(rows, t.out)
  BY DEF Settled
<1>2. Closes(rows, t, u, gain, done)
  BY <1>1, TaxSellCarries
<1>3. Fits(rows, u, done) /\ h - Carried(rows, u) = (g - Carried(rows, t)) + gain /\ OnDays(rows, u.out)
  BY <1>1, <1>2 DEF Closes
<1>4. gain \in Int /\ basis \in Int /\ book.cost \in Int /\ book.realized \in Int
  <2>1. rows[id].qty \in Nat /\ rows[id].price \in Int
    BY RowFields
  <2>2. book.lots \in Seq(BookLot) /\ book.cost \in Int /\ book.realized \in Int
    BY DEF Book
  <2>3. gain \in Int
    BY <2>1
  <2> DEFINE l == book.lots
             n == rows[id].qty
             c == Taken(l, n)
  <2>4. l \in Seq(BookLot) /\ n \in Int
    BY <2>1, <2>2
  <2> HIDE DEF l, n
  <2>5. Counted(BookLot)
    BY LotTypes, StockCounted
  <2>6. c \in Seq(BookLot)
    BY <2>4, <2>5, TakenIs
  <2> HIDE DEF c
  <2>7. Cost(c) \in Int
    BY <2>6, CostType
  <2>8. QED
    BY <2>2, <2>3, <2>7 DEF c, l, n
<1>5. b.realized = book.realized + gain - basis /\ b.cost = book.cost - basis
  BY DEF Sold, Book
<1> HIDE DEF gain, basis, b, u, g, h
<1>6. h - Carried(rows, u) = b.realized - b.cost
  BY <1>1, <1>3, <1>4, <1>5
<1>7. QED
  BY <1>3, <1>6 DEF Settled, b, u, h

\* The units of lots a split divides have no remainder.
Divides(tx, lots) ==
  tx.kind = "split" /\ tx.qty > 0 => \A i \in 1..Len(lots) : lots[i].unit % tx.qty = 0

\* Every row that replays leaves the two engines settled.
LEMMA RowSettled ==
  ASSUME NEW rows \in Seq(Rows), NEW id \in 1..Len(rows), NEW book, NEW t, InStep(rows, book, t),
         NEW done, id \notin done, Since(rows, id, done), Ordered(t.lots, done),
         Settled(rows, book, t, done), Divides(rows[id], t.lots),
         ApplyTax(rows, t, id).fault = NoFault
  PROVE  Settled(rows, ApplyTx(rows, book, id), ApplyTax(rows, t, id), done \cup {id})
<1> DEFINE tx == rows[id]
           have == Shares(t.lots)
           fault == FaultOf(tx, id, have)
           b == ApplyTx(rows, book, id)
           u == ApplyTax(rows, t, id)
<1>1. /\ book \in Book /\ t \in TaxBook(rows) /\ book.fault = t.fault /\ book.qty = have
  BY DEF InStep, Balances, SameLine
<1>2. tx \in Rows /\ tx.kind \in Kinds /\ tx.qty \in Int /\ tx.price \in Int
  BY RowFields
<1>3. have \in Nat
  <2>1. t.lots \in Seq(TaxLot)
    BY <1>1 DEF TaxBook
  <2>2. QED
    BY <2>1, LotTypes, StockSums
<1> HIDE DEF have
<1>4. u.fault = NoFault
  BY DEF have
<1>5. u = IF t.fault # NoFault THEN t
          ELSE IF fault # NoFault THEN [t EXCEPT !.fault = fault]
          ELSE CASE tx.kind = "buy"   -> TaxBuy(rows, t, id)
                 [] tx.kind = "sell"  -> TaxSell(rows, t, id)
                 [] tx.kind = "split" -> TaxSplit(rows, t, id)
                 [] OTHER             -> t
  BY DEF ApplyTax, have
<1>6. b = IF t.fault # NoFault THEN book
          ELSE IF fault # NoFault THEN [book EXCEPT !.fault = fault]
          ELSE CASE tx.kind = "buy"      -> Bought(book, tx, id)
                 [] tx.kind = "sell"     -> Sold(book, tx)
                 [] tx.kind = "split"    -> Split(book, tx)
                 [] tx.kind = "dividend" -> Dividend(book, tx)
                 [] tx.kind = "deposit"  -> Moved(book, tx.price)
                 [] tx.kind = "withdrawal" -> Moved(book, 0 - tx.price)
  BY <1>1 DEF ApplyTx
<1>7. fault = NoFault /\ tx.kind \in {"buy", "sell", "split"} => tx.qty > 0
  BY <1>2 DEF FaultOf, Malformed, Trade, NoFault
<1>8. fault = NoFault /\ tx.kind = "sell" => tx.qty <= have
  BY <1>2, <1>3 DEF FaultOf, Malformed, Oversells, Trade, NoFault
<1> HIDE DEF b, u, fault
<1>9. t.fault = NoFault /\ fault = NoFault
  <2>1. t.fault = NoFault
    BY <1>4, <1>5
  <2>2. CASE fault # NoFault
    <3>1. u = [t EXCEPT !.fault = fault]
      BY <1>5, <2>1, <2>2
    <3>2. u.fault = fault
      BY <1>1, <3>1 DEF TaxBook
    <3>3. QED
      BY <1>4, <2>2, <3>2
  <2>3. QED
    BY <2>1, <2>2
<1>10. ASSUME id \notin Buys(rows), Settled(rows, b, u, done)
       PROVE  Settled(rows, b, u, done \cup {id})
  <2>1. Fits(rows, u, done \cup {id})
    BY <1>10, FitsAlso DEF Settled
  <2>2. QED
    BY <1>10, <2>1 DEF Settled
<1>11. CASE tx.kind = "buy"
  <2>1. b = Bought(book, tx, id) /\ u = TaxBuy(rows, t, id)
    BY <1>5, <1>6, <1>9, <1>11
  <2>2. id \in Buys(rows) /\ rows[id].qty > 0
    BY <1>7, <1>9, <1>11 DEF Buys
  <2>3. Settled(rows, Bought(book, rows[id], id), TaxBuy(rows, t, id), done \cup {id})
    BY <1>1, <2>2, BoughtSettled
  <2>4. QED
    BY <2>1, <2>3 DEF b, u
<1>12. CASE tx.kind = "sell"
  <2>1. b = Sold(book, tx) /\ u = TaxSell(rows, t, id)
    BY <1>5, <1>6, <1>9, <1>12
  <2>2. id \notin Buys(rows) /\ rows[id].qty > 0 /\ rows[id].qty <= Shares(t.lots)
    BY <1>7, <1>8, <1>9, <1>12 DEF Buys, have
  <2>3. OfThose(t.lots, done)
    BY DEF Ordered
  <2>4. Settled(rows, Sold(book, rows[id]), TaxSell(rows, t, id), done)
    BY <1>1, <2>2, <2>3, SoldSettled
  <2>5. QED
    BY <1>10, <2>1, <2>2, <2>4 DEF b, u
<1>13. CASE tx.kind = "split"
  <2>1. b = Split(book, tx) /\ u = TaxSplit(rows, t, id)
    BY <1>5, <1>6, <1>9, <1>13
  <2>2. id \notin Buys(rows) /\ rows[id].qty > 0
    BY <1>7, <1>9, <1>13 DEF Buys
  <2>3. \A i \in 1..Len(t.lots) : t.lots[i].unit % rows[id].qty = 0
    BY <1>13, <2>2 DEF Divides
  <2>4. Fits(rows, t, done)
    BY DEF Settled
  <2>5. /\ Fits(rows, TaxSplit(rows, t, id), done)
        /\ Carried(rows, TaxSplit(rows, t, id)) = Carried(rows, t)
        /\ TaxSplit(rows, t, id).out = t.out
    BY <1>1, <2>2, <2>3, <2>4, SplitCarries
  <2>6. b.cost = book.cost /\ b.realized = book.realized
    BY <1>1, <2>1 DEF Split, Book
  <2>7. Settled(rows, b, u, done)
    BY <2>1, <2>5, <2>6 DEF Settled
  <2>8. QED
    BY <1>10, <2>2, <2>7 DEF b, u
<1>14. CASE tx.kind \in {"dividend", "deposit", "withdrawal"}
  <2>1. u = t /\ id \notin Buys(rows)
    BY <1>5, <1>9, <1>14 DEF Buys
  <2>2. b.cost = book.cost /\ b.realized = book.realized
    <3>1. CASE tx.kind = "dividend"
      <4>1. b = Dividend(book, tx)
        BY <1>6, <1>9, <3>1
      <4>2. QED
        BY <1>1, <4>1 DEF Dividend, Book
    <3>2. CASE tx.kind = "deposit"
      <4>1. b = Moved(book, tx.price)
        BY <1>6, <1>9, <3>2
      <4>2. QED
        BY <1>1, <4>1 DEF Moved, Book
    <3>3. CASE tx.kind = "withdrawal"
      <4>1. b = Moved(book, 0 - tx.price)
        BY <1>6, <1>9, <3>3
      <4>2. QED
        BY <1>1, <4>1 DEF Moved, Book
    <3>4. QED
      BY <1>14, <3>1, <3>2, <3>3
  <2>3. Settled(rows, b, u, done)
    BY <2>1, <2>2 DEF Settled
  <2>4. QED
    BY <1>10, <2>1, <2>3 DEF b, u
<1>15. QED
  BY <1>2, <1>11, <1>12, <1>13, <1>14 DEF Kinds

\* A row has after it the purchases that the order of replay puts before it.
LEMMA SinceDone ==
  ASSUME NEW rows \in Seq(Rows), NEW k \in 1..Len(rows)
  PROVE  Since(rows, ReplayOrder(rows)[k], Done(rows, k - 1))
<1> DEFINE n == Len(rows)
           order == ReplayOrder(rows)
<1>1. /\ n \in Nat /\ Permutes(order, n)
      /\ \A i, j \in 1..n : i < j <=> Before(rows, order[i], order[j])
  BY ReplayOrderIs
<1>2. Buys(rows) \subseteq 1..n
  BY DEF Buys
<1> HIDE DEF n, order
<1>3. ASSUME NEW b \in Buys(rows)
      PROVE  Before(rows, b, order[k]) <=> b \in {order[j] : j \in 1..(k - 1)}
  <2>1. PICK l \in 1..n : order[l] = b
    BY <1>1, <1>2 DEF Permutes
  <2>2. l < k <=> Before(rows, b, order[k])
    BY <1>1, <2>1 DEF n
  <2>3. \A j \in 1..n : order[j] = order[l] => j = l
    BY <1>1 DEF Permutes
  <2>4. \A j \in 1..(k - 1) : j \in 1..n /\ j < k
    BY <1>1 DEF n
  <2>5. l < k => l \in 1..(k - 1)
    BY <1>1 DEF n
  <2>6. QED
    BY <2>1, <2>2, <2>3, <2>4, <2>5
<1>4. QED
  BY <1>3 DEF Since, HasLots, Done, order

\* The empty books are settled.
LEMMA EmptySettled ==
  ASSUME NEW rows \in Seq(Rows)
  PROVE  Settled(rows, EmptyBook, EmptyTaxBook(rows), {})
<1> DEFINE t == EmptyTaxBook(rows)
           none == <<>>
<1>1. /\ t.lots = none /\ t.out = none /\ t.pending = [b \in Buys(rows) |-> none]
      /\ t.caps = [b \in Buys(rows) |-> rows[b].qty]
  BY DEF EmptyTaxBook
<1>2. EmptyBook.realized = 0 /\ EmptyBook.cost = 0
  BY DEF EmptyBook
<1>3. Gained(none) = 0
  BY GainedIs
<1>4. Owed(rows, [b \in Buys(rows) |-> none]) = 0
  BY OwedNothing
<1>5. none \in Seq(TaxLot) /\ Cost(none) = 0
  <2>1. none \in Seq(TaxLot)
    OBVIOUS
  <2>2. Stock(TaxLot) /\ Rates(TaxLot, UnitOf(TaxLot))
        /\ \A s \in Seq(TaxLot) : Cost(s) = Worth(TaxLot, UnitOf(TaxLot), s)
    BY CostIsWorth
  <2>3. QED
    BY <2>1, <2>2, WorthNone
<1>6. Shares(none) = 0
  BY LotTypes, SharesOfNone
<1>7. \A b \in Buys(rows) : rows[b].qty \in Int
  BY RowFields DEF Buys
<1>8. OnDays(rows, none)
  BY DEF OnDays
<1> HIDE DEF t, none
<1>9. Carried(rows, t) = 0
  BY <1>1, <1>4, <1>5 DEF Carried
<1>10. \A b \in Buys(rows) : t.pending[b] = none /\ t.caps[b] = rows[b].qty
  BY <1>1
<1>11. \A b \in Buys(rows) : Room(rows, t, {}, b)
  BY <1>6, <1>7, <1>10 DEF Room
<1>12. Settled(rows, EmptyBook, t, {})
  BY <1>1, <1>2, <1>3, <1>8, <1>9, <1>11 DEF Settled, Fits
<1>13. QED
  BY <1>12 DEF t

\* A log that replays is settled after each of its rows.
LEMMA BooksSettled ==
  ASSUME NEW rows \in Seq(Rows), Exact(rows)
  PROVE  \A k \in 0..Len(rows) :
            TaxBooks(rows)[k].fault = NoFault =>
               Settled(rows, Books(rows)[k], TaxBooks(rows)[k], Done(rows, k))
<1> DEFINE n == Len(rows)
           good(k) == TaxBooks(rows)[k].fault = NoFault =>
                         Settled(rows, Books(rows)[k], TaxBooks(rows)[k], Done(rows, k))
           S == {k \in 0..n : good(k)}
<1>1. n \in Nat /\ \A k \in 1..n : ReplayOrder(rows)[k] \in 1..Len(rows) /\ k - 1 \in 0..n /\ k \in 0..n
  BY OrderIn
<1>2. BooksAre(rows)
  BY ReplaysAre
<1>3. 0 \in S
  <2>1. good(0)
    BY <1>2, DoneIs, EmptySettled DEF BooksAre
  <2> HIDE DEF good
  <2>2. QED
    BY <1>1, <2>1
<1>4. \A k \in 1..n : k - 1 \in S => k \in S
  <2> TAKE k \in 1..n
  <2> HAVE k - 1 \in S
  <2> DEFINE t == TaxBooks(rows)[k - 1]
             b == Books(rows)[k - 1]
             id == ReplayOrder(rows)[k]
             done == Done(rows, k - 1)
  <2>1. /\ t.fault = NoFault => Settled(rows, b, t, done)
        /\ InStep(rows, b, t) /\ id \in 1..Len(rows) /\ Ordered(t.lots, done)
    BY <1>1, BooksInStep, BooksOrdered
  <2>2. /\ id \notin done /\ Done(rows, k) = done \cup {id}
        /\ TaxBooks(rows)[k] = ApplyTax(rows, t, id) /\ Books(rows)[k] = ApplyTx(rows, b, id)
    BY <1>2, DoneIs DEF BooksAre
  <2>3. Since(rows, id, done)
    BY SinceDone
  <2>4. Divides(rows[id], t.lots)
    <3>1. t.lots \in Seq(TaxLot)
      BY <2>1 DEF InStep, TaxBook
    <3>2. DOMAIN t.lots = 1..Len(t.lots) /\ k \in DOMAIN rows
      BY <3>1
    <3>3. rows[id].kind = "split" /\ rows[id].qty > 0 =>
             \A i \in DOMAIN t.lots : t.lots[i].unit % rows[id].qty = 0
      BY <3>2 DEF Exact
    <3>4. QED
      BY <3>2, <3>3 DEF Divides
  <2> HIDE DEF t, b, id, done
  <2>5. ASSUME ApplyTax(rows, t, id).fault = NoFault
        PROVE  Settled(rows, ApplyTx(rows, b, id), ApplyTax(rows, t, id), done \cup {id})
    <3>1. t.fault = NoFault
      BY <2>5 DEF ApplyTax
    <3>2. QED
      BY <2>1, <2>2, <2>3, <2>4, <2>5, <3>1, RowSettled
  <2>6. good(k)
    BY <2>2, <2>5
  <2> HIDE DEF good
  <2>7. QED
    BY <1>1, <2>6
<1>5. \A k \in 0..n : k \in S
  <2> HIDE DEF S, n
  <2>1. QED
    BY <1>1, <1>3, <1>4, UpTo
<1>6. QED
  BY <1>5

-----------------------------------------------------------------------------
(* The report: the years and the two terms share out what was gained.       *)

\* The amounts of a of one class, and those of the first k classes.
OfClass(a, class, y) == [i \in 1..Len(a) |-> IF class[i] = y THEN a[i] ELSE 0]
OfFirst(a, class, ys, k) ==
  [i \in 1..Len(a) |-> IF \E j \in 1..k : ys[j] = class[i] THEN a[i] ELSE 0]

\* r sums a by class: each of the classes ys once, and no other.
SumsByClass(r, a, class, ys) ==
  /\ \A j, l \in 1..Len(r) : ys[j] = ys[l] => j = l
  /\ \A j \in 1..Len(r) : r[j] = Total(OfClass(a, class, ys[j]))
  /\ \A i \in 1..Len(a) : \E j \in 1..Len(r) : ys[j] = class[i]

\* Amounts added class by class add up to the same.
LEMMA ByClass ==
  ASSUME NEW a \in Seq(Int), NEW class, NEW ys, NEW r \in Seq(Int), SumsByClass(r, a, class, ys)
  PROVE  Total(r) = Total(a)
<1> DEFINE m == Len(r)
           c(k) == OfFirst(a, class, ys, k)
           good(k) == Sums(r)[k] = Total(c(k))
           S == {k \in 0..m : good(k)}
<1>0. /\ \A j, l \in 1..Len(r) : ys[j] = ys[l] => j = l
      /\ \A j \in 1..Len(r) : r[j] = Total(OfClass(a, class, ys[j]))
      /\ \A i \in 1..Len(a) : \E j \in 1..Len(r) : ys[j] = class[i]
  BY DEF SumsByClass
<1>1. m \in Nat /\ Len(a) \in Nat /\ \A i \in 1..Len(a) : a[i] \in Int
  OBVIOUS
<1>2. /\ Sums(r)[0] = 0
      /\ \A k \in 1..m : Sums(r)[k] = Sums(r)[k - 1] + r[k] /\ Sums(r)[k - 1] \in Int /\ r[k] \in Int
  BY SumsAre
<1>3. \A k : c(k) \in Seq(Int) /\ Len(c(k)) = Len(a)
             /\ \A i \in 1..Len(a) : c(k)[i] = IF \E j \in 1..k : ys[j] = class[i] THEN a[i] ELSE 0
  BY <1>1 DEF OfFirst
<1> HIDE DEF c
<1>4. 0 \in S
  <2> DEFINE z == c(0)
  <2>1. z \in Seq(Int) /\ \A i \in 1..Len(z) : z[i] = 0
    BY <1>3
  <2> HIDE DEF z
  <2>2. Total(z) = 0
    BY <2>1, TotalZero
  <2>3. QED
    BY <1>1, <1>2, <2>2 DEF z
<1>5. \A k \in 1..m : k - 1 \in S => k \in S
  <2> TAKE k \in 1..m
  <2> HAVE k - 1 \in S
  <2> DEFINE x == c(k - 1)
             y == OfClass(a, class, ys[k])
             z == c(k)
  <2>1. /\ x \in Seq(Int) /\ Len(x) = Len(a)
        /\ \A i \in 1..Len(a) : x[i] = IF \E j \in 1..(k - 1) : ys[j] = class[i] THEN a[i] ELSE 0
    BY <1>3
  <2>2. /\ z \in Seq(Int) /\ Len(z) = Len(a)
        /\ \A i \in 1..Len(a) : z[i] = IF \E j \in 1..k : ys[j] = class[i] THEN a[i] ELSE 0
    BY <1>3
  <2>3. /\ y \in Seq(Int) /\ Len(y) = Len(a)
        /\ \A i \in 1..Len(a) : y[i] = IF class[i] = ys[k] THEN a[i] ELSE 0
    BY <1>1 DEF OfClass
  <2>4. r[k] = Total(y)
    BY <1>0
  <2>5. 1..k = 1..(k - 1) \cup {k} /\ \A j \in 1..(k - 1) : j \in 1..m /\ j # k
    BY <1>1
  <2>6. \A j \in 1..(k - 1) : ys[j] # ys[k]
    BY <1>0, <2>5
  <2> HIDE DEF x, y, z, m
  <2>7. \A i \in 1..Len(x) : z[i] = x[i] + y[i]
    <3> TAKE i \in 1..Len(x)
    <3> DEFINE was == \E j \in 1..(k - 1) : ys[j] = class[i]
               is  == \E j \in 1..k : ys[j] = class[i]
               new == class[i] = ys[k]
    <3>0. i \in 1..Len(a)
      BY <2>1
    <3>1. a[i] \in Int
      BY <1>1, <3>0
    <3>2. (is <=> was \/ new) /\ ~(was /\ new)
      BY <2>5, <2>6
    <3>3. /\ x[i] = IF was THEN a[i] ELSE 0
          /\ z[i] = IF is THEN a[i] ELSE 0
          /\ y[i] = IF new THEN a[i] ELSE 0
      BY <2>1, <2>2, <2>3, <3>0
    <3> DEFINE e == a[i]
    <3> HIDE DEF was, is, new, e
    <3>4. e \in Int /\ x[i] = (IF was THEN e ELSE 0) /\ z[i] = (IF is THEN e ELSE 0)
          /\ y[i] = (IF new THEN e ELSE 0)
      BY <3>1, <3>3 DEF e
    <3>5. QED
      BY <3>2, <3>4
  <2>a. x \in Seq(Int) /\ y \in Seq(Int) /\ z \in Seq(Int) /\ Len(y) = Len(x) /\ Len(z) = Len(x)
    BY <2>1, <2>2, <2>3
  <2>8. \A l \in 0..Len(x) : Sums(z)[l] = Sums(x)[l] + Sums(y)[l]
    BY <2>a, <2>7, SumsAdd
  <2>9. Total(z) = Total(x) + Total(y)
    <3>1. Len(x) \in 0..Len(x) /\ Len(y) = Len(x) /\ Len(z) = Len(x)
      BY <2>1, <2>2, <2>3
    <3>2. QED
      BY <2>8, <3>1 DEF Total
  <2>10. Sums(r)[k - 1] = Total(x)
    BY DEF x
  <2>11. good(k)
    BY <1>2, <2>4, <2>9, <2>10 DEF z
  <2> HIDE DEF good
  <2>12. QED
    BY <1>1, <2>11 DEF m
<1>6. \A k \in 0..m : k \in S
  <2> HIDE DEF S, m
  <2>1. QED
    BY <1>1, <1>4, <1>5, UpTo
<1>7. Sums(r)[m] = Total(c(m))
  BY <1>1, <1>6
<1>8. c(m) = a
  <2> DEFINE z == c(m)
  <2>1. z \in Seq(Int) /\ Len(z) = Len(a) /\ \A i \in 1..Len(a) : z[i] = a[i]
    <3>1. z \in Seq(Int) /\ Len(z) = Len(a)
          /\ \A i \in 1..Len(a) : z[i] = IF \E j \in 1..m : ys[j] = class[i] THEN a[i] ELSE 0
      BY <1>3
    <3>2. QED
      BY <1>0, <3>1
  <2> HIDE DEF z
  <2>2. z = [i \in 1..Len(z) |-> z[i]] /\ a = [i \in 1..Len(a) |-> a[i]]
    BY <2>1
  <2>3. z = a
    BY <2>1, <2>2
  <2>4. QED
    BY <2>3 DEF z
<1>9. QED
  BY <1>7, <1>8 DEF Total

\* What was gained at the places of S.
LEMMA ChosenGained ==
  ASSUME NEW out \in Seq(Closed), NEW S
  PROVE  /\ Gained(Chosen(out, S)) = Total([i \in 1..Len(out) |-> IF i \in S THEN Gain(out[i]) ELSE 0])
         /\ [i \in 1..Len(out) |-> IF i \in S THEN Gain(out[i]) ELSE 0] \in Seq(Int)
<1> DEFINE c == Chosen(out, S)
<1>1. c \in Seq(Closed)
  BY ChosenIs
<1>2. GainOf \in [Closed -> Int] /\ \A d \in Closed : GainOf[d] = Gain(d) /\ Gain(d) \in Int
  BY GainedIs
<1> DEFINE w == GainOf
           T == Closed
<1>a. w \in [T -> Int] /\ out \in Seq(T)
  BY <1>2
<1> HIDE DEF w, c, T
<1>3. Total([j \in DOMAIN Chosen(out, S) |-> w[Chosen(out, S)[j]]])
        = Total([i \in DOMAIN out |-> IF i \in S THEN w[out[i]] ELSE 0])
  BY <1>a, ChosenTotal
<1>4. Gained(c) = Total([j \in DOMAIN Chosen(out, S) |-> w[Chosen(out, S)[j]]])
  <2>1. Gained(c) = Total(Weights(w, c))
    BY <1>1, GainedIs DEF w
  <2>2. QED
    BY <2>1 DEF Weights, c
<1>5. DOMAIN out = 1..Len(out) /\ \A i \in 1..Len(out) : out[i] \in Closed /\ Gain(out[i]) \in Int
  BY <1>2
<1>6. [i \in DOMAIN out |-> IF i \in S THEN w[out[i]] ELSE 0]
        = [i \in 1..Len(out) |-> IF i \in S THEN Gain(out[i]) ELSE 0]
  BY <1>2, <1>5 DEF w
<1>7. [i \in 1..Len(out) |-> IF i \in S THEN Gain(out[i]) ELSE 0] \in Seq(Int)
  BY <1>5
<1>8. QED
  BY <1>3, <1>4, <1>6, <1>7 DEF c

ReportedIn(out, y) == TaxReport(out, y).short.reportable + TaxReport(out, y).long.reportable

\* What the report of a year adds up to, both terms together.
LEMMA ReportedIs ==
  ASSUME NEW out \in Seq(Closed), NEW y
  PROVE  ReportedIn(out, y) = Total([i \in 1..Len(out) |->
                                      IF Year(out[i].sold) = y THEN Gain(out[i]) ELSE 0])
         /\ ReportedIn(out, y) \in Int
<1> DEFINE term(long) == {i \in DOMAIN out : Year(out[i].sold) = y /\ LongTerm(out[i]) = long}
           part(long) == [i \in 1..Len(out) |-> IF i \in term(long) THEN Gain(out[i]) ELSE 0]
           all == [i \in 1..Len(out) |-> IF Year(out[i].sold) = y THEN Gain(out[i]) ELSE 0]
           a == part(FALSE)
           b == part(TRUE)
<1>1. \A s : TermTotals(s).reportable = Gained(s)
  BY DEF TermTotals, Gained, Gain
<1>2. TaxReport(out, y).short = TermTotals(Chosen(out, term(FALSE)))
      /\ TaxReport(out, y).long = TermTotals(Chosen(out, term(TRUE)))
  BY DEF TaxReport
<1>3. ReportedIn(out, y) = Gained(Chosen(out, term(FALSE))) + Gained(Chosen(out, term(TRUE)))
  <2> HIDE DEF term
  <2>1. QED
    BY <1>1, <1>2 DEF ReportedIn
<1>4. Gained(Chosen(out, term(FALSE))) = Total(a) /\ a \in Seq(Int)
  <2> HIDE DEF term
  <2>1. QED
    BY ChosenGained
<1>5. Gained(Chosen(out, term(TRUE))) = Total(b) /\ b \in Seq(Int)
  <2> HIDE DEF term
  <2>1. QED
    BY ChosenGained
<1>6. Len(a) = Len(out) /\ Len(b) = Len(out) /\ Len(out) \in Nat /\ all \in Seq(Int) /\ Len(all) = Len(out)
  <2>1. \A i \in 1..Len(out) : out[i] \in Closed
    OBVIOUS
  <2>2. \A i \in 1..Len(out) : Gain(out[i]) \in Int
    BY <2>1, GainedIs
  <2> HIDE DEF term
  <2>3. QED
    BY <2>2
<1>7. \A i \in 1..Len(a) : all[i] = a[i] + b[i]
  <2> TAKE i \in 1..Len(a)
  <2>1. i \in 1..Len(out) /\ DOMAIN out = 1..Len(out) /\ LongTerm(out[i]) \in BOOLEAN
    BY <1>6 DEF LongTerm
  <2>2. Gain(out[i]) \in Int
    <3>1. out[i] \in Closed
      BY <2>1
    <3>2. QED
      BY <3>1, GainedIs
  <2> DEFINE g == Gain(out[i])
             in == Year(out[i].sold) = y
             l == LongTerm(out[i])
  <2>3. /\ a[i] = IF in /\ l = FALSE THEN g ELSE 0
        /\ b[i] = IF in /\ l = TRUE THEN g ELSE 0
        /\ all[i] = IF in THEN g ELSE 0
    BY <1>6, <2>1
  <2>4. g \in Int /\ l \in BOOLEAN
    BY <2>1, <2>2
  <2> HIDE DEF g, in, l, a, b, all
  <2>5. QED
    BY <2>3, <2>4
<1> HIDE DEF a, b, all
<1>a. a \in Seq(Int) /\ b \in Seq(Int) /\ all \in Seq(Int) /\ Len(b) = Len(a) /\ Len(all) = Len(a)
  BY <1>4, <1>5, <1>6
<1>8. \A k \in 0..Len(a) : Sums(all)[k] = Sums(a)[k] + Sums(b)[k]
  BY <1>a, <1>7, SumsAdd
<1>9. Len(a) \in 0..Len(a) /\ Len(b) = Len(a) /\ Len(all) = Len(a)
  BY <1>6
<1>10. Total(all) = Total(a) + Total(b)
  BY <1>8, <1>9 DEF Total
<1>11. Total(all) \in Int
  BY <1>6, <1>9, SumsAre DEF Total
<1>12. QED
  BY <1>3, <1>4, <1>5, <1>10, <1>11 DEF all

\* The years of a log, in order.
YearsInLine(rows) == InLine(Years(rows), {p \in Years(rows) \X Years(rows) : p[1] < p[2]})

\* The years of a log stand in line once each.
LEMMA YearsAre ==
  ASSUME NEW rows \in Seq(Rows)
  PROVE  /\ Cardinality(Years(rows)) \in Nat
         /\ YearsInLine(rows) \in [1..Cardinality(Years(rows)) -> Years(rows)]
         /\ \A k, l \in 1..Cardinality(Years(rows)) : YearsInLine(rows)[k] = YearsInLine(rows)[l] => k = l
         /\ \A i \in 1..Len(rows) : \E k \in 1..Cardinality(Years(rows)) :
               YearsInLine(rows)[k] = Year(Day(rows[i].ts))
<1> DEFINE D == DOMAIN rows
           n == Len(rows)
           S == Years(rows)
           R == {p \in S \X S : p[1] < p[2]}
<1>1. n \in Nat /\ D = 1..n /\ \A i \in D : rows[i].ts \in Int
  BY RowFields
<1>2. IsFiniteSet(S)
  <2>1. IsFiniteSet(D)
    <3>1. 1 \in Int /\ n \in Int
      BY <1>1
    <3> HIDE DEF n, D
    <3>2. QED
      BY <1>1, <3>1, FS_Interval
  <2> DEFINE f == [i \in D |-> Year(Day(rows[i].ts))]
  <2>2. f \in Surjection(D, S)
    BY DEF Years, Surjection
  <2> HIDE DEF f, D, S
  <2>3. QED
    BY <2>1, <2>2, FS_Surjection
<1>3. \A y \in S : y \in Int
  <2>1. \A i \in D : Day(rows[i].ts) \in Int
    BY <1>1, DayType
  <2>2. \A d \in Int : Year(d) \in Int
    BY WindowAssumption DEF Year
  <2>3. QED
    BY <2>1, <2>2 DEF Years
<1> HIDE DEF S
<1>4. \A i, j \in S : <<i, j>> \in R <=> i < j
  OBVIOUS
<1>5. StrictOrder(S, R)
  <2>1. \A i \in S : ~(i < i)
    BY <1>3
  <2>2. \A i, j, k \in S : i < j /\ j < k => i < k
    BY <1>3
  <2>3. \A i, j \in S : i # j => i < j \/ j < i
    BY <1>3
  <2> HIDE DEF R
  <2>4. QED
    BY <1>4, <2>1, <2>2, <2>3 DEF StrictOrder
<1>6. YearsInLine(rows) = InLine(S, R)
  BY DEF YearsInLine, S
<1> HIDE DEF R
<1>7. /\ Cardinality(S) \in Nat /\ InLine(S, R) \in [1..Cardinality(S) -> S]
      /\ \A k, l \in 1..Cardinality(S) : InLine(S, R)[k] = InLine(S, R)[l] => k = l
      /\ \A i \in S : \E k \in 1..Cardinality(S) : InLine(S, R)[k] = i
  BY <1>2, <1>5, LineIs
<1>8. \A i \in 1..Len(rows) : Year(Day(rows[i].ts)) \in S
  BY <1>1 DEF S, Years
<1>9. QED
  BY <1>6, <1>7, <1>8 DEF S

\* The report of all years adds up to what was gained.
LEMMA AllReported ==
  ASSUME NEW rows \in Seq(Rows), NEW out \in Seq(Closed), OnDays(rows, out)
  PROVE  Total([i \in DOMAIN YearsInLine(rows) |-> ReportedIn(out, YearsInLine(rows)[i])]) = Gained(out)
<1> DEFINE ys == YearsInLine(rows)
           m == Cardinality(Years(rows))
           r == [i \in 1..m |-> ReportedIn(out, ys[i])]
           class == [i \in 1..Len(out) |-> Year(out[i].sold)]
           a == [i \in 1..Len(out) |-> Gain(out[i])]
<1>1. /\ m \in Nat /\ DOMAIN ys = 1..m /\ \A k, l \in 1..m : ys[k] = ys[l] => k = l
      /\ \A i \in 1..Len(rows) : \E k \in 1..m : ys[k] = Year(Day(rows[i].ts))
  BY YearsAre
<1>2. \A y : ReportedIn(out, y) \in Int
  BY ReportedIs
<1> HIDE DEF ys, m
<1>3. r \in Seq(Int) /\ Len(r) = m /\ \A i \in 1..m : r[i] = ReportedIn(out, ys[i])
  BY <1>1, <1>2
<1>4. \A i \in 1..Len(out) : out[i] \in Closed /\ Gain(out[i]) \in Int
  <2>1. \A i \in 1..Len(out) : out[i] \in Closed
    OBVIOUS
  <2>2. QED
    BY <2>1, GainedIs
<1>5. a \in Seq(Int) /\ Len(a) = Len(out) /\ \A i \in 1..Len(out) : a[i] = Gain(out[i])
  BY <1>4
<1>6. \A i \in 1..Len(out) : class[i] = Year(out[i].sold)
  OBVIOUS
<1> HIDE DEF class
<1>7. \A i \in 1..Len(a) : \E j \in 1..m : ys[j] = class[i]
  <2> TAKE i \in 1..Len(a)
  <2>1. PICK j \in 1..Len(rows) : out[i].sold = Day(rows[j].ts)
    BY <1>5 DEF OnDays
  <2>2. class[i] = Year(Day(rows[j].ts))
    BY <1>5, <1>6, <2>1
  <2>3. QED
    BY <1>1, <2>2
<1> HIDE DEF r
<1>8. \A j \in 1..m : r[j] = Total(OfClass(a, class, ys[j]))
  <2> TAKE j \in 1..m
  <2> DEFINE y == ys[j]
  <2>1. ReportedIn(out, y) = Total([i \in 1..Len(out) |-> IF Year(out[i].sold) = y THEN Gain(out[i]) ELSE 0])
    BY ReportedIs
  <2>2. r[j] = ReportedIn(out, y)
    BY <1>3
  <2> HIDE DEF y
  <2>3. OfClass(a, class, y) = [i \in 1..Len(out) |-> IF Year(out[i].sold) = y THEN Gain(out[i]) ELSE 0]
    BY <1>5, <1>6 DEF OfClass
  <2>4. QED
    BY <2>1, <2>2, <2>3 DEF y
<1> HIDE DEF a
<1>9. Total(r) = Total(a)
  <2>1. \A j, l \in 1..Len(r) : ys[j] = ys[l] => j = l
    BY <1>1, <1>3
  <2>2. \A j \in 1..Len(r) : r[j] = Total(OfClass(a, class, ys[j]))
    BY <1>3, <1>8
  <2>3. \A i \in 1..Len(a) : \E j \in 1..Len(r) : ys[j] = class[i]
    BY <1>3, <1>7
  <2>4. r \in Seq(Int) /\ a \in Seq(Int) /\ SumsByClass(r, a, class, ys)
    BY <1>3, <1>5, <2>1, <2>2, <2>3 DEF SumsByClass
  <2>5. QED
    BY <2>4, ByClass
<1>10. Gained(out) = Total(a)
  <2>1. DOMAIN out = 1..Len(out)
    OBVIOUS
  <2>2. [i \in DOMAIN out |-> Gain(out[i])] = a
    BY <2>1 DEF a
  <2>3. QED
    BY <2>2 DEF Gained
<1>11. [i \in DOMAIN YearsInLine(rows) |-> ReportedIn(out, YearsInLine(rows)[i])] = r
  BY <1>1 DEF ys, r
<1>12. QED
  BY <1>9, <1>10, <1>11

\* Every log that replays, and whose splits divide its prices, conserves what was
\* gained and lost.
THEOREM LossesNeverLost ==
  \A rows \in Seq(Rows) : Replays(rows) /\ Exact(rows) => Conserves(rows)
<1> SUFFICES ASSUME NEW rows \in Seq(Rows), Replays(rows), Exact(rows) PROVE Conserves(rows)
  OBVIOUS
<1> DEFINE n == Len(rows)
           book == Books(rows)[n]
           t == TaxBooks(rows)[n]
           out == t.out
<1>1. n \in Nat /\ n \in 0..n
  OBVIOUS
<1>2. InStep(rows, book, t)
  BY <1>1, BooksInStep
<1>3. t \in TaxBook(rows) /\ book \in Book /\ t.fault = NoFault
  BY <1>2 DEF InStep, Replays, ComputeBasis
<1>4. Settled(rows, book, t, Done(rows, n))
  BY <1>1, <1>3, BooksSettled
<1> HIDE DEF book, t, n
<1>5. Gained(out) - Carried(rows, t) = book.realized - book.cost /\ OnDays(rows, out)
  BY <1>4 DEF Settled
<1>6. out \in Seq(Closed)
  BY <1>3 DEF TaxBook
<1>7. Gained(out) \in Int /\ Carried(rows, t) \in Int /\ book.realized \in Int /\ book.cost \in Int
  BY <1>3, <1>6, CarriedType, GainedIs DEF Book
<1>8. Carried(rows, t) = Cost(t.lots) + Owed(rows, t.pending)
  BY DEF Carried
<1>9. Gained(out) = book.realized + (Cost(t.lots) + Owed(rows, t.pending) - book.cost)
  <2> DEFINE x == Cost(t.lots)
             y == Owed(rows, t.pending)
             g == Gained(out)
  <2>1. x \in Int /\ y \in Int /\ g \in Int /\ g - (x + y) = book.realized - book.cost
    BY <1>3, <1>5, <1>7, <1>8, CarriedType
  <2> HIDE DEF x, y, g
  <2>2. g = book.realized + (x + y - book.cost)
    BY <1>7, <2>1
  <2>3. QED
    BY <2>2 DEF x, y, g
<1>10. Total([i \in DOMAIN YearsInLine(rows) |-> ReportedIn(out, YearsInLine(rows)[i])]) = Gained(out)
  BY <1>5, <1>6, AllReported
<1>11. Total([i \in DOMAIN YearsInLine(rows) |-> ReportedIn(out, YearsInLine(rows)[i])])
         = book.realized + (Cost(t.lots) + Owed(rows, t.pending) - book.cost)
  BY <1>9, <1>10
<1>12. ComputeBasis(rows) = book /\ TaxDisposals(rows) = t
  BY DEF ComputeBasis, TaxDisposals, book, t, n
<1>13. QED
  BY <1>11, <1>12 DEF Conserves, ReportedIn, YearsInLine

\* taxes.rs:4-11: in every state of the log whose rows replay and whose splits divide the
\* prices, a disallowed loss is deferred, never erased and never counted twice.
THEOREM LedgerLossDeferred == Spec => []LossDeferred
<1>1. TypeOK => LossDeferred
  BY LossesNeverLost DEF TypeOK, LossDeferred
<1>2. QED
  BY <1>1, LedgerType, PTL
=============================================================================
