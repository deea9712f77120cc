------------------------------ MODULE Division ------------------------------
(***************************************************************************)
(* Facts about \div and %, for the days and the minutes of the clocks.     *)
(***************************************************************************)
EXTENDS Integers, TLAPS

\* A number is its quotient and its remainder.
LEMMA DivisionFacts ==
    ASSUME NEW d \in Nat \ {0}, NEW n \in Nat
    PROVE  /\ n \div d \in Nat
           /\ n % d \in 0..(d - 1)
           /\ n = d * (n \div d) + (n % d)
    BY SMT

\* There is one quotient and one remainder.
LEMMA DivisionIsUnique ==
    ASSUME NEW d \in Nat \ {0}, NEW q \in Nat, NEW r \in 0..(d - 1)
    PROVE  (q * d + r) \div d = q /\ (q * d + r) % d = r
<1>. DEFINE n == q * d + r
            p == n \div d
            m == n % d
<1>1. n \in Nat
    BY SMT
<1>2. p \in Nat /\ m \in 0..(d - 1) /\ n = d * p + m
    BY <1>1, DivisionFacts
<1>3. n = q * d + r
    OBVIOUS
<1>. HIDE DEF n, p, m
<1>4. ~ (p >= q + 1)
  <2>1. p >= q + 1 => d * p >= d * q + d
      BY <1>2, SMT
  <2>. QED  BY <1>2, <1>3, <2>1, SMT
<1>5. ~ (q >= p + 1)
  <2>1. q >= p + 1 => d * q >= d * p + d
      BY <1>2, SMT
  <2>. QED  BY <1>2, <1>3, <2>1, SMT
<1>6. p = q
    BY <1>2, <1>4, <1>5, SMT
<1>7. m = r
    BY <1>2, <1>3, <1>6, SMT
<1>. QED  BY <1>6, <1>7 DEF n, p, m

\* Days follow each other.
LEMMA DivisionIsMonotonic ==
    ASSUME NEW d \in Nat \ {0}, NEW a \in Nat, NEW b \in Nat, a <= b
    PROVE  a \div d <= b \div d
<1>. DEFINE p == a \div d
            q == b \div d
<1>1. p \in Nat /\ a % d \in 0..(d - 1) /\ a = d * p + (a % d)
    BY DivisionFacts
<1>2. q \in Nat /\ b % d \in 0..(d - 1) /\ b = d * q + (b % d)
    BY DivisionFacts
<1>. HIDE DEF p, q
<1>3. p >= q + 1 => d * p >= d * q + d
    BY <1>1, <1>2, SMT
<1>4. ~ (p >= q + 1)
    BY <1>1, <1>2, <1>3, SMT
<1>. QED  BY <1>1, <1>2, <1>4 DEF p, q
=============================================================================
