----------------------- MODULE AllocationClaimsProofs -----------------------
(*****************************************************************************)
(* For any participants, drafts, scores, allowlists, stakes and scales:      *)
(* claims are stored as they were mined, a fund that keeps its tokens can    *)
(* aggregate every epoch somebody with stake voted in, and what is           *)
(* aggregated lies between what was asked for.                               *)
(*                                                                           *)
(* The argument: what is on its way was canonical and, if it was checked,    *)
(* intact when it left (Outgoing); every row was checked for its sum and, as *)
(* long as the list stays what it was, for its length (RowsFit).  Any two    *)
(* voices are rows, so they agree in both; their weighted sums then add up   *)
(* to stake times scale, whichever way they are added (SumOfSums), so that   *)
(* rounding down takes less than one unit per token off the scale            *)
(* (RoundedDown), and a quotient lies between the extremes (AverageBetween). *)
(*****************************************************************************)
EXTENDS AllocationClaims, Sums

-----------------------------------------------------------------------------
(* The arithmetic of an average. *)

LEMMA Divided ==
    ASSUME NEW a \in Nat, NEW b \in Nat \ {0}
    PROVE  a \div b \in Nat /\ b * (a \div b) <= a /\ a < b * (a \div b) + b
  OBVIOUS

LEMMA Factors ==
    ASSUME NEW a \in Int, NEW b \in Int, NEW c \in Nat
    PROVE  /\ a * b \in Int /\ a * b = b * a /\ a * (b + c) = a * b + a * c
           /\ a <= b => c * a <= c * b
           /\ c * a <= c * b /\ c # 0 => a <= b
           /\ c * a < c * b => a < b
  OBVIOUS

(* a[k], divided by n, leaves r[k]. *)
Divides(a, n, b, r, K) ==
    \A k \in K : /\ a[k] \in Nat /\ b[k] \in Nat /\ r[k] \in Nat
                 /\ a[k] = n * b[k] + r[k] /\ r[k] <= n - 1

(* What rounding down takes off a whole is less than one for each part. *)
LEMMA RoundedDown ==
    ASSUME NEW K, IsFiniteSet(K), Cardinality(K) > 0, NEW n \in Nat \ {0}, NEW whole \in Nat,
           NEW a, NEW b, NEW r, Divides(a, n, b, r, K), SumOver(a, K) = n * whole
    PROVE  /\ SumOver(b, K) \in Nat /\ SumOver(b, K) <= whole
           /\ whole - SumOver(b, K) < Cardinality(K)
  <1>m. PICK m, t : m = [k \in K |-> n * b[k]] /\ t = [k \in K |-> n - 1]
    OBVIOUS
  <1>1. NatOn(a, K) /\ NatOn(b, K) /\ NatOn(r, K)
    BY DEF NatOn, Divides
  <1>2. NatOn(m, K) /\ NatOn(t, K)
    <2>1. \A k \in K : n * b[k] \in Nat
      BY DEF Divides
    <2>2. n - 1 \in Nat
      OBVIOUS
    <2> QED
      BY <1>m, <2>1, <2>2 DEF NatOn
  <1>3. Adds(a, m, r, K) /\ Multiple(m, n, b, K)
    BY <1>m DEF Adds, Multiple, Divides
  <1>4. Below(r, t, K) /\ Constant(t, n - 1, K)
    BY <1>m DEF Below, Constant, Divides
  <1>s. PICK sb, sr, c : sb = SumOver(b, K) /\ sr = SumOver(r, K) /\ c = Cardinality(K)
    OBVIOUS
  <1>5. sb \in Nat /\ sr \in Nat /\ c \in Nat
    BY <1>1, <1>s, SumStep, FS_CardinalityType
  <1>6. n * whole = n * sb + sr
    <2>1. SumOver(a, K) = SumOver(m, K) + SumOver(r, K)
      BY <1>1, <1>2, <1>3, SumAdds
    <2>2. n \in Nat
      OBVIOUS
    <2>3. SumOver(m, K) = n * SumOver(b, K)
      BY <1>1, <1>3, <2>2, SumScales
    <2> QED
      BY <1>s, <2>1, <2>3
  <1>7. sr <= (n - 1) * c
    <2>1. SumOver(r, K) <= SumOver(t, K)
      BY <1>1, <1>2, <1>4, SumBelow
    <2>2. n - 1 \in Nat
      OBVIOUS
    <2>3. SumOver(t, K) = (n - 1) * Cardinality(K)
      BY <1>4, <2>2, SumConstant
    <2> QED
      BY <1>s, <2>1, <2>3
  <1>8. sb <= whole
    <2>1. n * sb <= n * whole
      <3>1. n * sb \in Nat
        BY <1>5
      <3> QED
        BY <1>5, <1>6, <3>1
    <2> QED
      BY <1>5, <2>1, Factors
  <1>9. whole - sb < c
    <2>1. n * (whole - sb) = sr
      <3>1. n * (whole - sb) = n * whole - n * sb
        BY <1>5
      <3>2. n * sb \in Nat /\ n * whole \in Nat
        BY <1>5
      <3> QED
        BY <1>5, <1>6, <3>1, <3>2
    <2>2. (n - 1) * c = n * c - c /\ n * c \in Nat
      BY <1>5
    <2>3. n * (whole - sb) < n * c
      BY <1>5, <1>7, <1>s, <2>1, <2>2
    <2> QED
      BY <1>5, <1>8, <2>3, Factors
  <1> QED
    BY <1>5, <1>8, <1>9, <1>s

(* s: stakes, W: weights, by voice; a: the weighted sums of the tokens 1..n. *)
Ballots(s, W, V, n, scale) ==
    /\ NatOn(s, V)
    /\ \A i \in V : NatOn(W[i], 1..n) /\ SumOver(W[i], 1..n) = scale
Weighted(a, C, s, W, V, n) ==
    \A k \in 1..n : a[k] = SumOver(C[k], V) /\ \A i \in V : C[k][i] = s[i] * W[i][k]

LEMMA WeightedSums ==
    ASSUME NEW V, IsFiniteSet(V), NEW n \in Nat \ {0}, NEW scale \in Nat,
           NEW s, NEW W, Ballots(s, W, V, n, scale), NEW a, NEW C, Weighted(a, C, s, W, V, n)
    PROVE  /\ SumOver(s, V) \in Nat /\ SumOver(a, 1..n) = SumOver(s, V) * scale
           /\ \A k \in 1..n : NatOn(C[k], V) /\ a[k] \in Nat
  <1>k. PICK K : K = 1..n
    OBVIOUS
  <1>0. IsFiniteSet(K)
    BY <1>k, FS_Interval
  <1>1. ASSUME NEW i \in V PROVE s[i] \in Nat /\ \A k \in K : W[i][k] \in Nat
    BY <1>k DEF Ballots, NatOn
  <1>2. ASSUME NEW k \in K, NEW i \in V PROVE C[k][i] = s[i] * W[i][k] /\ C[k][i] \in Nat
    <2>1. C[k][i] = s[i] * W[i][k]
      BY <1>k DEF Weighted
    <2>2. s[i] \in Nat /\ W[i][k] \in Nat
      BY <1>1
    <2> QED
      BY <2>1, <2>2
  <1>r. PICK R, row : /\ R = [i \in V |-> [k \in K |-> C[k][i]]]
                      /\ row = [i \in V |-> s[i] * scale]
    OBVIOUS
  <1>3. Table(R, C, V, K)
    BY <1>2, <1>r DEF Table
  <1>4. Totals(row, R, V, K)
    <2> SUFFICES ASSUME NEW i \in V PROVE row[i] = SumOver(R[i], K)
      BY DEF Totals
    <2>f. PICK f, w, c : f = R[i] /\ w = W[i] /\ c = s[i]
      OBVIOUS
    <2>1. c \in Nat /\ NatOn(w, K) /\ SumOver(w, K) = scale
      BY <1>1, <1>k, <2>f DEF Ballots
    <2>2. Multiple(f, c, w, K)
      BY <1>2, <1>r, <2>f DEF Multiple
    <2>3. SumOver(f, K) = c * SumOver(w, K)
      BY <1>0, <2>1, <2>2, SumScales
    <2> QED
      BY <1>r, <2>f, <2>1, <2>3
  <1>5. Totals(a, C, K, V)
    BY <1>k DEF Weighted, Totals
  <1>6. SumOver(row, V) = SumOver(a, K)
    BY <1>0, <1>3, <1>4, <1>5, SumOfSums
  <1>7. NatOn(s, V)
    BY DEF Ballots
  <1>8. SumOver(s, V) \in Nat
    BY <1>7, SumStep
  <1>9. SumOver(row, V) = SumOver(s, V) * scale
    <2>1. Multiple(row, scale, s, V)
      <3> SUFFICES ASSUME NEW i \in V PROVE row[i] = scale * s[i]
        BY DEF Multiple
      <3>1. row[i] = s[i] * scale /\ s[i] \in Nat
        BY <1>1, <1>r
      <3> QED
        BY <3>1
    <2>2. SumOver(row, V) = scale * SumOver(s, V)
      BY <1>7, <2>1, SumScales
    <2> QED
      BY <1>8, <2>2
  <1>10. ASSUME NEW k \in K PROVE NatOn(C[k], V) /\ a[k] \in Nat
    <2>c. PICK c : c = C[k]
      OBVIOUS
    <2>1. NatOn(c, V)
      BY <1>2, <2>c DEF NatOn
    <2>2. SumOver(c, V) \in Nat
      BY <2>1, SumStep
    <2> QED
      BY <1>k, <2>c, <2>1, <2>2 DEF Weighted
  <1> QED
    BY <1>k, <1>6, <1>8, <1>9, <1>10

(* Divided by the stakes, the sum of a token lies between the least and the *)
(* most that a voice gives it.                                              *)
LEMMA AverageBetween ==
    ASSUME NEW V, IsFiniteSet(V), NEW n \in Nat \ {0}, NEW scale \in Nat,
           NEW s, NEW W, Ballots(s, W, V, n, scale), NEW a, NEW C, Weighted(a, C, s, W, V, n),
           NEW t \in Nat, t = SumOver(s, V), t > 0,
           NEW k \in 1..n, NEW lo \in Nat, NEW hi \in Nat,
           \A i \in V : lo <= W[i][k] /\ W[i][k] <= hi
    PROVE  lo <= a[k] \div t /\ a[k] \div t <= hi
  <1>c. PICK c, x, y, z : /\ c = C[k] /\ x = a[k]
                          /\ y = [i \in V |-> lo * s[i]] /\ z = [i \in V |-> hi * s[i]]
    OBVIOUS
  <1>1. NatOn(s, V) /\ NatOn(c, V) /\ x \in Nat /\ x = SumOver(c, V)
    <2>1. NatOn(C[k], V) /\ a[k] \in Nat
      BY WeightedSums
    <2> QED
      BY <1>c, <2>1 DEF Ballots, Weighted
  <1>2. ASSUME NEW i \in V
        PROVE  /\ s[i] \in Nat /\ y[i] = lo * s[i] /\ z[i] = hi * s[i] /\ y[i] \in Nat /\ z[i] \in Nat
               /\ y[i] <= c[i] /\ c[i] <= z[i]
    <2>1. s[i] \in Nat /\ W[i][k] \in Nat
      BY DEF Ballots, NatOn
    <2>2. c[i] = s[i] * W[i][k]
      BY <1>c DEF Weighted
    <2>p. PICK p, w : p = s[i] /\ w = W[i][k]
      OBVIOUS
    <2>3. p \in Nat /\ w \in Nat /\ lo <= w /\ w <= hi
      BY <2>1, <2>p
    <2>4. p * lo <= p * w /\ p * w <= p * hi /\ p * lo = lo * p /\ p * hi = hi * p
      BY <2>3, Factors
    <2>5. lo * p \in Nat /\ hi * p \in Nat
      BY <2>3
    <2>6. y[i] = lo * p /\ z[i] = hi * p
      BY <1>c, <2>p
    <2> QED
      BY <2>2, <2>3, <2>4, <2>5, <2>6, <2>p
  <1>3. NatOn(y, V) /\ NatOn(z, V) /\ Multiple(y, lo, s, V) /\ Multiple(z, hi, s, V)
    BY <1>2 DEF NatOn, Multiple
  <1>4. Below(y, c, V) /\ Below(c, z, V)
    BY <1>2 DEF Below
  <1>5. lo * t <= x
    <2>1. SumOver(y, V) <= SumOver(c, V)
      BY <1>1, <1>3, <1>4, SumBelow
    <2>2. SumOver(y, V) = lo * SumOver(s, V)
      BY <1>1, <1>3, SumScales
    <2> QED
      BY <1>1, <2>1, <2>2
  <1>6. x <= hi * t
    <2>1. SumOver(c, V) <= SumOver(z, V)
      BY <1>1, <1>3, <1>4, SumBelow
    <2>2. SumOver(z, V) = hi * SumOver(s, V)
      BY <1>1, <1>3, SumScales
    <2> QED
      BY <1>1, <2>1, <2>2
  <1>d. PICK d : d = x \div t
    OBVIOUS
  <1>7. d \in Nat /\ t * d <= x /\ x < t * d + t
    BY <1>1, <1>d, Divided
  <1>8. lo <= d
    <2>1. lo * t < t * d + t /\ t * d + t = t * (d + 1) /\ lo * t = t * lo
      <3>1. t * d \in Nat /\ lo * t \in Nat
        BY <1>7
      <3>2. t * (d + 1) = t * d + t
        BY <1>7
      <3> QED
        BY <1>1, <1>5, <1>7, <3>1, <3>2
    <2>2. t * lo < t * (d + 1)
      BY <2>1
    <2>3. d + 1 \in Int /\ lo \in Int
      BY <1>7
    <2>4. lo < d + 1
      BY <2>2, <2>3, Factors
    <2> QED
      BY <1>7, <2>4
  <1>9. d <= hi
    <2>1. t * d <= t * hi
      <3>1. t * d \in Nat /\ hi * t \in Nat /\ hi * t = t * hi
        BY <1>7
      <3> QED
        BY <1>1, <1>6, <1>7, <3>1
    <2> QED
      BY <1>7, <2>1, Factors
  <1> QED
    BY <1>c, <1>d, <1>8, <1>9

(* What the aggregation computes: rounded down, with the remainder apart. *)
LEMMA Averaged ==
    ASSUME NEW V, IsFiniteSet(V), NEW n \in Nat \ {0}, NEW scale \in Nat,
           NEW s, NEW W, Ballots(s, W, V, n, scale), NEW a, NEW C, Weighted(a, C, s, W, V, n),
           NEW t \in Nat, t = SumOver(s, V), t > 0,
           NEW b, b = [k \in 1..n |-> a[k] \div t]
    PROVE  /\ NatOn(b, 1..n) /\ SumOver(b, 1..n) \in Nat /\ SumOver(b, 1..n) <= scale
           /\ scale - SumOver(b, 1..n) <= n - 1
  <1>k. PICK K : K = 1..n
    OBVIOUS
  <1>0. IsFiniteSet(K) /\ Cardinality(K) = n
    BY <1>k, FS_Interval
  <1>1. SumOver(a, K) = t * scale /\ \A k \in K : a[k] \in Nat
    BY <1>k, WeightedSums
  <1>r. PICK r : r = [k \in K |-> a[k] - t * b[k]]
    OBVIOUS
  <1>2. Divides(a, t, b, r, K)
    <2> SUFFICES ASSUME NEW k \in K
                 PROVE  /\ a[k] \in Nat /\ b[k] \in Nat /\ r[k] \in Nat
                        /\ a[k] = t * b[k] + r[k] /\ r[k] <= t - 1
      BY DEF Divides
    <2>x. PICK x, y : x = a[k] /\ y = x \div t
      OBVIOUS
    <2>0. x \in Nat /\ t \in Nat \ {0}
      BY <1>1, <2>x
    <2>1. y \in Nat /\ t * y <= x /\ x < t * y + t
      BY <2>0, <2>x, Divided
    <2>2. b[k] = y /\ r[k] = x - t * y
      BY <1>k, <1>r, <2>x
    <2>z. PICK z : z = t * y
      OBVIOUS
    <2>3. z \in Nat /\ z <= x /\ x < z + t
      BY <2>1, <2>z
    <2>4. x - z \in Nat /\ x = z + (x - z) /\ x - z <= t - 1
      BY <2>0, <2>3
    <2> QED
      BY <2>0, <2>1, <2>2, <2>4, <2>x, <2>z
  <1>3. /\ SumOver(b, K) \in Nat /\ SumOver(b, K) <= scale
        /\ scale - SumOver(b, K) < Cardinality(K)
    <2>1. Cardinality(K) > 0 /\ t \in Nat \ {0}
      BY <1>0
    <2> QED
      BY <1>0, <1>1, <1>2, <2>1, RoundedDown
  <1>4. NatOn(b, K)
    BY <1>2 DEF Divides, NatOn
  <1> QED
    BY <1>k, <1>0, <1>3, <1>4


-----------------------------------------------------------------------------
(* Weights are lists of natural numbers. *)

LEMMA TotalIsSum ==
    ASSUME NEW w
    PROVE  Total(w) = SumOver(w, DOMAIN w)
  BY DEF Total, SumOver

LEMMA ListTotal ==
    ASSUME NEW w \in Seq(Nat)
    PROVE  /\ NatOn(w, 1..Len(w)) /\ Total(w) = SumOver(w, 1..Len(w)) /\ Total(w) \in Nat
           /\ Len(w) \in Nat /\ IsFiniteSet(1..Len(w))
  <1>1. DOMAIN w = 1..Len(w) /\ Len(w) \in Nat /\ \A k \in 1..Len(w) : w[k] \in Nat
    OBVIOUS
  <1>k. PICK K : K = 1..Len(w)
    OBVIOUS
  <1>2. IsFiniteSet(K)
    BY <1>1, <1>k, FS_Interval
  <1>3. NatOn(w, K)
    BY <1>1, <1>k DEF NatOn
  <1>4. SumOver(w, K) \in Nat
    BY <1>2, <1>3, SumStep
  <1>5. Total(w) = SumOver(w, DOMAIN w)
    BY TotalIsSum
  <1> QED
    BY <1>1, <1>k, <1>2, <1>3, <1>4, <1>5

LEMMA RemainderAdded ==
    ASSUME NEW n \in Nat \ {0}, NEW b, b = [k \in 1..n |-> b[k]], NatOn(b, 1..n),
           NEW scale \in Nat, SumOver(b, 1..n) <= scale
    PROVE  /\ WithRemainder(b, scale) \in Seq(Nat) /\ Len(WithRemainder(b, scale)) = n
           /\ Total(WithRemainder(b, scale)) = scale
           /\ WithRemainder(b, scale)[1] = b[1] + (scale - SumOver(b, 1..n))
           /\ \A k \in 2..n : WithRemainder(b, scale)[k] = b[k]
  <1>k. PICK K, R, w, rest :
           K = 1..n /\ R = K \ {1} /\ w = WithRemainder(b, scale) /\ rest = scale - SumOver(b, K)
    OBVIOUS
  <1>0. IsFiniteSet(K) /\ 1 \in K
    <2>1. IsFiniteSet(1..n) /\ 1 \in 1..n
      BY FS_Interval
    <2> QED
      BY <1>k, <2>1
  <1>1. DOMAIN b = K
    BY <1>k
  <1>2. Total(b) = SumOver(b, K)
    BY <1>1, TotalIsSum
  <1>3. w = [b EXCEPT ![1] = b[1] + rest]
    BY <1>k, <1>2 DEF WithRemainder
  <1>4. w[1] = b[1] + rest /\ (\A k \in R : w[k] = b[k]) /\ w = [k \in K |-> w[k]]
    BY <1>0, <1>1, <1>3, <1>k
  <1>5. /\ SumOver(b, K) \in Nat /\ SumOver(b, K) = b[1] + SumOver(b, R)
        /\ b[1] \in Nat /\ SumOver(b, R) \in Nat
    <2>1. K \in SUBSET K /\ NatOn(b, K)
      BY <1>k
    <2>2. /\ SumOver(b, K) = b[1] + SumOver(b, K \ {1})
          /\ b[1] \in Nat /\ SumOver(b, K) \in Nat /\ SumOver(b, K \ {1}) \in Nat
      BY <1>0, <2>1, PartStep
    <2> QED
      BY <1>k, <2>2
  <1>6. rest \in Nat
    BY <1>5, <1>k
  <1>7. \A k \in K : w[k] \in Nat
    <2> SUFFICES ASSUME NEW k \in K PROVE w[k] \in Nat
      OBVIOUS
    <2>1. k = 1 \/ k \in R
      BY <1>k
    <2>2. b[k] \in Nat
      BY <1>k DEF NatOn
    <2> QED
      BY <1>4, <1>5, <1>6, <2>1, <2>2
  <1>8. w \in Seq(Nat) /\ Len(w) = n /\ DOMAIN w = K
    BY <1>k, <1>4, <1>7
  <1>9. Total(w) = scale
    <2>1. NatOn(w, K) /\ K \in SUBSET K
      BY <1>7 DEF NatOn
    <2>2. SumOver(w, K) = w[1] + SumOver(w, R)
      BY <1>0, <1>k, <2>1, PartStep
    <2>3. SumOver(w, R) = SumOver(b, R)
      <3>1. Same(w, b, R)
        BY <1>4 DEF Same
      <3>2. IsFiniteSet(R)
        BY <1>0, <1>k, FS_Subset
      <3> QED
        BY <3>1, <3>2, SumSame
    <2>4. SumOver(w, K) = scale
      BY <1>4, <1>5, <1>6, <1>k, <2>2, <2>3
    <2> QED
      BY <1>8, <2>4, TotalIsSum
  <1> QED
    BY <1>k, <1>4, <1>8, <1>9

(* The weights computed from scores are a list of natural numbers that adds *)
(* up to the scale, whatever the scores.                                    *)
LEMMA Intified ==
    ASSUME NEW scores \in Seq(Nat), Len(scores) > 0, NEW scale \in Nat
    PROVE  Intify(scores, scale) \in Seq(Nat) /\ Total(Intify(scores, scale)) = scale
  <1>n. PICK n, K, t : n = Len(scores) /\ K = 1..n /\ t = Total(scores)
    OBVIOUS
  <1>1. /\ n \in Nat \ {0} /\ t \in Nat /\ NatOn(scores, K) /\ t = SumOver(scores, K)
        /\ IsFiniteSet(K) /\ DOMAIN scores = K
    BY <1>n, ListTotal
  <1>b. PICK b : b = [i \in K |-> IF t = 0 THEN scale \div n ELSE (scale * scores[i]) \div t]
    OBVIOUS
  <1>2. Intify(scores, scale) = WithRemainder(b, scale)
    BY <1>n, <1>1, <1>b DEF Intify
  <1>3. NatOn(b, K) /\ SumOver(b, K) <= scale
    <2>1. CASE t = 0
      <3>q. PICK q : q = scale \div n
        OBVIOUS
      <3>1. q \in Nat /\ n * q <= scale
        BY <1>1, <3>q, Divided
      <3>2. Constant(b, q, K) /\ NatOn(b, K)
        BY <1>b, <2>1, <3>q, <3>1 DEF Constant, NatOn
      <3>3. SumOver(b, K) = q * n
        <4>1. Cardinality(1..n) = n
          BY <1>1, FS_Interval
        <4>2. SumOver(b, K) = q * Cardinality(K)
          BY <1>1, <3>1, <3>2, SumConstant
        <4> QED
          BY <1>n, <4>1, <4>2
      <3>4. q * n = n * q
        BY <1>1, <3>1
      <3> QED
        BY <3>1, <3>2, <3>3, <3>4
    <2>2. CASE t # 0
      <3>m. PICK m, u : m = [i \in K |-> t * b[i]] /\ u = [i \in K |-> scale * scores[i]]
        OBVIOUS
      <3>1. ASSUME NEW i \in K
            PROVE  b[i] \in Nat /\ m[i] \in Nat /\ u[i] \in Nat /\ m[i] <= u[i]
        <4>x. PICK x, y : x = scale * scores[i] /\ y = x \div t
          OBVIOUS
        <4>1. scores[i] \in Nat
          BY <1>1 DEF NatOn
        <4>2. x \in Nat /\ t \in Nat \ {0}
          BY <1>1, <2>2, <4>1, <4>x
        <4>3. y \in Nat /\ t * y <= x
          BY <4>2, <4>x, Divided
        <4>4. t * y \in Nat
          BY <4>2, <4>3
        <4>5. b[i] = y
          BY <1>b, <2>2, <4>x
        <4>6. m[i] = t * y /\ u[i] = x
          BY <3>m, <4>5, <4>x
        <4> QED
          BY <4>2, <4>3, <4>4, <4>5, <4>6
      <3>2. NatOn(b, K) /\ NatOn(m, K) /\ NatOn(u, K) /\ Below(m, u, K)
        BY <3>1 DEF NatOn, Below
      <3>3. Multiple(m, t, b, K) /\ Multiple(u, scale, scores, K)
        BY <3>m DEF Multiple
      <3>4. SumOver(m, K) <= SumOver(u, K)
        BY <1>1, <3>2, SumBelow
      <3>5. SumOver(m, K) = t * SumOver(b, K)
        BY <1>1, <3>2, <3>3, SumScales
      <3>6. SumOver(u, K) = scale * t
        <4>1. SumOver(u, K) = scale * SumOver(scores, K)
          BY <1>1, <3>3, SumScales
        <4> QED
          BY <1>1, <4>1
      <3>7. SumOver(b, K) \in Nat
        BY <1>1, <3>2, SumStep
      <3>8. SumOver(b, K) <= scale
        <4>s. PICK sb : sb = SumOver(b, K)
          OBVIOUS
        <4>1. t * sb <= scale * t /\ scale * t = t * scale /\ sb \in Nat
          BY <1>1, <3>4, <3>5, <3>6, <3>7, <4>s
        <4>2. t * sb <= t * scale
          BY <4>1
        <4> QED
          BY <1>1, <2>2, <4>1, <4>2, <4>s, Factors
      <3> QED
        BY <3>2, <3>8
    <2> QED
      BY <2>1, <2>2
  <1>4. b = [k \in 1..n |-> b[k]]
    BY <1>n, <1>b
  <1>5. NatOn(b, 1..n) /\ SumOver(b, 1..n) <= scale
    BY <1>n, <1>3
  <1> QED
    BY <1>1, <1>2, <1>4, <1>5, RemainderAdded


-----------------------------------------------------------------------------
(* The inductive invariant. *)

Sendable(b) ==
    b.pc = "sending" => Canonical(b.file.weights) /\ (b.checked => b.file.intact)

Outgoing == \A p \in Participants : Sendable(bot[p])

Fits(w) == Canonical(w) /\ (~relisted /\ listed # 0 => Len(w) = listed)

RowsFit ==
    /\ claims \in Seq(Range(claims))
    /\ \A i \in DOMAIN claims : Fits(claims[i].weights)

(* What a bot remembers is a record of a command and a file. *)
FileShape(f) ==
    /\ f = [epoch |-> f.epoch, as |-> f.as, weights |-> f.weights, intact |-> f.intact]
    /\ f.weights \in Seq(Nat)
BotShape(b) == b = [pc |-> b.pc, file |-> b.file, checked |-> b.checked] /\ FileShape(b.file)
BotsKnown ==
    /\ bot = [p \in Participants |-> bot[p]]
    /\ \A p \in Participants : BotShape(bot[p])

RowsTyped ==
    \A i \in DOMAIN claims : claims[i].weights \in Seq(Nat) /\ claims[i].by \in Participants
StakesTyped == stake \in [Participants -> Nat]
ActiveKnown == active \in Epochs \cup {0}

(* A target that is stored lies between its voices. *)
Asked(C, k) == {c.weights[k] : c \in C}
Within(w, C) ==
    /\ Total(w) = ClaimScale
    /\ \A k \in DOMAIN w :
         w[k] \in Min(Asked(C, k)) .. (Max(Asked(C, k)) + IF k = 1 THEN Len(w) - 1 ELSE 0)
TargetsKnown ==
    /\ DOMAIN target = Epochs
    /\ \A e \in Epochs : target[e] # NoTarget => Within(target[e].weights, target[e].claims)

IInv ==
    /\ BotsKnown /\ Outgoing
    /\ RowsFit /\ RowsTyped
    /\ StakesTyped /\ ActiveKnown
    /\ TargetsKnown

-----------------------------------------------------------------------------
(* The aggregation of an epoch. *)

LEMMA Extremes ==
    ASSUME NEW S, S \subseteq Nat, S # {}, NEW b \in Nat, \A x \in S : x <= b
    PROVE  Min(S) \in S /\ Max(S) \in S /\ \A x \in S : Min(S) <= x /\ x <= Max(S)
  <1> DEFINE R == OpToRel(<, Nat)
             T == {n \in Nat : b - n \in S}
  <1>1. IsWellFoundedOn(R, Nat)
    BY NatLessThanWellFounded
  <1>2. \A x, y \in Nat : <<x, y>> \in R <=> x < y
    BY DEF OpToRel
  <1>3. T \subseteq Nat /\ T # {}
    <2>1. PICK x \in S : TRUE
      OBVIOUS
    <2>2. b - x \in Nat /\ b - (b - x) = x
      BY <2>1
    <2> QED
      BY <2>1, <2>2
  <1>4. \A x \in S : b - x \in T
    <2> TAKE x \in S
    <2>1. b - x \in Nat /\ b - (b - x) = x
      OBVIOUS
    <2> QED
      BY <2>1
  <1>5. \A n \in T : b - n \in S
    OBVIOUS
  <1> HIDE DEF R, T
  <1>6. PICK l \in S : \A y \in S : ~ (<<y, l>> \in R)
    BY <1>1, WFMin
  <1>7. \A y \in S : l <= y
    <2> TAKE y \in S
    <2>1. y \in Nat /\ l \in Nat
      OBVIOUS
    <2>2. ~ (y < l)
      BY <1>2, <1>6, <2>1
    <2> QED
      BY <2>1, <2>2
  <1>8. PICK m \in T : \A y \in T : ~ (<<y, m>> \in R)
    BY <1>1, <1>3, WFMin
  <1>9. \A x \in S : x <= b - m
    <2> TAKE x \in S
    <2>1. b - x \in T /\ ~ (b - x < m) /\ b - x \in Nat /\ m \in Nat
      BY <1>2, <1>3, <1>4, <1>8
    <2> QED
      BY <2>1
  <1>10. b - m \in S
    BY <1>5, <1>8
  <1>11. Min(S) \in S /\ \A x \in S : Min(S) <= x
    BY <1>6, <1>7 DEF Min
  <1>12. Max(S) \in S /\ \A x \in S : Max(S) >= x
    <2>1. \E x \in S : \A y \in S : x >= y
      BY <1>9, <1>10
    <2> QED
      BY <2>1 DEF Max
  <1> QED
    BY <1>11, <1>12

TokenSum(e, k) ==
    MapThenSumSet(LAMBDA i : stake[claims[i].by] * claims[i].weights[k], Voices(e))
StakeOf(e) == [i \in Voices(e) |-> stake[claims[i].by]]
ShareOf(e, k) == [i \in Voices(e) |-> stake[claims[i].by] * claims[i].weights[k]]
BallotOf(e) == [i \in Voices(e) |-> claims[i].weights]

LEMMA VoicesFinite ==
    ASSUME RowsFit, NEW e
    PROVE  IsFiniteSet(Voices(e)) /\ Voices(e) \subseteq DOMAIN claims
  <1>1. DOMAIN claims = 1..Len(claims) /\ Len(claims) \in Nat
    BY DEF RowsFit
  <1>2. IsFiniteSet(1..Len(claims))
    BY <1>1, FS_Interval
  <1>3. Voices(e) \subseteq DOMAIN claims
    BY DEF Voices, Rows
  <1>4. Voices(e) \in SUBSET (1..Len(claims))
    BY <1>1, <1>3
  <1> QED
    BY <1>2, <1>3, <1>4, FS_Subset

LEMMA StakesSummed ==
    ASSUME RowsFit, NEW e
    PROVE  TotalStake(e) = SumOver(StakeOf(e), Voices(e))
  <1>v. PICK V, f : V = Voices(e) /\ f = StakeOf(e)
    OBVIOUS
  <1>1. IsFiniteSet(V)
    BY <1>v, VoicesFinite
  <1>2. PICK g : Fold(g, f, V) /\ SumOver(f, V) = g[V]
    BY <1>1, SumIsTally
  <1>3. \A s \in SUBSET V : s # {} => f[Pick(s)] = stake[claims[Pick(s)].by]
    <2> TAKE s \in SUBSET V
    <2>1. s # {} => Pick(s) \in s
      BY Picked
    <2> QED
      BY <1>v, <2>1 DEF StakeOf
  <1>4. \A h : Fold(h, f, V) <=>
               h = [s \in SUBSET V |-> IF s = {} THEN 0
                      ELSE stake[claims[Pick(s)].by] + h[s \ {Pick(s)}]]
    BY <1>3 DEF Fold, Tally
  <1>5. PICK h : Fold(h, f, V) /\ TotalStake(e) = h[V]
    BY <1>2, <1>4, <1>v DEF Pick, TotalStake, MapThenSumSet, MapThenFoldSet
  <1>6. Part(V, V)
    BY DEF Part
  <1>7. g[V] = h[V]
    BY <1>1, <1>2, <1>5, <1>6, TalliesAgree
  <1> QED
    BY <1>v, <1>2, <1>5, <1>7

LEMMA SharesSummed ==
    ASSUME RowsFit, NEW e, NEW k
    PROVE  TokenSum(e, k) = SumOver(ShareOf(e, k), Voices(e))
  <1>v. PICK V, f : V = Voices(e) /\ f = ShareOf(e, k)
    OBVIOUS
  <1>1. IsFiniteSet(V)
    BY <1>v, VoicesFinite
  <1>2. PICK g : Fold(g, f, V) /\ SumOver(f, V) = g[V]
    BY <1>1, SumIsTally
  <1>3. \A s \in SUBSET V : s # {} =>
           f[Pick(s)] = stake[claims[Pick(s)].by] * claims[Pick(s)].weights[k]
    <2> TAKE s \in SUBSET V
    <2>1. s # {} => Pick(s) \in s
      BY Picked
    <2> QED
      BY <1>v, <2>1 DEF ShareOf
  <1>4. \A h : Fold(h, f, V) <=>
               h = [s \in SUBSET V |-> IF s = {} THEN 0
                      ELSE stake[claims[Pick(s)].by] * claims[Pick(s)].weights[k]
                             + h[s \ {Pick(s)}]]
    BY <1>3 DEF Fold, Tally
  <1>5. PICK h : Fold(h, f, V) /\ TokenSum(e, k) = h[V]
    BY <1>2, <1>4, <1>v DEF Pick, TokenSum, MapThenSumSet, MapThenFoldSet
  <1>6. Part(V, V)
    BY DEF Part
  <1>7. g[V] = h[V]
    BY <1>1, <1>2, <1>5, <1>6, TalliesAgree
  <1> QED
    BY <1>v, <1>2, <1>5, <1>7

(* The voices of an epoch that can be aggregated are ballots over the same *)
(* tokens, n of them.                                                      *)
LEMMA VoicesAgree ==
    ASSUME RowsFit, RowsTyped, StakesTyped, NEW e, Aggregable(e),
           NEW j \in Voices(e)
    PROVE  /\ Len(claims[j].weights) \in Nat \ {0} /\ Total(claims[j].weights) = ClaimScale
           /\ DOMAIN claims[j].weights = 1..Len(claims[j].weights)
           /\ Ballots(StakeOf(e), BallotOf(e), Voices(e), Len(claims[j].weights), ClaimScale)
  <1>v. PICK V, n, s, W : /\ V = Voices(e) /\ n = Len(claims[j].weights)
                          /\ s = StakeOf(e) /\ W = BallotOf(e)
    OBVIOUS
  <1>1. ASSUME NEW i \in V
        PROVE  /\ W[i] = claims[i].weights /\ W[i] \in Seq(Nat) /\ Len(W[i]) = n
               /\ Len(W[i]) > 0 /\ Total(W[i]) = ClaimScale /\ s[i] \in Nat
    <2>1. i \in DOMAIN claims /\ W[i] = claims[i].weights /\ s[i] = stake[claims[i].by]
      BY <1>v, VoicesFinite DEF BallotOf, StakeOf
    <2>2. W[i] \in Seq(Nat) /\ s[i] \in Nat
      BY <2>1 DEF RowsTyped, StakesTyped
    <2>3. Len(W[i]) > 0 /\ Total(W[i]) = ClaimScale
      BY <2>1 DEF RowsFit, Fits, Canonical
    <2>4. Len(W[i]) = n
      BY <1>v, <2>1 DEF Aggregable, SameShape
    <2> QED
      BY <2>1, <2>2, <2>3, <2>4
  <1>2. j \in V /\ W[j] = claims[j].weights
    BY <1>v, <1>1
  <1>3. n \in Nat \ {0} /\ DOMAIN W[j] = 1..n
    <2>1. W[j] \in Seq(Nat) /\ Len(W[j]) = n /\ Len(W[j]) > 0
      BY <1>1, <1>2
    <2> QED
      BY <2>1
  <1>4. ASSUME NEW i \in V PROVE NatOn(W[i], 1..n) /\ SumOver(W[i], 1..n) = ClaimScale
    <2>w. PICK w : w = W[i]
      OBVIOUS
    <2>1. w \in Seq(Nat) /\ Len(w) = n /\ Total(w) = ClaimScale
      BY <1>1, <2>w
    <2>2. NatOn(w, 1..Len(w)) /\ Total(w) = SumOver(w, 1..Len(w))
      BY <2>1, ListTotal
    <2> QED
      BY <2>1, <2>2, <2>w
  <1>5. NatOn(s, V)
    BY <1>1 DEF NatOn
  <1>6. Ballots(s, W, V, n, ClaimScale)
    BY <1>4, <1>5 DEF Ballots
  <1> QED
    BY <1>v, <1>1, <1>2, <1>3, <1>6

LEMMA AggregateSound ==
    ASSUME RowsFit, RowsTyped, StakesTyped, NEW e, Aggregable(e)
    PROVE  Within(Aggregate(e), Heard(e))
  <1>v. PICK V, s, W, scale, t :
           /\ V = Voices(e) /\ s = StakeOf(e) /\ W = BallotOf(e) /\ scale = ClaimScale
           /\ t = TotalStake(e)
    OBVIOUS
  <1>1. scale \in Nat /\ IsFiniteSet(V) /\ t = SumOver(s, V) /\ t > 0
    BY <1>v, ScaleAssumption, VoicesFinite, StakesSummed DEF Aggregable
  <1>2. V # {}
    <2>1. V = {} => SumOver(s, V) = 0
      BY SumOfNone
    <2> QED
      BY <1>1, <2>1
  <1>c. PICK voice : voice = CHOOSE c \in Heard(e) : TRUE
    OBVIOUS
  <1>3. voice \in Heard(e)
    <2>1. Heard(e) # {}
      BY <1>2, <1>v DEF Heard
    <2> QED
      BY <1>c, <2>1
  <1>j. PICK j \in V : voice = claims[j]
    BY <1>3, <1>v DEF Heard
  <1>n. PICK n : n = Len(claims[j].weights)
    OBVIOUS
  <1>4. /\ n \in Nat \ {0} /\ DOMAIN voice.weights = 1..n /\ Total(voice.weights) = scale
        /\ Ballots(s, W, V, n, scale)
    <2>1. j \in Voices(e)
      BY <1>v
    <2> QED
      BY <1>j, <1>n, <1>v, <2>1, VoicesAgree
  <1>5. NatOn(s, V) /\ t \in Nat /\ t # 0
    <2>1. NatOn(s, V)
      BY <1>4 DEF Ballots
    <2>2. SumOver(s, V) \in Nat
      BY <1>1, <2>1, SumStep
    <2> QED
      BY <1>1, <2>1, <2>2
  <1>a. PICK C, a, b : /\ C = [k \in 1..n |-> ShareOf(e, k)]
                       /\ a = [k \in 1..n |-> TokenSum(e, k)]
                       /\ b = [k \in 1..n |-> a[k] \div t]
    OBVIOUS
  <1>6. Weighted(a, C, s, W, V, n)
    <2> SUFFICES ASSUME NEW k \in 1..n
                 PROVE  a[k] = SumOver(C[k], V) /\ \A i \in V : C[k][i] = s[i] * W[i][k]
      BY DEF Weighted
    <2>1. C[k] = ShareOf(e, k) /\ a[k] = TokenSum(e, k)
      BY <1>a
    <2>2. \A i \in V : C[k][i] = s[i] * W[i][k]
      BY <1>v, <2>1 DEF ShareOf, StakeOf, BallotOf
    <2> QED
      BY <1>v, <2>1, <2>2, SharesSummed
  <1>7. Aggregate(e) = WithRemainder(b, scale)
    <2>1. Aggregate(e) = WithRemainder([k \in DOMAIN voice.weights |-> TokenSum(e, k) \div Divisor(e)],
                                       Total(voice.weights))
      BY <1>c DEF Aggregate, TokenSum
    <2>2. b = [k \in 1..n |-> TokenSum(e, k) \div t]
      BY <1>a
    <2> QED
      BY <1>4, <1>v, <2>1, <2>2 DEF Divisor
  <1>8. /\ NatOn(b, 1..n) /\ SumOver(b, 1..n) \in Nat /\ SumOver(b, 1..n) <= scale
        /\ scale - SumOver(b, 1..n) <= n - 1
    <2>1. /\ IsFiniteSet(V) /\ n \in Nat \ {0} /\ scale \in Nat /\ Ballots(s, W, V, n, scale)
          /\ Weighted(a, C, s, W, V, n) /\ t \in Nat /\ t = SumOver(s, V) /\ t > 0
      BY <1>1, <1>4, <1>5, <1>6
    <2>2. b = [k \in 1..n |-> a[k] \div t]
      BY <1>a
    <2> QED
      BY <2>1, <2>2, Averaged
  <1>w. PICK w, rest : w = WithRemainder(b, scale) /\ rest = scale - SumOver(b, 1..n)
    OBVIOUS
  <1>9. /\ w \in Seq(Nat) /\ Len(w) = n /\ Total(w) = scale
        /\ w[1] = b[1] + rest /\ \A k \in 2..n : w[k] = b[k]
    <2>1. b = [k \in 1..n |-> b[k]]
      BY <1>a
    <2>2. n \in Nat \ {0} /\ NatOn(b, 1..n) /\ scale \in Nat /\ SumOver(b, 1..n) <= scale
      BY <1>1, <1>4, <1>8
    <2>3. /\ WithRemainder(b, scale) \in Seq(Nat) /\ Len(WithRemainder(b, scale)) = n
          /\ Total(WithRemainder(b, scale)) = scale
          /\ WithRemainder(b, scale)[1] = b[1] + (scale - SumOver(b, 1..n))
          /\ \A k \in 2..n : WithRemainder(b, scale)[k] = b[k]
      BY <2>1, <2>2, RemainderAdded
    <2> QED
      BY <1>w, <2>3
  <1>10. rest \in Nat /\ rest <= n - 1
    BY <1>1, <1>8, <1>w
  <1>11. ASSUME NEW k \in 1..n
         PROVE  /\ Min(Asked(Heard(e), k)) \in Nat /\ Max(Asked(Heard(e), k)) \in Nat
                /\ Min(Asked(Heard(e), k)) <= b[k] /\ b[k] <= Max(Asked(Heard(e), k))
                /\ b[k] \in Nat
    <2>s. PICK S : S = Asked(Heard(e), k)
      OBVIOUS
    <2>1. S = {W[i][k] : i \in V}
      BY <1>v, <2>s DEF Asked, Heard, BallotOf
    <2>2. ASSUME NEW i \in V PROVE W[i][k] \in Nat /\ W[i][k] <= scale
      <3>f. PICK f : f = W[i]
        OBVIOUS
      <3>1. NatOn(f, 1..n) /\ SumOver(f, 1..n) = scale
        BY <1>4, <3>f DEF Ballots
      <3>4. f[k] \in Nat /\ f[k] <= scale
        <4>k. PICK K : K = 1..n
          OBVIOUS
        <4>1. IsFiniteSet(K) /\ NatOn(f, K) /\ SumOver(f, K) = scale /\ k \in K
          <5>1. IsFiniteSet(1..n)
            BY <1>4, FS_Interval
          <5> QED
            BY <3>1, <4>k, <5>1
        <4>2. f[k] \in Nat /\ f[k] <= SumOver(f, K)
          BY <4>1, PartOf
        <4> QED
          BY <4>1, <4>2
      <3> QED
        BY <3>4, <3>f
    <2>3. S \subseteq Nat /\ S # {} /\ \A x \in S : x <= scale
      BY <1>2, <2>1, <2>2
    <2>4. Min(S) \in S /\ Max(S) \in S /\ \A x \in S : Min(S) <= x /\ x <= Max(S)
      BY <1>1, <2>3, Extremes
    <2>m. PICK lo, hi : lo = Min(S) /\ hi = Max(S)
      OBVIOUS
    <2>5. lo \in Nat /\ hi \in Nat /\ \A i \in V : lo <= W[i][k] /\ W[i][k] <= hi
      BY <2>1, <2>3, <2>4, <2>m
    <2>6. lo <= a[k] \div t /\ a[k] \div t <= hi
      BY <1>1, <1>4, <1>5, <1>6, <2>5, AverageBetween
    <2>7. b[k] = a[k] \div t /\ b[k] \in Nat
      BY <1>8, <1>a DEF NatOn
    <2> QED
      BY <2>5, <2>6, <2>7, <2>m, <2>s
  <1>12. ASSUME NEW k \in DOMAIN w
         PROVE  w[k] \in Min(Asked(Heard(e), k))
                           .. (Max(Asked(Heard(e), k)) + IF k = 1 THEN Len(w) - 1 ELSE 0)
    <2>m. PICK lo, hi, x : /\ lo = Min(Asked(Heard(e), k)) /\ hi = Max(Asked(Heard(e), k))
                           /\ x = b[k]
      OBVIOUS
    <2>1. k \in 1..n
      BY <1>9
    <2>2. lo \in Nat /\ hi \in Nat /\ lo <= x /\ x <= hi /\ x \in Nat
      BY <1>11, <2>1, <2>m
    <2>3. CASE k = 1
      <3>1. w[k] = x + rest /\ Len(w) = n
        BY <1>9, <2>3, <2>m
      <3>2. x + rest \in lo .. (hi + (n - 1))
        BY <1>4, <1>10, <2>2
      <3> QED
        BY <2>3, <2>m, <3>1, <3>2
    <2>4. CASE k # 1
      <3>1. k \in 2..n
        BY <1>4, <2>1, <2>4
      <3>2. w[k] = x
        BY <1>9, <2>m, <3>1
      <3>3. x \in lo .. (hi + 0)
        BY <2>2
      <3> QED
        BY <2>4, <2>m, <3>2, <3>3
    <2> QED
      BY <2>3, <2>4
  <1>13. Within(w, Heard(e))
    BY <1>9, <1>12, <1>v DEF Within
  <1> QED
    BY <1>7, <1>13, <1>w

-----------------------------------------------------------------------------
(* The steps of the bots. *)

(* A row is appended behind the others. *)
LEMMA Appended ==
    ASSUME NEW c, c \in Seq(Range(c)), NEW r
    PROVE  /\ Append(c, r) \in Seq(Range(Append(c, r)))
           /\ DOMAIN Append(c, r) = 1..(Len(c) + 1)
           /\ \A i \in DOMAIN c : Append(c, r)[i] = c[i]
           /\ Append(c, r)[Len(c) + 1] = r
           /\ DOMAIN c = 1..Len(c)
  <1>1. c \in Seq(Range(c) \cup {r})
    OBVIOUS
  <1>3. /\ DOMAIN Append(c, r) = 1..(Len(c) + 1)
        /\ \A i \in DOMAIN c : Append(c, r)[i] = c[i]
        /\ Append(c, r)[Len(c) + 1] = r
        /\ DOMAIN c = 1..Len(c)
        /\ Len(c) \in Nat
    BY <1>1
  <1>4. Range(Append(c, r)) = Range(c) \cup {r}
    BY <1>3 DEF Range
  <1> QED
    BY <1>1, <1>3, <1>4

(* What one bot does is its own, and what it may do with its memory. *)
LEMMA BotReplaced ==
    ASSUME BotsKnown, Outgoing, NEW p \in Participants, NEW b,
           bot' = [bot EXCEPT ![p] = b], BotShape(b), Sendable(b)
    PROVE  BotsKnown' /\ Outgoing'
  <1>1. /\ DOMAIN bot = Participants
        /\ bot' = [q \in Participants |-> IF q = p THEN b ELSE bot[q]]
    BY DEF BotsKnown
  <1>2. bot'[p] = b /\ \A q \in Participants \ {p} : bot'[q] = bot[q]
    BY <1>1
  <1>3. BotsKnown'
    <2>1. \A q \in Participants : BotShape(bot'[q])
      BY <1>2 DEF BotsKnown
    <2>2. bot' = [q \in Participants |-> bot'[q]]
      BY <1>1
    <2> QED
      BY <2>1, <2>2 DEF BotsKnown
  <1>4. \A q \in Participants : Sendable(bot'[q])
    BY <1>2 DEF Outgoing
  <1> QED
    BY <1>3, <1>4 DEF Outgoing

LEMMA NoFileShape == FileShape(NoFile)
  <1>1. <<>> \in Seq(Nat)
    OBVIOUS
  <1> QED
    BY <1>1 DEF FileShape, NoFile

LEMMA EndKeeps ==
    ASSUME BotsKnown, Outgoing, NEW p \in Participants, NEW pc, pc # "sending", End(p, pc)
    PROVE  BotsKnown' /\ Outgoing'
  <1> DEFINE b == [pc |-> pc, file |-> NoFile, checked |-> TRUE]
  <1>1. BotShape(b)
    BY NoFileShape DEF BotShape
  <1>2. Sendable(b)
    BY DEF Sendable
  <1>3. bot' = [bot EXCEPT ![p] = b]
    BY DEF End
  <1> HIDE DEF b
  <1> QED
    BY <1>1, <1>2, <1>3, BotReplaced

LEMMA ProposeKeeps ==
    ASSUME BotsKnown, Outgoing, NEW p \in Participants, NEW e, NEW a, NEW w \in Seq(Nat),
           Propose(p, e, a, w)
    PROVE  BotsKnown' /\ Outgoing'
  <1>1. CASE Canonical(w)
    <2> DEFINE b == [pc |-> "idle",
                     file |-> [epoch |-> e, as |-> a, weights |-> w, intact |-> TRUE],
                     checked |-> bot[p].checked]
    <2>1. bot[p] = [pc |-> bot[p].pc, file |-> bot[p].file, checked |-> bot[p].checked]
      BY DEF BotsKnown, BotShape
    <2>2. bot' = [bot EXCEPT ![p] = b]
      BY <1>1, <2>1 DEF Propose, BotsKnown
    <2>3. BotShape(b) /\ Sendable(b)
      BY DEF BotShape, FileShape, Sendable
    <2> HIDE DEF b
    <2> QED
      BY <2>2, <2>3, BotReplaced
  <1>2. CASE ~Canonical(w)
    <2>1. End(p, "unmined")
      BY <1>2 DEF Propose
    <2> QED
      BY <2>1, EndKeeps
  <1> QED
    BY <1>1, <1>2

LEMMA EditKeeps ==
    ASSUME BotsKnown, Outgoing, NEW p \in Participants, Edit(p)
    PROVE  BotsKnown' /\ Outgoing'
  <1>1. PICK w \in Drafts : bot' = [bot EXCEPT ![p].file =
                    [epoch |-> @.epoch, as |-> @.as, weights |-> w, intact |-> FALSE]]
    BY DEF Edit
  <1> DEFINE f == [epoch |-> bot[p].file.epoch, as |-> bot[p].file.as,
                   weights |-> w, intact |-> FALSE]
             b == [pc |-> bot[p].pc, file |-> f, checked |-> bot[p].checked]
  <1>2. bot[p] = [pc |-> bot[p].pc, file |-> bot[p].file, checked |-> bot[p].checked]
    BY DEF BotsKnown, BotShape
  <1>3. bot' = [bot EXCEPT ![p].file = f]
    BY <1>1
  <1> HIDE DEF f
  <1>4. b = [bot[p] EXCEPT !.file = f]
    <2> DEFINE c == bot[p]
    <2>1. c = [pc |-> c.pc, file |-> c.file, checked |-> c.checked]
      BY <1>2
    <2> HIDE DEF c
    <2>2. [c EXCEPT !.file = f] = [pc |-> c.pc, file |-> f, checked |-> c.checked]
      BY <2>1
    <2> QED
      BY <2>2 DEF c
  <1>5. bot' = [bot EXCEPT ![p] = b]
    BY <1>1, <1>3, <1>4
  <1>6. BotShape(b) /\ Sendable(b)
    BY WeightAssumption DEF f, BotShape, FileShape, Sendable, Edit, Idle
  <1> HIDE DEF b
  <1> QED
    BY <1>5, <1>6, BotReplaced

LEMMA SendKeeps ==
    ASSUME BotsKnown, Outgoing, NEW p \in Participants, Send(p)
    PROVE  BotsKnown' /\ Outgoing'
  <1>1. PICK explicit \in BOOLEAN :
          IF (explicit /\ ~Verified(bot[p].file)) \/ ~Canonical(bot[p].file.weights)
          THEN End(p, "idle")
          ELSE bot' = [bot EXCEPT ![p].pc = "sending", ![p].checked = explicit]
    BY DEF Send
  <1>2. CASE (explicit /\ ~Verified(bot[p].file)) \/ ~Canonical(bot[p].file.weights)
    BY <1>1, <1>2, EndKeeps
  <1>3. CASE ~((explicit /\ ~Verified(bot[p].file)) \/ ~Canonical(bot[p].file.weights))
    <2> DEFINE b == [pc |-> "sending", file |-> bot[p].file, checked |-> explicit]
    <2>1. bot[p] = [pc |-> bot[p].pc, file |-> bot[p].file, checked |-> bot[p].checked]
      BY DEF BotsKnown, BotShape
    <2>2. bot' = [bot EXCEPT ![p] = b]
      BY <1>1, <1>3, <2>1 DEF BotsKnown
    <2>3. BotShape(b)
      BY DEF BotShape, BotsKnown
    <2>4. Sendable(b)
      BY <1>3 DEF Sendable, Verified
    <2> HIDE DEF b
    <2> QED
      BY <2>2, <2>3, <2>4, BotReplaced
  <1> QED
    BY <1>2, <1>3

-----------------------------------------------------------------------------
(* The steps. *)

LEMMA InitInv == ASSUME Init PROVE IInv
  <1>1. BotsKnown
    BY NoFileShape DEF Init, BotsKnown, BotShape
  <1>2. Outgoing
    BY DEF Init, Outgoing, Sendable
  <1>3. RowsFit /\ RowsTyped
    BY DEF Init, RowsFit, RowsTyped, Range
  <1>4. StakesTyped /\ ActiveKnown /\ TargetsKnown
    BY DEF Init, StakesTyped, ActiveKnown, TargetsKnown
  <1> QED
    BY <1>1, <1>2, <1>3, <1>4 DEF IInv

(* Rows are appended by Deliver alone, and the list changes in Relist alone. *)
LEMMA RowsUntouched ==
    ASSUME RowsFit, UNCHANGED claims, UNCHANGED <<listed, relisted>> \/ relisted'
    PROVE  RowsFit'
  BY DEF RowsFit, Fits, Canonical, Range

LEMMA DeliverKeeps ==
    ASSUME IInv, NEW p \in Participants, Deliver(p)
    PROVE  IInv'
  <1>1. BotsKnown' /\ Outgoing'
    BY EndKeeps DEF IInv, Deliver
  <1>2. RowsFit' /\ RowsTyped'
    <2>1. CASE Accepts(p) /\ ~Duplicate(p)
      <3>1. claims' = Append(claims, Row(p)) /\ listed' = listed /\ relisted' = relisted
        BY <2>1 DEF Deliver
      <3>2. claims \in Seq(Range(claims))
        BY DEF IInv, RowsFit
      <3>3. Row(p).weights = bot[p].file.weights
        BY DEF Row
      <3>4. Canonical(Row(p).weights)
        BY <3>3 DEF IInv, Outgoing, Sendable, Deliver
      <3>5. listed # 0 => Len(Row(p).weights) = listed
        BY <2>1, <3>3 DEF Accepts, ValidDimensions
      <3>6. \A i \in DOMAIN claims : Canonical(claims[i].weights)
                                       /\ (~relisted /\ listed # 0 => Len(claims[i].weights) = listed)
        BY DEF IInv, RowsFit, Fits
      <3> DEFINE r == Row(p)
      <3> HIDE DEF r
      <3>7. /\ Append(claims, r) \in Seq(Range(Append(claims, r)))
            /\ DOMAIN Append(claims, r) = 1..(Len(claims) + 1)
            /\ \A i \in DOMAIN claims : Append(claims, r)[i] = claims[i]
            /\ Append(claims, r)[Len(claims) + 1] = r
            /\ DOMAIN claims = 1..Len(claims)
            /\ Len(claims) \in Nat
        BY <3>2, Appended
      <3>8. \A i \in DOMAIN claims' : i \in DOMAIN claims \/ claims'[i] = r
        BY <3>1, <3>7 DEF r
      <3>9. ASSUME NEW i \in DOMAIN claims'
            PROVE  /\ Canonical(claims'[i].weights)
                   /\ ~relisted /\ listed # 0 => Len(claims'[i].weights) = listed
        <4>1. CASE i \in DOMAIN claims
          <5>1. claims'[i] = claims[i]
            BY <3>1, <3>7, <4>1 DEF r
          <5> QED
            BY <5>1, <3>6, <4>1
        <4>2. CASE claims'[i] = r
          BY <4>2, <3>4, <3>5 DEF r
        <4> QED
          BY <3>8, <4>1, <4>2
      <3>10. claims' \in Seq(Range(claims'))
        BY <3>1, <3>7 DEF r
      <3>11. RowsTyped'
        <4>1. r.weights \in Seq(Nat) /\ r.by \in Participants
          BY <3>3 DEF r, Row, IInv, BotsKnown, BotShape, FileShape
        <4>2. \A i \in DOMAIN claims :
                claims[i].weights \in Seq(Nat) /\ claims[i].by \in Participants
          BY DEF IInv, RowsTyped
        <4>3. ASSUME NEW i \in DOMAIN claims'
              PROVE  claims'[i].weights \in Seq(Nat) /\ claims'[i].by \in Participants
          <5>1. CASE i \in DOMAIN claims
            <6>1. claims'[i] = claims[i]
              BY <3>1, <3>7, <5>1 DEF r
            <6> QED
              BY <4>2, <5>1, <6>1
          <5>2. CASE claims'[i] = r
            BY <4>1, <5>2
          <5> QED
            BY <3>8, <5>1, <5>2
        <4> QED
          BY <4>3 DEF RowsTyped
      <3> QED
        BY <3>1, <3>9, <3>10, <3>11 DEF RowsFit, Fits, Canonical, Range
    <2>2. CASE ~(Accepts(p) /\ ~Duplicate(p))
      <3>1. UNCHANGED claims /\ UNCHANGED <<listed, relisted>>
        BY <2>2 DEF Deliver
      <3> QED
        BY <3>1, RowsUntouched DEF IInv, RowsTyped
    <2> QED
      BY <2>1, <2>2
  <1>3. StakesTyped' /\ ActiveKnown' /\ TargetsKnown'
    BY DEF IInv, Deliver, StakesTyped, ActiveKnown, TargetsKnown
  <1> QED
    BY <1>1, <1>2, <1>3 DEF IInv

(* A target is stored as the aggregation computed it. *)
LEMMA StoreKeeps ==
    ASSUME IInv, NEW e \in Epochs, Aggregable(e), StoreTarget(e)
    PROVE  TargetsKnown'
  <1>0. TargetsKnown /\ RowsFit /\ RowsTyped /\ StakesTyped
    BY DEF IInv
  <1>1. CASE AlreadyAggregated(e)
    <2>1. target' = target
      BY <1>1 DEF StoreTarget
    <2> QED
      BY <1>0, <2>1 DEF TargetsKnown
  <1>2. CASE ~ AlreadyAggregated(e)
    <2>r. PICK r, C, w : C = Heard(e) /\ w = Aggregate(e) /\ r = [claims |-> C, weights |-> w]
      OBVIOUS
    <2>1. Within(w, C)
      BY <1>0, <2>r, AggregateSound
    <2>2. target' = [target EXCEPT ![e] = r]
      BY <1>2, <2>r DEF StoreTarget
    <2>3. Within(r.weights, r.claims)
      BY <2>1, <2>r
    <2>4. DOMAIN target' = Epochs /\ target'[e] = r /\ \A d \in Epochs \ {e} : target'[d] = target[d]
      BY <1>0, <2>2 DEF TargetsKnown
    <2>5. \A d \in Epochs : target'[d] # NoTarget => Within(target'[d].weights, target'[d].claims)
      BY <1>0, <2>3, <2>4 DEF TargetsKnown
    <2> QED
      BY <2>4, <2>5 DEF TargetsKnown
  <1> QED
    BY <1>1, <1>2

LEMMA StepInv == ASSUME IInv, [Next]_vars PROVE IInv'
  <1>0. BotsKnown /\ Outgoing /\ RowsFit /\ RowsTyped /\ StakesTyped
        /\ ActiveKnown /\ TargetsKnown
    BY DEF IInv
  <1>b. ASSUME UNCHANGED bot PROVE BotsKnown' /\ Outgoing'
    BY <1>0, <1>b DEF BotsKnown, Outgoing
  <1>r. ASSUME UNCHANGED claims, UNCHANGED <<listed, relisted>> \/ relisted'
        PROVE  RowsFit' /\ RowsTyped'
    BY <1>0, <1>r, RowsUntouched DEF RowsTyped
  <1>s. ASSUME UNCHANGED stake PROVE StakesTyped'
    BY <1>0, <1>s DEF StakesTyped
  <1>a. ASSUME UNCHANGED active PROVE ActiveKnown'
    BY <1>0, <1>a DEF ActiveKnown
  <1>t. ASSUME UNCHANGED target PROVE TargetsKnown'
    BY <1>0, <1>t DEF TargetsKnown
  <1>1. CASE UNCHANGED vars
    BY <1>a, <1>b, <1>r, <1>s, <1>t, <1>1 DEF vars, relayerVars, IInv
  <1>q. ASSUME UNCHANGED relayerVars, BotsKnown' /\ Outgoing' PROVE IInv'
    BY <1>a, <1>r, <1>s, <1>t, <1>q DEF relayerVars, IInv
  <1>2. ASSUME NEW p \in Participants, Mine(p) \/ DaemonMine(p)
        PROVE  IInv'
    <2>1. PICK w \in Seq(Nat) : \E e, a : Propose(p, e, a, w)
      <3>1. CASE Mine(p)
        <4>1. PICK w \in Drafts : \E e, a : Propose(p, e, a, w)
          BY <3>1 DEF Mine
        <4>2. w \in Seq(Nat)
          BY WeightAssumption
        <4> QED
          BY <4>1, <4>2
      <3>2. CASE DaemonMine(p)
        <4>1. PICK s \in Scores : \E e : Propose(p, e, p, DaemonWeights(s))
          BY <3>2 DEF DaemonMine
        <4>2. s \in Seq(Nat) /\ Len(s) > 0 /\ DaemonScale \in Nat
          BY WeightAssumption, ScaleAssumption
        <4>3. Intify(s, DaemonScale) \in Seq(Nat)
          BY <4>2, Intified
        <4> QED
          BY <4>1, <4>3 DEF DaemonWeights
      <3> QED
        BY <1>2, <3>1, <3>2
    <2>2. UNCHANGED relayerVars
      BY <1>2 DEF Mine, DaemonMine
    <2>3. BotsKnown' /\ Outgoing'
      BY <1>0, <2>1, ProposeKeeps
    <2> QED
      BY <1>q, <2>2, <2>3
  <1>3. ASSUME NEW p \in Participants, Edit(p)
        PROVE  IInv'
    <2>1. BotsKnown' /\ Outgoing'
      BY <1>0, <1>3, EditKeeps
    <2> QED
      BY <1>q, <1>3, <2>1 DEF Edit
  <1>4. ASSUME NEW p \in Participants, Send(p)
        PROVE  IInv'
    <2>1. BotsKnown' /\ Outgoing'
      BY <1>0, <1>4, SendKeeps
    <2> QED
      BY <1>q, <1>4, <2>1 DEF Send
  <1>5. ASSUME NEW p \in Participants, GiveUp(p)
        PROVE  IInv'
    <2>1. BotsKnown' /\ Outgoing'
      BY <1>0, <1>5, EndKeeps DEF GiveUp
    <2> QED
      BY <1>q, <1>5, <2>1 DEF GiveUp
  <1>6. ASSUME NEW p \in Participants, Deliver(p)
        PROVE  IInv'
    BY <1>6, DeliverKeeps
  <1>8. ASSUME NEW p \in Participants, SetStake(p)
        PROVE  IInv'
    <2>1. PICK s \in Stakes : stake' = [stake EXCEPT ![p] = s]
      BY <1>8 DEF SetStake
    <2>2. s \in Nat
      BY WeightAssumption
    <2>3. StakesTyped'
      BY <1>0, <2>1, <2>2 DEF StakesTyped
    <2> QED
      BY <1>a, <1>b, <1>r, <1>t, <1>8, <2>3 DEF SetStake, IInv
  <1>9. ASSUME NEW e \in Epochs, AggregateByHand(e)
        PROVE  IInv'
    <2>1. TargetsKnown'
      BY <1>9, StoreKeeps DEF AggregateByHand
    <2> QED
      BY <1>a, <1>b, <1>r, <1>s, <1>9, <2>1 DEF AggregateByHand, IInv
  <1>10. CASE OpenEpoch
    <2>1. ActiveKnown'
      BY <1>10 DEF OpenEpoch, ActiveKnown
    <2> QED
      BY <1>b, <1>r, <1>s, <1>t, <1>10, <2>1 DEF OpenEpoch, IInv
  <1>11. CASE CloseEpoch
    <2>1. TargetsKnown'
      <3>1. CASE Aggregable(active)
        <4>1. active \in Epochs
          BY <1>0, <1>11 DEF CloseEpoch, ActiveKnown
        <4> QED
          BY <1>11, <3>1, <4>1, StoreKeeps DEF CloseEpoch
      <3>2. CASE ~ Aggregable(active)
        BY <1>t, <1>11, <3>2 DEF CloseEpoch
      <3> QED
        BY <3>1, <3>2
    <2>2. ActiveKnown'
      BY <1>11 DEF CloseEpoch, ActiveKnown
    <2> QED
      BY <1>b, <1>r, <1>s, <1>11, <2>1, <2>2 DEF CloseEpoch, IInv
  <1>12. CASE Relist
    BY <1>a, <1>b, <1>r, <1>s, <1>t, <1>12 DEF Relist, IInv
  <1> QED
    BY <1>1, <1>2, <1>3, <1>4, <1>5, <1>6, <1>8, <1>9, <1>10, <1>11, <1>12 DEF Next

THEOREM Inductive == Spec => []IInv
  BY InitInv, StepInv, PTL DEF Spec

(* Any participant with stake who votes is enough for an epoch to be *)
(* aggregated, in every fund that keeps its tokens.                  *)
THEOREM VotedEpochsAggregate == Spec => []VotedEpochAggregates
  <1>1. ASSUME RowsFit PROVE VotedEpochAggregates
    <2> SUFFICES ASSUME NEW e \in Epochs, Rows(e) # {}, TotalStake(e) > 0, ~relisted, listed # 0
                 PROVE  Aggregable(e)
      BY DEF VotedEpochAggregates
    <2>1. ASSUME NEW i \in Voices(e), NEW j \in Voices(e)
          PROVE  SameShape(claims[i].weights, claims[j].weights)
      <3>1. i \in DOMAIN claims /\ j \in DOMAIN claims
        BY DEF Voices, Rows
      <3> QED
        BY <1>1, <3>1 DEF RowsFit, Fits, Canonical, SameShape
    <2> QED
      BY <2>1 DEF Aggregable
  <1> QED
    BY Inductive, <1>1, PTL DEF IInv

(* What was checked is stored as it was mined. *)
THEOREM ClaimsStoredAsMined == Spec => StoredAsMined
  <1> DEFINE A == \A p \in Participants :
                    claims' # claims /\ bot'[p] # bot[p] /\ bot[p].checked => bot[p].file.intact
  <1>1. ASSUME IInv, [Next]_vars PROVE [A]_vars
    <2> SUFFICES ASSUME NEW p \in Participants, claims' # claims, bot'[p] # bot[p], bot[p].checked
                 PROVE  bot[p].file.intact
      OBVIOUS
    <2>1. PICK q \in Participants : Deliver(q)
      BY <1>1 DEF Next, vars, relayerVars, Mine, DaemonMine, Edit, Send, GiveUp, SetStake,
                  AggregateByHand, OpenEpoch, CloseEpoch, Relist
    <2>2. bot' = [bot EXCEPT ![q] = [pc |-> "idle", file |-> NoFile, checked |-> TRUE]]
      BY <2>1 DEF Deliver, End
    <2>3. p = q
      BY <2>2, <1>1 DEF IInv, BotsKnown
    <2>4. bot[p].pc = "sending"
      BY <2>1, <2>3 DEF Deliver
    <2> QED
      BY <1>1, <2>4 DEF IInv, Outgoing, Sendable
  <1>2. IInv /\ [Next]_vars => [A]_vars
    BY <1>1
  <1> HIDE DEF A
  <1>3. Spec => [][A]_vars
    BY Inductive, <1>2, PTL DEF Spec
  <1> QED
    BY <1>3 DEF A, StoredAsMined

(* In every fund, with any stakes and any number of tokens, what is stored as *)
(* an epoch's target is a distribution of the whole scale that gives no token *)
(* less than the least and none but the first more than the most that its     *)
(* participants asked for.                                                    *)
THEOREM TargetsAreWithin == Spec => []TargetWithinVoices
  <1>1. IInv => TargetWithinVoices
    BY DEF IInv, TargetsKnown, TargetWithinVoices, Aggregated, Within, Asked
  <1> QED
    BY Inductive, <1>1, PTL
=============================================================================
