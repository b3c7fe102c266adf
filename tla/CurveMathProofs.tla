--------------------------- MODULE CurveMathProofs ---------------------------
(***************************************************************************)
(* What the curve's arithmetic promises for every amount and reserve.      *)
(***************************************************************************)
EXTENDS CurveMath, TLAPS

\* Integer division by a positive number, as two inequalities.
LEMMA DivisionBounds ==
    ASSUME NEW n \in Nat, NEW d \in Nat, d > 0
    PROVE  /\ n \div d \in Nat
           /\ d * (n \div d) <= n
           /\ n < d * (n \div d) + d
BY Z3

\* Products of naturals are ordered as their factors: the one nonlinear fact
\* the bounds below need.
LEMMA ProductOrder ==
    ASSUME NEW a \in Nat, NEW b \in Nat, NEW c \in Nat, a <= b
    PROVE  /\ a * c \in Nat /\ b * c \in Nat /\ c * a \in Nat /\ c * b \in Nat
           /\ a * c <= b * c /\ c * a <= c * b
BY Z3

\* A quotient does not exceed m when the dividend does not exceed d * m.
LEMMA QuotientBound ==
    ASSUME NEW n \in Nat, NEW d \in Nat, d > 0, NEW m \in Nat, n <= d * m
    PROVE  n \div d <= m
<1> DEFINE q == n \div d
<1>1. q \in Nat /\ d * q <= n
  BY DivisionBounds
<1> HIDE DEF q
<1>2. CASE q >= m + 1
  <2>1. d * (m + 1) <= d * q
    BY <1>1, <1>2, ProductOrder
  <2>2. d * (m + 1) = d * m + d /\ d * m \in Nat
    BY Z3
  <2> QED
    BY <1>1, <2>1, <2>2
<1> QED
  BY <1>1, <1>2 DEF q

\* A quotient is at least m when the dividend is at least d * m.
LEMMA QuotientAbove ==
    ASSUME NEW n \in Nat, NEW d \in Nat, d > 0, NEW m \in Nat, d * m <= n
    PROVE  m <= n \div d
<1> DEFINE q == n \div d
<1>1. q \in Nat /\ n < d * q + d
  BY DivisionBounds
<1> HIDE DEF q
<1>2. CASE q + 1 <= m
  <2>1. d * (q + 1) <= d * m
    BY <1>1, <1>2, ProductOrder
  <2>2. d * (q + 1) = d * q + d /\ d * q \in Nat /\ d * m \in Nat
    BY <1>1, Z3
  <2> QED
    BY <1>1, <2>1, <2>2
<1> QED
  BY <1>1, <1>2 DEF q

\* A fee is never more than the amount it is taken from.
THEOREM FeeBounds ==
    ASSUME NEW amount \in Nat, NEW bps \in 0..BpsDenominator
    PROVE  Fee(amount, bps) \in 0..amount
<1>1. BpsDenominator \in Nat /\ BpsDenominator > 0
  BY DEF BpsDenominator
<1>2. amount * bps \in Nat /\ amount * bps <= BpsDenominator * amount
  <2>1. bps \in Nat /\ bps <= BpsDenominator
    BY <1>1
  <2>2. amount * bps \in Nat /\ amount * bps <= amount * BpsDenominator
    BY <1>1, <2>1, ProductOrder
  <2> QED
    BY <1>1, <2>2 DEF BpsDenominator
<1>3. (amount * bps) \div BpsDenominator \in Nat
  BY <1>1, <1>2, DivisionBounds
<1>4. (amount * bps) \div BpsDenominator <= amount
  BY <1>1, <1>2, QuotientBound
<1> QED
  BY <1>3, <1>4 DEF Fee

\* A fee of at most a tenth leaves something of every amount.
LEMMA FeeBelowAmount ==
    ASSUME NEW amount \in Nat, NEW bps \in 0..1000, amount > 0
    PROVE  Fee(amount, bps) \in Nat /\ Fee(amount, bps) < amount
<1> DEFINE n == amount * bps
           q == n \div 10000
<1>1. n \in Nat /\ n <= 1000 * amount
  <2>1. bps \in Nat /\ 1000 \in Nat /\ bps <= 1000
    OBVIOUS
  <2>2. amount * bps \in Nat /\ amount * bps <= amount * 1000
    BY <2>1, ProductOrder
  <2> QED
    BY <2>2
<1>2. q \in Nat /\ 10000 * q <= n
  <2> HIDE DEF n
  <2> QED
    BY <1>1, DivisionBounds
<1>3. Fee(amount, bps) = q
  BY DEF Fee, BpsDenominator
<1> HIDE DEF n, q
<1> QED
  BY <1>1, <1>2, <1>3

\* At the highest rate the program allows, ten fees do not exceed the amount.
LEMMA FeeTenth ==
    ASSUME NEW amount \in Nat, NEW bps \in 0..1000
    PROVE  10 * Fee(amount, bps) <= amount
<1> DEFINE n == amount * bps
           q == n \div 10000
<1>1. n \in Nat /\ n <= 1000 * amount
  <2>1. bps \in Nat /\ 1000 \in Nat /\ bps <= 1000
    OBVIOUS
  <2>2. amount * bps \in Nat /\ amount * bps <= amount * 1000
    BY <2>1, ProductOrder
  <2> QED
    BY <2>2
<1>2. q \in Nat /\ 10000 * q <= n
  <2> HIDE DEF n
  <2> QED
    BY <1>1, DivisionBounds
<1>3. Fee(amount, bps) = q
  BY DEF Fee, BpsDenominator
<1> HIDE DEF n, q
<1> QED
  BY <1>1, <1>2, <1>3

\* The creator's share of a fee leaves the platform something that is not
\* negative.
THEOREM CreatorShareBounds ==
    ASSUME NEW fee \in Nat, NEW creatorBps \in Nat, NEW totalBps \in Nat,
           creatorBps <= totalBps, totalBps > 0
    PROVE  CreatorShare(fee, creatorBps, totalBps) \in 0..fee
<1>1. fee * creatorBps \in Nat /\ fee * creatorBps <= totalBps * fee
  BY ProductOrder
<1>2. (fee * creatorBps) \div totalBps \in Nat
  BY <1>1, DivisionBounds
<1>3. (fee * creatorBps) \div totalBps <= fee
  BY <1>1, QuotientBound
<1> QED
  BY <1>2, <1>3 DEF CreatorShare

\* Splitting a fee cannot overflow where computing it did not: the checked_mul
\* of fee by creator_fee_bps, in buy, sell and the first purchase, never fails
\* once that of the amount by the total rate passed.
THEOREM SplitFits ==
    ASSUME NEW amount \in Nat, NEW creatorBps \in Nat, NEW totalBps \in 0..BpsDenominator,
           NEW max \in Nat, creatorBps <= totalBps, amount * totalBps <= max
    PROVE  Fee(amount, totalBps) * creatorBps <= max
<1> DEFINE fee == Fee(amount, totalBps)
<1>1. fee \in Nat /\ fee <= amount /\ totalBps \in Nat
  <2>1. BpsDenominator \in Nat
    BY DEF BpsDenominator
  <2>2. fee \in 0..amount
    BY FeeBounds
  <2> HIDE DEF fee
  <2> QED
    BY <2>1, <2>2
<1> HIDE DEF fee
<1>2. fee * creatorBps \in Nat /\ amount * creatorBps \in Nat
      /\ fee * creatorBps <= amount * creatorBps
  BY <1>1, ProductOrder
<1>3. amount * totalBps \in Nat /\ amount * creatorBps <= amount * totalBps
  BY <1>1, ProductOrder
<1> QED
  BY <1>2, <1>3 DEF fee

\* A swap takes out between nothing and the whole reserve.
THEOREM SwapBounds ==
    ASSUME NEW x \in Nat, NEW rin \in Nat, NEW rout \in Nat, rin + x > 0
    PROVE  SwapOut(x, rin, rout) \in 0..rout
<1>1. rin * rout \in Nat /\ rin * rout <= (rin + x) * rout
  BY ProductOrder
<1>2. (rin * rout) \div (rin + x) \in Nat
  BY <1>1, DivisionBounds
<1>3. (rin * rout) \div (rin + x) <= rout
  BY <1>1, QuotientBound
<1> QED
  BY <1>2, <1>3 DEF SwapOut

\* A swap never raises the product of the reserves, and lowers it by less than
\* the new reserve of what was paid in: one unit of what is taken out.
THEOREM SwapRounding ==
    ASSUME NEW x \in Nat, NEW rin \in Nat, NEW rout \in Nat, rin + x > 0
    PROVE  LET left == rout - SwapOut(x, rin, rout)
           IN  /\ (rin + x) * left <= rin * rout
               /\ rin * rout - (rin + x) * left < rin + x
<1> DEFINE k == rin * rout
           q == k \div (rin + x)
<1>1. k \in Nat
  BY ProductOrder
<1>2. q \in Nat /\ (rin + x) * q <= k /\ k < (rin + x) * q + (rin + x)
  <2> HIDE DEF k
  <2> QED
    BY <1>1, DivisionBounds
<1>3. rout - SwapOut(x, rin, rout) = q
  <2>1. SwapOut(x, rin, rout) = rout - q
    BY DEF SwapOut
  <2> HIDE DEF q
  <2> QED
    BY <1>2, <2>1
<1>4. (rin + x) * q \in Nat
  <2> HIDE DEF q
  <2> QED
    BY <1>2, ProductOrder
<1>5. k - (rin + x) * q < rin + x
  <2> DEFINE p == (rin + x) * q
  <2>1. p \in Nat /\ k < p + (rin + x)
    BY <1>2, <1>4
  <2> HIDE DEF p, k
  <2>2. k - p < rin + x
    BY <1>1, <2>1
  <2> QED
    BY <2>2 DEF p
<1> QED
  BY <1>2, <1>3, <1>5

\* What a swap of x takes out is x * rout / (rin + x), rounded up.
THEOREM SwapIsCeiling ==
    ASSUME NEW x \in Nat, NEW rin \in Nat, NEW rout \in Nat, rin + x > 0
    PROVE  LET out == SwapOut(x, rin, rout)
           IN  /\ x * rout <= (rin + x) * out
               /\ (rin + x) * out < x * rout + (rin + x)
<1> DEFINE d == rin + x
           k == rin * rout
           q == k \div d
<1>1. d \in Nat /\ d > 0 /\ k \in Nat
  BY ProductOrder
<1>2. q \in Nat /\ d * q <= k /\ k < d * q + d
  <2> HIDE DEF d, k
  <2> QED
    BY <1>1, DivisionBounds
<1>3. d * rout = k + x * rout /\ x * rout \in Nat
  BY Z3
<1>4. SwapOut(x, rin, rout) = rout - q
  BY DEF SwapOut
<1> HIDE DEF d, k, q
<1>5. d * (rout - q) = d * rout - d * q /\ d * q \in Nat
  BY <1>1, <1>2, Z3
<1>6. x * rout <= d * (rout - q) /\ d * (rout - q) < x * rout + d
  <2> DEFINE dr == d * rout  dq == d * q  xr == x * rout  dd == d * (rout - q)
  <2>1. dr = k + xr /\ xr \in Nat /\ dd = dr - dq /\ dq \in Nat /\ dq <= k /\ k < dq + d
    BY <1>2, <1>3, <1>5
  <2> HIDE DEF dr, dq, xr, dd
  <2>2. xr <= dd /\ dd < xr + d
    BY <1>1, <2>1
  <2> QED
    BY <2>2 DEF xr, dd
<1> QED
  BY <1>4, <1>6 DEF d

\* More paid in never takes less out.
THEOREM SwapMonotone ==
    ASSUME NEW x \in Nat, NEW y \in Nat, x <= y,
           NEW rin \in Nat, NEW rout \in Nat, rin + x > 0
    PROVE  SwapOut(x, rin, rout) <= SwapOut(y, rin, rout)
<1> DEFINE k == rin * rout
           qx == k \div (rin + x)
           qy == k \div (rin + y)
<1>1. k \in Nat
  BY ProductOrder
<1>2. qx \in Nat /\ qy \in Nat /\ (rin + y) * qy <= k
  <2> HIDE DEF k
  <2> QED
    BY <1>1, DivisionBounds
<1>3. (rin + x) * qy <= (rin + y) * qy /\ (rin + x) * qy \in Nat /\ (rin + y) * qy \in Nat
  <2> HIDE DEF qy
  <2> QED
    BY <1>2, ProductOrder
<1>4. (rin + x) * qy <= k
  <2> DEFINE l == (rin + x) * qy  r == (rin + y) * qy
  <2>1. l \in Nat /\ r \in Nat /\ l <= r /\ r <= k
    BY <1>2, <1>3
  <2> HIDE DEF l, r, k
  <2>2. l <= k
    BY <1>1, <2>1
  <2> QED
    BY <2>2 DEF l
<1>5. qy <= qx
  <2> HIDE DEF k, qy
  <2> QED
    BY <1>1, <1>2, <1>4, QuotientAbove
<1>6. SwapOut(x, rin, rout) = rout - qx /\ SwapOut(y, rin, rout) = rout - qy
  BY DEF SwapOut
<1> HIDE DEF qx, qy
<1> QED
  BY <1>2, <1>5, <1>6

\* What is left of a product of reserves after a swap, over a divisor no smaller
\* than the new reserve, is the quotient of the product or one less.
LEMMA LeftOver ==
    ASSUME NEW k \in Nat, NEW a \in Nat, a > 0, NEW d \in Nat, a <= d
    PROVE  /\ (a * (k \div a)) \div d \in Nat
           /\ (a * (k \div a)) \div d <= k \div d
           /\ k \div d <= (a * (k \div a)) \div d + 1
<1> DEFINE q == k \div a
           r == a * q
           u == k \div d
           v == r \div d
<1>1. q \in Nat /\ r <= k /\ k < r + a
  BY DivisionBounds
<1>2. r \in Nat
  <2> HIDE DEF q
  <2> QED
    BY <1>1, ProductOrder
<1> HIDE DEF q, r
<1>3. /\ u \in Nat /\ d * u <= k /\ k < d * u + d
      /\ v \in Nat /\ d * v <= r /\ r < d * v + d
  BY <1>2, DivisionBounds
<1>4. v <= u
  <2>1. d * v \in Nat
    <3> HIDE DEF v
    <3> QED
      BY <1>3, ProductOrder
  <2>2. d * v <= k
    <3> DEFINE dv == d * v
    <3>1. dv \in Nat /\ dv <= r
      BY <1>3, <2>1
    <3> HIDE DEF dv
    <3>2. dv <= k
      BY <1>1, <1>2, <3>1
    <3> QED
      BY <3>2 DEF dv
  <2> HIDE DEF v
  <2> QED
    BY <1>3, <2>2, QuotientAbove
<1>5. u <= v + 1
  <2>1. CASE u = 0
    BY <1>3, <2>1
  <2>2. CASE u > 0
    <3> DEFINE w == u - 1
    <3>1. w \in Nat /\ u = w + 1
      <4> HIDE DEF u
      <4> QED
        BY <1>3, <2>2
    <3> HIDE DEF w, u
    <3>2. d * u = d * w + d /\ d * w \in Nat
      BY <3>1, Z3
    <3>3. d * w <= r
      <4> DEFINE du == d * u  dw == d * w
      <4>1. du = dw + d /\ dw \in Nat /\ du <= k
        BY <1>3, <3>2
      <4> HIDE DEF du, dw
      <4>2. dw <= r
        BY <1>1, <1>2, <4>1
      <4> QED
        BY <4>2 DEF dw
    <3>4. w <= v
      BY <1>2, <3>1, <3>3, QuotientAbove
    <3> HIDE DEF v
    <3> QED
      BY <1>3, <3>1, <3>4
  <2> QED
    BY <1>3, <2>1, <2>2
<1> QED
  BY <1>3, <1>4, <1>5 DEF q, r

\* Swapping straight back gives what was paid in or, by rounding, one more,
\* while the reserve paid into does not exceed the other.
THEOREM RoundTripBounds ==
    ASSUME NEW x \in Nat, NEW rin \in Nat, NEW rout \in Nat,
           rin + x > 0, rin + x <= rout
    PROVE  LET out == SwapOut(x, rin, rout)
           IN  SwapOut(out, rout - out, rin + x) \in x..(x + 1)
<1> DEFINE a == rin + x
           k == rin * rout
           q == k \div a
           r == a * q
           v == r \div rout
<1>1. k \in Nat /\ a \in Nat /\ a > 0 /\ a <= rout /\ rout > 0 /\ q \in Nat
  <2>1. k \in Nat
    BY ProductOrder
  <2> HIDE DEF k
  <2> QED
    BY <2>1, DivisionBounds
<1>2. rin = k \div rout
  <2>1. k = rout * rin
    BY Z3
  <2>2. rin <= k \div rout /\ k \div rout <= rin
    <3> HIDE DEF k
    <3> QED
      BY <1>1, <2>1, QuotientAbove, QuotientBound
  <2>3. k \div rout \in Nat
    <3> HIDE DEF k
    <3> QED
      BY <1>1, DivisionBounds
  <2> QED
    BY <2>2, <2>3
<1>3. v \in Nat /\ v <= rin /\ rin <= v + 1
  <2> HIDE DEF k, a
  <2> QED
    BY <1>1, <1>2, LeftOver
<1>4. SwapOut(x, rin, rout) = rout - q
  BY DEF SwapOut
<1>5. SwapOut(rout - q, q, rin + x) = a - v
  <2>1. q + (rout - q) = rout
    <3> HIDE DEF q
    <3> QED
      BY <1>1
  <2>2. q * a = r
    <3> HIDE DEF q, a
    <3> QED
      BY <1>1
  <2> QED
    BY <2>1, <2>2 DEF SwapOut
<1>6. rout - (rout - q) = q
  <2> HIDE DEF q
  <2> QED
    BY <1>1
<1>7. a - v \in x..(x + 1)
  <2> HIDE DEF v
  <2> QED
    BY <1>3
<1> QED
  BY <1>4, <1>5, <1>6, <1>7

\* A swap made in two parts takes out what one swap of the sum would or, by
\* rounding, one unit more.
THEOREM SplitSwapBounds ==
    ASSUME NEW x \in Nat, NEW y \in Nat, NEW rin \in Nat, NEW rout \in Nat, rin + x > 0
    PROVE  LET first  == SwapOut(x, rin, rout)
               second == SwapOut(y, rin + x, rout - first)
               whole  == SwapOut(x + y, rin, rout)
           IN  whole <= first + second /\ first + second <= whole + 1
<1> DEFINE a == rin + x
           d == rin + (x + y)
           k == rin * rout
           q == k \div a
           u == k \div d
           v == (a * q) \div d
<1>1. k \in Nat /\ a \in Nat /\ a > 0 /\ d \in Nat /\ a <= d /\ a + y = d
      /\ q \in Nat /\ u \in Nat
  <2>1. k \in Nat
    BY ProductOrder
  <2> HIDE DEF k
  <2> QED
    BY <2>1, DivisionBounds
<1>2. v \in Nat /\ v <= u /\ u <= v + 1
  <2> HIDE DEF k, a, d
  <2> QED
    BY <1>1, LeftOver
<1>3. SwapOut(x, rin, rout) = rout - q /\ SwapOut(x + y, rin, rout) = rout - u
  BY DEF SwapOut
<1>4. rout - (rout - q) = q
  <2> HIDE DEF q
  <2> QED
    BY <1>1
<1>5. SwapOut(y, rin + x, q) = q - v
  BY <1>1 DEF SwapOut
<1>6. rout - u <= (rout - q) + (q - v) /\ (rout - q) + (q - v) <= (rout - u) + 1
  <2> HIDE DEF q, u, v
  <2> QED
    BY <1>1, <1>2
<1> QED
  BY <1>3, <1>4, <1>5, <1>6

\* The tokens that go with sol to Raydium are the most that do not lower the
\* price, and never more than the curve has left.
THEOREM SpotBounds ==
    ASSUME NEW sol \in Nat, NEW vSol \in Nat, NEW vTok \in Nat, vSol > 0, sol <= vSol
    PROVE  /\ TokensAtSpot(sol, vSol, vTok) \in 0..vTok
           /\ vSol * TokensAtSpot(sol, vSol, vTok) <= sol * vTok
           /\ sol * vTok < vSol * TokensAtSpot(sol, vSol, vTok) + vSol
<1>1. sol * vTok \in Nat /\ sol * vTok <= vSol * vTok
  BY ProductOrder
<1>2. (sol * vTok) \div vSol <= vTok
  BY <1>1, QuotientBound
<1> QED
  BY <1>1, <1>2, DivisionBounds DEF TokensAtSpot
=============================================================================
