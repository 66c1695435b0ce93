----------------------- MODULE StrategyDecisionProofs -----------------------
(***************************************************************************)
(* For any policy, pools, positions and weights: what the bot proposes can *)
(* be executed while its market stands, a dry run tells what an execution  *)
(* will do, and a rebalancing sale keeps a token's target.                 *)
(*                                                                         *)
(* The argument: the sizes that the bot computes are within the policy and *)
(* its minimum is the one that ClawCore computes, so every candidate is    *)
(* sound in the pool it was quoted in (Sound), and no step after that      *)
(* changes more of an intent than the time it has left.                    *)
(***************************************************************************)
EXTENDS StrategyDecision, Sums

-----------------------------------------------------------------------------
(* Arithmetic. *)

LEMMA Floor ==
    ASSUME NEW a \in Int, NEW b \in Nat \ {0}
    PROVE  /\ a \div b \in Int /\ b * (a \div b) <= a /\ a < b * (a \div b) + b
           /\ a \in Nat => a \div b \in Nat
  OBVIOUS

LEMMA Times ==
    ASSUME NEW a \in Int, NEW b \in Int, NEW c \in Nat
    PROVE  /\ a * b \in Int /\ a * b = b * a /\ (a * b) * c = a * (b * c)
           /\ a * (b + c) = a * b + a * c /\ a * (b - c) = a * b - a * c
           /\ a <= b => a * c <= b * c
           /\ a * c <= b * c /\ c # 0 => a <= b
  OBVIOUS

LEMMA Constants ==
    /\ BPS \in Nat \ {0} /\ MaxNotional \in Nat \ {0} /\ MaxSlippageBps \in Nat
    /\ BPS - MaxSlippageBps \in Nat /\ MaxImpactBps \in Nat \ {0} /\ Ttl \in Nat
  BY PolicyAssumption DEF BPS

LEMMA Quoted ==
    ASSUME NEW pool \in Pools, NEW n \in Nat
    PROVE  QuoteBuy(pool, n) \in Nat /\ QuoteSell(pool, n) \in Nat
  <1> PICK x, y : x = pool.asset /\ y = pool.token
    OBVIOUS
  <1>1. x \in Nat \ {0} /\ y \in Nat \ {0}
    BY PoolsAssumption
  <1>2. /\ n * y \in Nat /\ x + n \in Nat \ {0}
        /\ n * x \in Nat /\ y + n \in Nat \ {0}
    BY <1>1
  <1>3. (n * y) \div (x + n) \in Nat /\ (n * x) \div (y + n) \in Nat
    BY <1>2, Floor
  <1> QED
    BY <1>3 DEF QuoteBuy, QuoteSell

(* What the bot asks for at least is no more than what it was quoted. *)
LEMMA MinimumFits ==
    ASSUME NEW out \in Nat
    PROVE  ApplySlippage(out) \in Nat /\ ApplySlippage(out) <= out
  <1> PICK r, b : r = BPS - MaxSlippageBps /\ b = BPS
    OBVIOUS
  <1>1. r \in Nat /\ b \in Nat \ {0} /\ r <= b
    BY Constants
  <1> PICK x, z : x = out * r /\ z = x \div b
    OBVIOUS
  <1>2. x \in Nat /\ x <= out * b
    BY <1>1, Times
  <1>3. z \in Nat /\ b * z <= x
    BY <1>1, <1>2, Floor
  <1>4. z * b <= out * b
    BY <1>1, <1>2, <1>3, Times
  <1>5. z <= out
    BY <1>1, <1>3, <1>4, Times
  <1> QED
    BY <1>3, <1>5 DEF ApplySlippage

-----------------------------------------------------------------------------
(* A candidate is sound in the market it was quoted in.                     *)

QuoteIn(pool, action, n) == IF action = "BUY" THEN QuoteBuy(pool, n) ELSE QuoteSell(pool, n)

Sound(p, pool) ==
    /\ p.amountIn <= MaxNotional
    /\ p.quote > 0 /\ p.quote = QuoteIn(pool, p.action, p.amountIn)
    /\ p.min > 0 /\ p.min = ApplySlippage(p.quote)
    /\ p.router = pool.router /\ p.router \in Routers
    /\ p.recipient = IF p.action = "BUY" THEN "vault" ELSE "adapter"

Triggers == {"BUY", "REBALANCE", "TAKE_PROFIT", "STOP_LOSS", "TIME_EXIT", "none"}

Good(p) == p \in Intents /\ Sound(p, market[p.token])

LEMMA CandidateSound ==
    ASSUME market \in [Tokens -> Pools],
           NEW target \in Targets, NEW action \in {"BUY", "SELL"}, NEW t \in Tokens,
           NEW amount \in Nat, amount <= MaxNotional, NEW trigger \in Triggers,
           NEW out, out = QuoteIn(market[t], action, amount),
           NEW p \in Candidate(target, action, t, amount, out, trigger)
    PROVE  /\ Good(p)
           /\ p.trigger = trigger /\ p.amountIn = amount /\ p.token = t /\ p.snapshot = target
  <1> PICK pool : pool = market[t]
    OBVIOUS
  <1>1. pool \in Pools
    OBVIOUS
  <1>2. out \in Nat
    BY <1>1, Quoted DEF QuoteIn
  <1> PICK min : min = ApplySlippage(out)
    OBVIOUS
  <1>3. min \in Nat
    BY <1>2, MinimumFits
  <1>4. out > 0 /\ pool.router \in Routers /\ min > 0
    BY DEF Candidate
  <1> PICK recipient : recipient = IF action = "BUY" THEN "vault" ELSE "adapter"
    OBVIOUS
  <1>5. p = [action |-> action, token |-> t, amountIn |-> amount, quote |-> out, min |-> min,
             router |-> pool.router, recipient |-> recipient, left |-> Ttl,
             trigger |-> trigger, snapshot |-> target]
    BY DEF Candidate
  <1>6. Ttl \in Nat /\ recipient \in {"vault", "adapter", "other"}
    BY Constants
  <1>7. p \in Intents
    BY <1>2, <1>3, <1>4, <1>5, <1>6 DEF Intents, Triggers
  <1>8. Sound(p, market[p.token])
    BY <1>2, <1>3, <1>4, <1>5 DEF Sound
  <1> QED
    BY <1>5, <1>7, <1>8 DEF Good

LEMMA ScaledFits ==
    ASSUME NEW one \in Nat, NEW two \in Nat, one > 0
    PROVE  /\ Scaled(MaxNotional, Impact(one, two)) \in Nat
           /\ Scaled(MaxNotional, Impact(one, two)) <= MaxNotional
  <1> PICK m, c, b : m = MaxNotional /\ c = MaxImpactBps /\ b = BPS
    OBVIOUS
  <1>1. m \in Nat \ {0} /\ c \in Nat \ {0} /\ b \in Nat
    BY Constants
  <1> PICK i : i = Impact(one, two)
    OBVIOUS
  <1>2. i \in Nat
    <2>1. CASE two >= 2 * one
      BY <2>1 DEF Impact
    <2>2. CASE ~ (two >= 2 * one)
      <3>1. (2 * one - two) * b \in Nat
        <4>1. 2 * one - two \in Nat
          BY <2>2
        <4> QED
          BY <1>1, <4>1
      <3>2. 2 * one \in Nat \ {0}
        OBVIOUS
      <3>3. ((2 * one - two) * b) \div (2 * one) \in Nat
        BY <3>1, <3>2, Floor
      <3> QED
        BY <2>2, <3>3 DEF Impact
    <2> QED
      BY <2>1, <2>2
  <1>3. CASE i <= c
    BY <1>1, <1>3 DEF Scaled
  <1>4. CASE ~ (i <= c)
    <2>1. i \in Nat \ {0} /\ m * c \in Nat /\ c <= i
      BY <1>1, <1>2, <1>4
    <2> PICK d : d = (m * c) \div i
      OBVIOUS
    <2>2. d \in Nat /\ i * d <= m * c
      BY <2>1, Floor
    <2>3. c * m <= i * m
      BY <1>1, <1>2, <2>1, Times
    <2>4. d * i <= m * i
      BY <1>1, <1>2, <2>2, <2>3, Times
    <2>5. d <= m
      BY <1>1, <2>1, <2>2, <2>4, Times
    <2>6. Scaled(m, i) = Greatest(1, d)
      BY <1>4 DEF Scaled
    <2>7. Greatest(1, d) \in Nat /\ Greatest(1, d) <= m
      BY <1>1, <2>2, <2>5 DEF Greatest
    <2> QED
      BY <2>6, <2>7
  <1> QED
    BY <1>3, <1>4

LEMMA BuySound ==
    ASSUME market \in [Tokens -> Pools], NEW target \in Targets, NEW t \in Tokens,
           NEW p \in BuyCandidate(target, t)
    PROVE  Good(p) /\ p.trigger = "BUY"
  <1> PICK one, two : one = QuotedOnce(t) /\ two = QuoteBuy(market[t], 2 * MaxNotional)
    OBVIOUS
  <1> PICK amount : amount = Scaled(MaxNotional, Impact(one, two))
    OBVIOUS
  <1>1. one > 0 /\ p \in Candidate(target, "BUY", t, amount, QuoteBuy(market[t], amount), "BUY")
    BY DEF BuyCandidate
  <1>2. one \in Nat /\ two \in Nat
    <2>1. market[t] \in Pools /\ MaxNotional \in Nat /\ 2 * MaxNotional \in Nat
      BY Constants
    <2> QED
      BY <2>1, Quoted DEF QuotedOnce
  <1>3. amount \in Nat /\ amount <= MaxNotional
    BY <1>1, <1>2, ScaledFits
  <1>4. QuoteBuy(market[t], amount) = QuoteIn(market[t], "BUY", amount)
    BY DEF QuoteIn
  <1>5. "BUY" \in {"BUY", "SELL"} /\ "BUY" \in Triggers
    BY DEF Triggers
  <1> QED
    BY <1>1, <1>3, <1>4, <1>5, CandidateSound

LEMMA OwnSellSound ==
    ASSUME market \in [Tokens -> Pools], NEW target \in Targets, NEW t \in Tokens,
           NEW q \in [Tokens -> Nat], NEW cost, NEW old,
           NEW p \in OwnSell(q, target, t, cost, old)
    PROVE  Good(p) /\ p.trigger # "REBALANCE"
  <1> PICK amount : amount = Least(q[t], MaxNotional)
    OBVIOUS
  <1> PICK out : out = QuoteSell(market[t], amount)
    OBVIOUS
  <1> PICK trigger : trigger = Trigger(q[t], amount, out, cost, old)
    OBVIOUS
  <1>1. p \in Candidate(target, "SELL", t, amount, out, trigger)
    BY DEF OwnSell
  <1>2. amount \in Nat /\ amount <= MaxNotional
    BY Constants DEF Least
  <1>3. out = QuoteIn(market[t], "SELL", amount)
    BY DEF QuoteIn
  <1>4. trigger \in Triggers /\ trigger # "REBALANCE"
    <2>1. trigger \in {"TAKE_PROFIT", "STOP_LOSS", "TIME_EXIT", "none"}
      BY Zenon DEF Trigger
    <2> QED
      BY <2>1 DEF Triggers
  <1>5. "SELL" \in {"BUY", "SELL"}
    OBVIOUS
  <1> QED
    BY <1>1, <1>2, <1>3, <1>4, <1>5, CandidateSound

-----------------------------------------------------------------------------
(* A rebalancing sale and the weights.                                      *)

LEMMA SumIsSumOver ==
    ASSUME NEW f
    PROVE  Sum(f) = SumOver(f, DOMAIN f)
  BY DEF Sum, SumOver

LEMMA SumSplit ==
    ASSUME NEW f, DOMAIN f = Tokens, NatOn(f, Tokens), NEW t \in Tokens
    PROVE  /\ Sum(f) \in Nat /\ f[t] <= Sum(f)
           /\ Sum(f) = f[t] + SumOver(f, Tokens \ {t})
           /\ SumOver(f, Tokens \ {t}) \in Nat
  <1> PICK R : R = Tokens \ {t}
    OBVIOUS
  <1>1. IsFiniteSet(Tokens)
    BY DataAssumption
  <1>2. SumOver(f, Tokens) \in Nat /\ SumOver(f, Tokens) = f[t] + SumOver(f, R)
    BY <1>1, SumStep
  <1>3. IsFiniteSet(R) /\ NatOn(f, R)
    BY <1>1, FS_Subset DEF NatOn
  <1>4. SumOver(f, R) \in Nat
    BY <1>3, SumStep
  <1>5. Sum(f) = SumOver(f, Tokens)
    BY SumIsSumOver
  <1>6. f[t] \in Nat
    BY DEF NatOn
  <1> QED
    BY <1>2, <1>4, <1>5, <1>6

LEMMA SoldSum ==
    ASSUME NEW q, q \in [Tokens -> Nat], NEW p, p.token \in Tokens,
           p.amountIn \in Nat, p.amountIn <= q[p.token]
    PROVE  /\ Sum(q) \in Nat /\ q[p.token] <= Sum(q)
           /\ Sum(Sold(q, p)) = Sum(q) - p.amountIn
           /\ Sold(q, p)[p.token] = q[p.token] - p.amountIn
  <1>k. PICK k : k = Sold(q, p)
    OBVIOUS
  <1>t. PICK t, n : t = p.token /\ n = p.amountIn
    OBVIOUS
  <1>r. PICK R : R = Tokens \ {t}
    OBVIOUS
  <1>0. t \in Tokens /\ n \in Nat /\ n <= q[t] /\ q[t] \in Nat
    BY <1>t
  <1>1. DOMAIN k = Tokens /\ k[t] = q[t] - n /\ \A u \in R : k[u] = q[u]
    BY <1>k, <1>t, <1>0, <1>r DEF Sold
  <1>2. q[t] - n \in Nat
    BY <1>0
  <1>3. NatOn(k, Tokens) /\ NatOn(q, Tokens) /\ Same(k, q, R) /\ DOMAIN q = Tokens
    BY <1>0, <1>1, <1>2, <1>r DEF NatOn, Same
  <1>4. IsFiniteSet(R)
    BY <1>r, DataAssumption, FS_Subset
  <1>5. SumOver(k, R) = SumOver(q, R)
    BY <1>3, <1>4, SumSame
  <1>6. /\ Sum(q) \in Nat /\ q[t] <= Sum(q) /\ Sum(q) = q[t] + SumOver(q, R)
        /\ SumOver(q, R) \in Nat
    BY <1>0, <1>3, <1>r, SumSplit
  <1>7. Sum(k) = k[t] + SumOver(k, R)
    BY <1>0, <1>1, <1>3, <1>r, SumSplit
  <1>8. Sum(k) = Sum(q) - n
    BY <1>0, <1>1, <1>5, <1>6, <1>7
  <1> QED
    BY <1>k, <1>t, <1>1, <1>6, <1>8

(* x of Q held, w of T the target: selling less than the surplus's share of x *)
(* leaves a surplus.                                                          *)
LEMMA SurplusLeft ==
    ASSUME NEW x \in Nat, NEW Q \in Nat, x > 0, x <= Q,
           NEW w \in Nat, NEW T \in Nat, T > 0,
           NEW s \in Int, s = x * T - w * Q, NEW f \in Nat,
           f * (Q * T) <= BPS * s,
           NEW n \in Nat, BPS * n <= x * f
    PROVE  (x - n) * T - w * (Q - n) >= 0
  <1> PICK b, z : b = BPS /\ z = Q * T
    OBVIOUS
  <1>0. b \in Nat \ {0} /\ z \in Nat \ {0}
    <2>1. Q \in Nat \ {0} /\ T \in Nat \ {0}
      OBVIOUS
    <2>2. Q * T \in Nat \ {0}
      BY <2>1
    <2> QED
      BY <2>2, Constants
  <1>1. s >= 0
    <2>1. f * z \in Nat /\ f * z <= b * s
      BY <1>0
    <2> QED
      BY <1>0, <2>1
  <1>2. (b * n) * z <= (x * f) * z
    <2>1. b * n \in Nat /\ x * f \in Nat /\ b * n <= x * f
      BY <1>0
    <2> QED
      BY <1>0, <2>1, Times
  <1>3. (x * f) * z = x * (f * z) /\ x * (f * z) <= x * (b * s)
    <2>1. f * z \in Nat /\ b * s \in Nat /\ f * z <= b * s
      BY <1>0, <1>1
    <2> PICK g, h : g = f * z /\ h = b * s
      OBVIOUS
    <2>2. g * x <= h * x /\ g * x = x * g /\ h * x = x * h
      BY <2>1, Times
    <2> QED
      BY <1>0, <2>2, Times
  <1>4. (n * z) * b <= (x * s) * b
    <2>1. (b * n) * z = (n * z) * b
      BY <1>0
    <2>2. x * (b * s) = (x * s) * b
      BY <1>0
    <2>3. /\ (b * n) * z \in Int /\ (x * f) * z \in Int /\ x * (f * z) \in Int
          /\ x * (b * s) \in Int
      BY <1>0
    <2> PICK g, h, i, j : g = (b * n) * z /\ h = (x * f) * z /\ i = x * (f * z) /\ j = x * (b * s)
      OBVIOUS
    <2>4. g \in Int /\ h \in Int /\ i \in Int /\ j \in Int /\ g <= h /\ h = i /\ i <= j
      BY <1>2, <1>3, <2>3
    <2>5. g <= j
      BY <2>4
    <2> QED
      BY <2>1, <2>2, <2>5
  <1>5. n * z <= x * s
    <2>1. n * z \in Nat /\ x * s \in Int
      BY <1>0
    <2> QED
      BY <1>0, <1>4, <2>1, Times
  <1>6. x * s <= Q * s
    BY <1>1, Times
  <1>7. (n * T) * Q <= s * Q
    <2>1. n * z = (n * T) * Q
      OBVIOUS
    <2>2. Q * s = s * Q
      OBVIOUS
    <2>3. n * z \in Int /\ x * s \in Int /\ Q * s \in Int
      BY <1>0
    <2> QED
      BY <1>5, <1>6, <2>1, <2>2, <2>3
  <1>8. n * T <= s
    <2>1. n * T \in Nat /\ Q # 0
      OBVIOUS
    <2> QED
      BY <1>7, <2>1, Times
  <1>9. (x - n) * T - w * (Q - n) = s - n * T + w * n
    <2>1. (x - n) * T = x * T - n * T
      OBVIOUS
    <2>2. w * (Q - n) = w * Q - w * n
      OBVIOUS
    <2>3. x * T \in Int /\ n * T \in Int /\ w * Q \in Int /\ w * n \in Int
      OBVIOUS
    <2> QED
      BY <2>1, <2>2, <2>3
  <1> QED
    <2>1. n * T \in Nat /\ w * n \in Nat
      OBVIOUS
    <2> QED
      BY <1>8, <1>9, <2>1

Keeps(q, p) == p.amountIn = 1 \/ Surplus(Sold(q, p), p.snapshot, p.token) >= 0

LEMMA RebalanceSellSound ==
    ASSUME market \in [Tokens -> Pools], NEW q \in [Tokens -> Nat],
           NEW target \in Targets, ValidTarget(target),
           NEW t \in Tokens, q[t] > 0, Overweight(q, target, t),
           NEW p \in RebalanceSell(q, target, t)
    PROVE  Good(p) /\ Keeps(q, p)
  <1>v. PICK x, w, Q, T : x = q[t] /\ w = target[t] /\ Q = Sum(q) /\ T = Sum(target)
    OBVIOUS
  <1>1. x \in Nat /\ x > 0 /\ Q \in Nat /\ x <= Q
    <2>1. DOMAIN q = Tokens /\ NatOn(q, Tokens)
      BY DEF NatOn
    <2>2. q[t] \in Nat
      OBVIOUS
    <2> QED
      BY <1>v, <2>1, <2>2, SumSplit
  <1>2. w \in Nat /\ T \in Nat /\ T > 0
    <2>1. DOMAIN target = Tokens /\ NatOn(target, Tokens)
      BY DataAssumption DEF ValidTarget, NatOn
    <2>2. target[t] \in Nat
      BY <2>1 DEF NatOn
    <2> QED
      BY <1>v, <2>1, <2>2, SumSplit DEF ValidTarget
  <1>s. PICK s, z : s = x * T - w * Q /\ z = Q * T
    OBVIOUS
  <1>3. s = Surplus(q, target, t) /\ z = Scale(q, target)
    BY <1>v, <1>s DEF Surplus, Scale
  <1>4. s \in Int /\ z \in Nat \ {0}
    <2>1. Q \in Nat \ {0} /\ T \in Nat \ {0}
      BY <1>1, <1>2
    <2> QED
      BY <1>s, <1>1, <1>2, <2>1
  <1>5. 100 * s > z
    BY <1>3 DEF Overweight
  <1>b. PICK b, f : b = BPS /\ f = (b * s) \div z
    OBVIOUS
  <1>6. b \in Nat \ {0} /\ b = 10000
    BY <1>b DEF BPS
  <1>7. f \in Nat /\ f >= 1 /\ z * f <= b * s
    <2>1. b * s \in Int /\ b * s > z
      BY <1>4, <1>5, <1>6
    <2>2. f \in Int /\ z * f <= b * s /\ b * s < z * f + z
      BY <1>4, <1>b, <2>1, Floor
    <2>3. z * f > 0
      BY <1>4, <2>1, <2>2
    <2>4. f > 0
      BY <1>4, <2>2, <2>3
    <2> QED
      BY <2>2, <2>4
  <1>8. SellFraction(q, target, t) = f
    BY <1>3, <1>7, <1>b DEF SellFraction, Greatest
  <1>n. PICK g, n : g = (x * f) \div b /\ n = RebalanceAmount(q, target, t)
    OBVIOUS
  <1>9. g \in Nat /\ b * g <= x * f
    <2>1. x * f \in Nat
      BY <1>1, <1>7
    <2> QED
      BY <1>6, <1>n, <2>1, Floor
  <1>10. n = Least(Least(Greatest(1, g), MaxNotional), x)
    BY <1>8, <1>b, <1>n, <1>v DEF RebalanceAmount
  <1>11. n \in Nat /\ n <= MaxNotional /\ n <= x /\ (n = 1 \/ n <= g)
    BY <1>1, <1>9, <1>10, Constants DEF Least, Greatest
  <1>12. p \in Candidate(target, "SELL", t, n, QuoteSell(market[t], n), "REBALANCE")
    BY <1>n DEF RebalanceSell
  <1>13. /\ Good(p) /\ p.amountIn = n /\ p.token = t /\ p.snapshot = target
    <2>1. QuoteSell(market[t], n) = QuoteIn(market[t], "SELL", n)
      BY DEF QuoteIn
    <2>2. "SELL" \in {"BUY", "SELL"} /\ "REBALANCE" \in Triggers
      BY DEF Triggers
    <2> QED
      BY <1>11, <1>12, <2>1, <2>2, CandidateSound
  <1>14. Keeps(q, p)
    <2>1. CASE n = 1
      BY <1>13, <2>1 DEF Keeps
    <2>2. CASE n # 1
      <3>1. b * n <= x * f
        <4>1. n <= g /\ n * b <= g * b
          BY <1>6, <1>9, <1>11, <2>2, Times
        <4> QED
          BY <1>6, <1>9, <1>11, <1>1, <1>7, <4>1
      <3>2. f * (Q * T) <= BPS * s
        BY <1>4, <1>7, <1>b, <1>s
      <3>3. (x - n) * T - w * (Q - n) >= 0
        BY <1>1, <1>2, <1>s, <1>4, <1>7, <1>11, <1>b, <3>1, <3>2, SurplusLeft
      <3>4. Sum(Sold(q, p)) = Q - n /\ Sold(q, p)[t] = x - n
        <4>1. p.token \in Tokens /\ p.amountIn \in Nat /\ p.amountIn <= q[p.token]
          BY <1>v, <1>11, <1>13
        <4> QED
          BY <1>v, <1>13, <4>1, SoldSum
      <3>5. Surplus(Sold(q, p), target, t) = (x - n) * T - w * (Q - n)
        BY <1>v, <3>4 DEF Surplus
      <3> QED
        BY <1>13, <3>3, <3>5 DEF Keeps
    <2> QED
      BY <2>1, <2>2
  <1> QED
    BY <1>13, <1>14

(* Whatever proposeIntent settles on. *)
LEMMA PicksSound ==
    ASSUME market \in [Tokens -> Pools], NEW q \in [Tokens -> Nat], NEW target \in Targets,
           NEW quoted \in SUBSET Tokens, NEW report,
           NEW p \in Picks(q, target, quoted, report)
    PROVE  Good(p) /\ (p.trigger = "REBALANCE" => Keeps(q, p))
  <1>1. \/ /\ HasTarget(target) /\ ValidTarget(target) /\ p \in RebalanceSells(q, target, quoted)
        \/ p \in OwnSells(q, target, quoted, report)
        \/ p \in Buys(q, target, quoted)
    BY Zenon DEF Picks
  <1>2. CASE /\ HasTarget(target) /\ ValidTarget(target)
             /\ p \in RebalanceSells(q, target, quoted)
    <2>1. PICK t \in quoted : /\ q[t] > 0 /\ Overweight(q, target, t)
                              /\ p \in RebalanceSell(q, target, t)
      BY <1>2 DEF RebalanceSells
    <2>2. t \in Tokens
      OBVIOUS
    <2> QED
      BY <1>2, <2>1, <2>2, RebalanceSellSound
  <1>3. CASE p \in OwnSells(q, target, quoted, report)
    <2>1. p \in UNION {OwnSell(q, target, t, report.cost[t], t \in report.old) :
                          t \in {u \in quoted : q[u] > 0}}
      BY <1>3 DEF OwnSells
    <2>2. PICK t \in Tokens : p \in OwnSell(q, target, t, report.cost[t], t \in report.old)
      BY <2>1
    <2>3. PICK cost, old : cost = report.cost[t] /\ old = (t \in report.old)
      OBVIOUS
    <2>4. p \in OwnSell(q, target, t, cost, old)
      BY <2>2, <2>3
    <2> QED
      BY <2>4, OwnSellSound
  <1>4. CASE p \in Buys(q, target, quoted)
    <2>1. PICK t \in quoted : p \in BuyCandidate(target, t)
      BY <1>4 DEF Buys
    <2>2. t \in Tokens
      OBVIOUS
    <2>3. p.trigger = "BUY" /\ Good(p)
      BY <2>1, <2>2, BuySound
    <2> QED
      BY <2>3
  <1> QED
    BY <1>1, <1>2, <1>3, <1>4

-----------------------------------------------------------------------------
(* The inductive invariant. *)

Bots == [pc : {"ready", "relayed"}, intent : Intents, pool : Pools, seen : [Tokens -> Nat]]
Proposals == [intent : Intents, approved : BOOLEAN, pool : Pools, bot : BOOLEAN]

TypeOK ==
    /\ cash \in Nat /\ quantity \in [Tokens -> Nat] /\ market \in [Tokens -> Pools]
    /\ bot \in Bots \cup {Idle} /\ open \subseteq Proposals
    /\ off \in Switches \cup {"none"}

BotSound == bot \in Bots => Sound(bot.intent, bot.pool)
Proposed(S) == \A i \in S : i.bot => Sound(i.intent, i.pool)

IInv == TypeOK /\ BotSound /\ Proposed(open) /\ RebalanceKeepsTarget

LEMMA IdleIsNoBot == Idle \notin Bots /\ Idle.pc = "idle"
  BY DEF Idle, Bots

LEMMA Start == Init => IInv
  <1> SUFFICES ASSUME Init PROVE IInv
    OBVIOUS
  <1>1. cash \in Nat /\ quantity \in [Tokens -> Nat] /\ market \in [Tokens -> Pools]
    BY DataAssumption DEF Init
  <1>2. bot = Idle /\ open = {} /\ off = "none"
    BY DEF Init
  <1>3. TypeOK
    BY <1>1, <1>2 DEF TypeOK
  <1>4. BotSound /\ Proposed(open) /\ RebalanceKeepsTarget
    BY <1>2, IdleIsNoBot DEF BotSound, Proposed, RebalanceKeepsTarget
  <1> QED
    BY <1>3, <1>4 DEF IInv

(* As time passes an intent stays what it was. *)
LEMMA LaterSame ==
    ASSUME NEW p \in Intents, p.left > 0, NEW pool
    PROVE  /\ Later(p) \in Intents /\ (Sound(p, pool) => Sound(Later(p), pool))
           /\ Later(p).trigger = p.trigger
           /\ \A q : Keeps(q, p) => Keeps(q, Later(p))
  <1>k. PICK k : k = Later(p)
    OBVIOUS
  <1>1. p.left \in Nat /\ p.left - 1 \in Nat
    BY DEF Intents
  <1>2. k \in Intents
    BY <1>k, <1>1 DEF Later, Intents
  <1>3. /\ k.action = p.action /\ k.token = p.token /\ k.amountIn = p.amountIn
        /\ k.quote = p.quote /\ k.min = p.min /\ k.router = p.router
        /\ k.recipient = p.recipient /\ k.trigger = p.trigger /\ k.snapshot = p.snapshot
    BY <1>k DEF Later, Intents
  <1>4. Sound(p, pool) => Sound(k, pool)
    BY <1>3 DEF Sound
  <1>5. \A q : Sold(q, k) = Sold(q, p)
    BY <1>3 DEF Sold
  <1>6. \A q : Keeps(q, p) => Keeps(q, k)
    BY <1>3, <1>5 DEF Keeps
  <1> QED
    BY <1>k, <1>2, <1>3, <1>4, <1>6

LEMMA Decided == IInv /\ Decide => IInv'
  <1> SUFFICES ASSUME IInv, Decide PROVE IInv'
    OBVIOUS
  <1>1. PICK q \in Shown, target \in Targets, quoted \in SUBSET Tokens, report \in Reports :
          \E p \in Picks(q, target, quoted, report) :
            bot' = [pc |-> "ready", intent |-> p, pool |-> market[p.token], seen |-> q]
    BY DEF Decide
  <1>2. PICK p \in Picks(q, target, quoted, report) :
            bot' = [pc |-> "ready", intent |-> p, pool |-> market[p.token], seen |-> q]
    BY <1>1
  <1>3. /\ cash' = cash /\ quantity' = quantity /\ market' = market
        /\ open' = open /\ off' = off
    BY DEF Decide, vault
  <1>4. market \in [Tokens -> Pools] /\ q \in [Tokens -> Nat]
    BY DataAssumption DEF IInv, TypeOK, Shown
  <1>5. Good(p) /\ (p.trigger = "REBALANCE" => Keeps(q, p))
    BY <1>4, PicksSound
  <1>6. p \in Intents /\ Sound(p, market[p.token]) /\ market[p.token] \in Pools
    BY <1>4, <1>5 DEF Good, Intents
  <1>7. bot' \in Bots
    BY <1>2, <1>4, <1>6 DEF Bots
  <1>8. TypeOK'
    BY <1>3, <1>7 DEF IInv, TypeOK
  <1>9. BotSound' /\ RebalanceKeepsTarget'
    BY <1>2, <1>5, <1>6 DEF BotSound, RebalanceKeepsTarget, Keeps
  <1>10. Proposed(open)'
    BY <1>3 DEF IInv, Proposed
  <1> QED
    BY <1>8, <1>9, <1>10 DEF IInv

LEMMA BotSteps == IInv /\ (Abandon \/ Relay) => IInv'
  <1> SUFFICES ASSUME IInv, Abandon \/ Relay PROVE IInv'
    OBVIOUS
  <1>1. /\ cash' = cash /\ quantity' = quantity /\ market' = market
        /\ open' = open /\ off' = off
    BY DEF Abandon, Relay, vault
  <1>2. /\ bot' \in Bots \cup {Idle} /\ bot'.pc # "ready"
        /\ bot' \in Bots => Sound(bot'.intent, bot'.pool)
    <2>1. CASE bot' = Idle
      BY <2>1, IdleIsNoBot
    <2>2. CASE Relay
      <3>1. bot \in Bots
        BY <2>2, IdleIsNoBot DEF IInv, TypeOK, Relay
      <3>2. /\ bot' \in Bots /\ bot'.pc = "relayed"
            /\ bot'.intent = bot.intent /\ bot'.pool = bot.pool
        BY <2>2, <3>1 DEF Relay, Bots
      <3> QED
        BY <3>1, <3>2 DEF IInv, BotSound
    <2> QED
      BY <2>1, <2>2 DEF Abandon
  <1>3. TypeOK'
    BY <1>1, <1>2 DEF IInv, TypeOK
  <1>4. BotSound' /\ RebalanceKeepsTarget'
    BY <1>2 DEF BotSound, RebalanceKeepsTarget
  <1>5. Proposed(open)'
    BY <1>1 DEF IInv, Proposed
  <1> QED
    BY <1>3, <1>4, <1>5 DEF IInv

LEMMA ProposalSteps ==
    IInv /\ (ProposeOnchain \/ \E p \in HandMade : ProposeByHand(p)) => IInv'
  <1> SUFFICES ASSUME IInv, ProposeOnchain \/ \E p \in HandMade : ProposeByHand(p)
               PROVE  IInv'
    OBVIOUS
  <1>1. cash' = cash /\ quantity' = quantity /\ market' = market /\ off' = off
    BY DEF ProposeOnchain, ProposeByHand, vault
  <1>2. market \in [Tokens -> Pools] /\ open \subseteq Proposals
    BY DEF IInv, TypeOK
  <1>3. /\ bot' \in Bots \cup {Idle} /\ open' \subseteq Proposals
        /\ BotSound' /\ RebalanceKeepsTarget' /\ Proposed(open')
    <2>1. CASE ProposeOnchain
      <3>1. bot \in Bots /\ bot' = Idle
        BY <2>1, IdleIsNoBot DEF IInv, TypeOK, ProposeOnchain
      <3>2. BotSound' /\ RebalanceKeepsTarget'
        BY <3>1, IdleIsNoBot DEF BotSound, RebalanceKeepsTarget
      <3>i. PICK i : i = [intent |-> bot.intent, approved |-> FALSE, pool |-> bot.pool,
                          bot |-> TRUE]
        OBVIOUS
      <3>3. open' \subseteq open \cup {i}
        BY <2>1, <3>i DEF ProposeOnchain, Propose
      <3>4. bot.intent \in Intents /\ bot.pool \in Pools /\ Sound(bot.intent, bot.pool)
        BY <3>1 DEF IInv, BotSound, Bots
      <3>5. i \in Proposals /\ Sound(i.intent, i.pool)
        BY <3>i, <3>4 DEF Proposals
      <3>6. Proposed(open')
        BY <3>3, <3>5 DEF IInv, Proposed
      <3> QED
        BY <1>2, <3>1, <3>2, <3>3, <3>5, <3>6
    <2>2. CASE \E p \in HandMade : ProposeByHand(p)
      <3>1. PICK p \in HandMade : ProposeByHand(p)
        BY <2>2
      <3>2. bot' = bot
        BY <3>1 DEF ProposeByHand
      <3>i. PICK i : i = [intent |-> p, approved |-> FALSE, pool |-> market[p.token],
                          bot |-> FALSE]
        OBVIOUS
      <3>3. open' = open \cup {i}
        BY <3>1, <3>i DEF ProposeByHand, Propose
      <3>4. p \in Intents /\ p.token \in Tokens
        BY DataAssumption DEF Intents
      <3>5. i \in Proposals /\ ~ i.bot
        BY <1>2, <3>i, <3>4 DEF Proposals
      <3>6. Proposed(open')
        BY <3>3, <3>5 DEF IInv, Proposed
      <3>7. bot' \in Bots \cup {Idle} /\ BotSound' /\ RebalanceKeepsTarget'
        BY <3>2 DEF IInv, TypeOK, BotSound, RebalanceKeepsTarget
      <3> QED
        BY <1>2, <3>3, <3>5, <3>6, <3>7
    <2> QED
      BY <2>1, <2>2
  <1>4. TypeOK'
    BY <1>1, <1>3 DEF IInv, TypeOK
  <1> QED
    BY <1>3, <1>4 DEF IInv, Proposed

LEMMA Approval == IInv /\ (\E i \in open : Approve(i)) => IInv'
  <1> SUFFICES ASSUME IInv, NEW i \in open, Approve(i) PROVE IInv'
    OBVIOUS
  <1>1. /\ cash' = cash /\ quantity' = quantity /\ market' = market
        /\ bot' = bot /\ off' = off
    BY DEF Approve, vault
  <1>k. PICK k : k = [i EXCEPT !.approved = TRUE]
    OBVIOUS
  <1>2. open \subseteq Proposals /\ i \in Proposals
    BY DEF IInv, TypeOK
  <1>3. k \in Proposals /\ k.bot = i.bot /\ k.intent = i.intent /\ k.pool = i.pool
    BY <1>k, <1>2 DEF Proposals
  <1>4. open' = (open \ {i}) \cup {k}
    BY <1>k DEF Approve
  <1>5. Proposed(open')
    BY <1>3, <1>4 DEF IInv, Proposed
  <1>6. open' \subseteq Proposals
    BY <1>2, <1>3, <1>4
  <1>7. TypeOK'
    BY <1>1, <1>6 DEF IInv, TypeOK
  <1>8. BotSound' /\ RebalanceKeepsTarget'
    BY <1>1 DEF IInv, BotSound, RebalanceKeepsTarget
  <1> QED
    BY <1>5, <1>7, <1>8 DEF IInv, Proposed

LEMMA Execution == IInv /\ (\E i \in open : Execute(i)) => IInv'
  <1> SUFFICES ASSUME IInv, NEW i \in open, Execute(i) PROVE IInv'
    OBVIOUS
  <1>p. PICK p : p = i.intent
    OBVIOUS
  <1>1. /\ i \in Proposals /\ open \subseteq Proposals /\ cash \in Nat
        /\ quantity \in [Tokens -> Nat] /\ market \in [Tokens -> Pools]
    BY DEF IInv, TypeOK
  <1>2. p \in Intents /\ p.token \in Tokens /\ p.amountIn \in Nat /\ p.action \in {"BUY", "SELL"}
    BY <1>p, <1>1 DEF Proposals, Intents
  <1>3. Funded(p) /\ Traded(p)
    BY <1>p DEF Execute, CanExecute
  <1>m. PICK pool \in Pools : market' = [market EXCEPT ![p.token] = pool]
    BY <1>p DEF Execute
  <1>4. market' \in [Tokens -> Pools]
    BY <1>1, <1>m
  <1>5. market[p.token] \in Pools
    BY <1>1, <1>2
  <1>n. PICK n, out : n = p.amountIn /\ out = Quote(p)
    OBVIOUS
  <1>6. n \in Nat /\ out \in Nat
    BY <1>2, <1>5, <1>n, Quoted DEF Quote
  <1>7. cash' \in Nat /\ quantity' \in [Tokens -> Nat]
    <2>1. CASE p.action = "BUY"
      <3>1. cash' = cash - n /\ cash >= n
            /\ quantity' = [quantity EXCEPT ![p.token] = quantity[p.token] + out]
        BY <1>3, <1>n, <2>1 DEF Traded, Funded
      <3>2. quantity[p.token] + out \in Nat /\ cash - n \in Nat
        BY <1>1, <1>2, <1>6, <3>1
      <3> QED
        BY <1>1, <3>1, <3>2
    <2>2. CASE p.action # "BUY"
      <3>1. cash' = cash + out /\ quantity[p.token] >= n
            /\ quantity' = [quantity EXCEPT ![p.token] = quantity[p.token] - n]
        BY <1>3, <1>n, <2>2 DEF Traded, Funded
      <3>2. quantity[p.token] - n \in Nat /\ cash + out \in Nat
        BY <1>1, <1>2, <1>6, <3>1
      <3> QED
        BY <1>1, <3>1, <3>2
    <2> QED
      BY <2>1, <2>2
  <1>8. open' = open \ {i} /\ bot' = bot /\ off' = off
    BY DEF Execute
  <1>9. TypeOK'
    BY <1>1, <1>4, <1>7, <1>8 DEF IInv, TypeOK
  <1>10. BotSound' /\ RebalanceKeepsTarget' /\ Proposed(open')
    BY <1>8 DEF IInv, BotSound, RebalanceKeepsTarget, Proposed
  <1> QED
    BY <1>9, <1>10 DEF IInv, Proposed

LEMMA WorldSteps == IInv /\ (CashMoves \/ Switch \/ \E t \in Tokens : MarketMoves(t)) => IInv'
  <1> SUFFICES ASSUME IInv, CashMoves \/ Switch \/ \E t \in Tokens : MarketMoves(t)
               PROVE  IInv'
    OBVIOUS
  <1>1. open' = open /\ bot' = bot /\ quantity' = quantity
    BY DEF CashMoves, Switch, MarketMoves, vault
  <1>2. cash' \in Nat
    <2>1. cash \in Nat
      BY DEF IInv, TypeOK
    <2> QED
      BY <2>1, DataAssumption DEF CashMoves, Switch, MarketMoves, vault
  <1>3. market' \in [Tokens -> Pools]
    <2>1. market \in [Tokens -> Pools]
      BY DEF IInv, TypeOK
    <2>2. CASE \E t \in Tokens : MarketMoves(t)
      <3>1. PICK t \in Tokens, pool \in Pools : market' = [market EXCEPT ![t] = pool]
        BY <2>2 DEF MarketMoves
      <3> QED
        BY <2>1, <3>1
    <2> QED
      BY <2>1, <2>2 DEF CashMoves, Switch
  <1>4. off' \in Switches \cup {"none"}
    <2>1. off \in Switches \cup {"none"}
      BY DEF IInv, TypeOK
    <2> QED
      BY <2>1, Zenon DEF CashMoves, Switch, MarketMoves
  <1>5. TypeOK'
    BY <1>1, <1>2, <1>3, <1>4 DEF IInv, TypeOK
  <1>6. BotSound' /\ RebalanceKeepsTarget' /\ Proposed(open')
    BY <1>1 DEF IInv, BotSound, RebalanceKeepsTarget, Proposed
  <1> QED
    BY <1>5, <1>6 DEF IInv, Proposed

LEMMA Ticked == IInv /\ Tick => IInv'
  <1> SUFFICES ASSUME IInv, Tick PROVE IInv'
    OBVIOUS
  <1>1. cash' = cash /\ quantity' = quantity /\ market' = market /\ off' = off
    BY DEF Tick, vault
  <1>2. open \subseteq Proposals /\ bot \in Bots \cup {Idle}
    BY DEF IInv, TypeOK
  <1>3. ASSUME NEW k \in open'
        PROVE  k \in Proposals /\ (k.bot => Sound(k.intent, k.pool))
    <2>1. PICK i \in open : i.intent.left > 0 /\ k = [i EXCEPT !.intent = Later(i.intent)]
      BY DEF Tick
    <2>p. PICK p : p = i.intent
      OBVIOUS
    <2>2. i \in Proposals /\ p \in Intents /\ p.left > 0
      BY <1>2, <2>1, <2>p DEF Proposals
    <2>l. PICK l : l = Later(p)
      OBVIOUS
    <2>3. l \in Intents /\ (Sound(p, i.pool) => Sound(l, i.pool))
      BY <2>2, <2>l, LaterSame
    <2>4. k = [i EXCEPT !.intent = l]
      BY <2>1, <2>p, <2>l
    <2>5. k \in Proposals /\ k.bot = i.bot /\ k.pool = i.pool /\ k.intent = l
      BY <2>2, <2>3, <2>4 DEF Proposals
    <2>6. i.bot => Sound(p, i.pool)
      BY <2>p DEF IInv, Proposed
    <2> QED
      BY <2>3, <2>5, <2>6
  <1>4. open' \subseteq Proposals /\ Proposed(open')
    BY <1>3 DEF Proposed
  <1>5. bot' \in Bots \cup {Idle} /\ BotSound' /\ RebalanceKeepsTarget'
    <2>1. CASE bot' = bot
      BY <1>2, <2>1 DEF IInv, BotSound, RebalanceKeepsTarget
    <2>2. CASE bot' # bot
      <3>1. bot \in Bots /\ bot.intent.left > 0
            /\ bot' = [bot EXCEPT !.intent = Later(bot.intent)]
        BY <1>2, <2>2 DEF Tick
      <3>p. PICK p, l : p = bot.intent /\ l = Later(p)
        OBVIOUS
      <3>2. p \in Intents /\ p.left > 0
        BY <3>1, <3>p DEF Bots
      <3>3. /\ l \in Intents /\ l.trigger = p.trigger
            /\ (Sound(p, bot.pool) => Sound(l, bot.pool))
            /\ \A q : Keeps(q, p) => Keeps(q, l)
        BY <3>2, <3>p, LaterSame
      <3>4. bot' = [bot EXCEPT !.intent = l]
        BY <3>1, <3>p
      <3>5. /\ bot' \in Bots /\ bot'.intent = l /\ bot'.pool = bot.pool
            /\ bot'.pc = bot.pc /\ bot'.seen = bot.seen
        BY <3>1, <3>3, <3>4 DEF Bots
      <3>6. Sound(p, bot.pool)
        BY <3>1, <3>p DEF IInv, BotSound
      <3>7. bot.pc = "ready" /\ p.trigger = "REBALANCE" => Keeps(bot.seen, p)
        BY <3>p DEF IInv, RebalanceKeepsTarget, Keeps
      <3>8. bot'.pc = "ready" /\ l.trigger = "REBALANCE" => Keeps(bot'.seen, l)
        BY <3>3, <3>5, <3>7
      <3>9. RebalanceKeepsTarget'
        BY <3>5, <3>8 DEF RebalanceKeepsTarget, Keeps
      <3>10. BotSound'
        BY <3>3, <3>5, <3>6 DEF BotSound
      <3> QED
        BY <3>5, <3>9, <3>10
    <2> QED
      BY <2>1, <2>2
  <1>6. TypeOK'
    BY <1>1, <1>4, <1>5 DEF IInv, TypeOK
  <1> QED
    BY <1>4, <1>5, <1>6 DEF IInv, Proposed

LEMMA Unmoved == IInv /\ UNCHANGED vars => IInv'
  <1> SUFFICES ASSUME IInv, UNCHANGED vars PROVE IInv'
    OBVIOUS
  <1>1. /\ cash' = cash /\ quantity' = quantity /\ market' = market
        /\ bot' = bot /\ open' = open /\ off' = off
    BY DEF vars, vault
  <1> QED
    BY <1>1 DEF IInv, TypeOK, BotSound, Proposed, RebalanceKeepsTarget

-----------------------------------------------------------------------------
(* The inductive invariant: every trade the bot decided on, whether it still  *)
(* carries it or the chain has it, is one its own market, the risk policy and *)
(* the adapter's rules allow.                                                 *)
THEOREM DecisionInductive == Spec => []IInv
  <1>1. IInv /\ [Next]_vars => IInv'
    <2> SUFFICES ASSUME IInv, [Next]_vars PROVE IInv'
      OBVIOUS
    <2>1. CASE Decide
      BY <2>1, Decided
    <2>2. CASE Abandon \/ Relay
      BY <2>2, BotSteps
    <2>3. CASE ProposeOnchain \/ \E p \in HandMade : ProposeByHand(p)
      BY <2>3, ProposalSteps
    <2>4. CASE \E i \in open : Approve(i)
      BY <2>4, Approval
    <2>5. CASE \E i \in open : Execute(i)
      BY <2>5, Execution
    <2>6. CASE CashMoves \/ Switch \/ \E t \in Tokens : MarketMoves(t)
      BY <2>6, WorldSteps
    <2>7. CASE Tick
      BY <2>7, Ticked
    <2>8. CASE UNCHANGED vars
      BY <2>8, Unmoved
    <2> QED
      BY <2>1, <2>2, <2>3, <2>4, <2>5, <2>6, <2>7, <2>8 DEF Next
  <1> QED
    BY Start, <1>1, PTL DEF Spec

(* A trade the vault cannot pay for is not made: cash and positions never go *)
(* below zero, and the bot and the chain carry nothing but intents.          *)
THEOREM DecisionTypes == Spec => []TypeOK
  <1>1. IInv => TypeOK
    BY DEF IInv
  <1> QED
    BY <1>1, DecisionInductive, PTL

LEMMA SoundExecutes ==
    ASSUME TypeOK, NEW i \in Proposals, Sound(i.intent, i.pool), i.approved,
           i.intent.left > 0, market[i.intent.token] = i.pool, off = "none", Funded(i.intent)
    PROVE  CanExecute(i)
  <1>p. PICK p, pool : p = i.intent /\ pool = i.pool
    OBVIOUS
  <1>1. p \in Intents /\ p.amountIn \in Nat /\ p.quote \in Nat /\ p.left \in Nat
    BY <1>p DEF Proposals, Intents
  <1>s. Sound(p, pool)
    BY <1>p
  <1>2. Quote(p) = p.quote
    BY <1>p, <1>s DEF Quote, QuoteIn, Sound
  <1>3. p.min <= p.quote /\ p.min \in Nat
    BY <1>1, <1>s, MinimumFits DEF Sound
  <1>4. SlippageOk(p)
    <2>1. PICK n : n = ApplySlippage(p.quote)
      OBVIOUS
    <2>2. p.min = n /\ p.quote > 0 /\ p.min > 0 /\ n \in Nat
      BY <1>3, <1>s, <2>1 DEF Sound
    <2>3. n = (p.quote * (BPS - MaxSlippageBps)) \div BPS
      BY <2>1 DEF ApplySlippage
    <2>4. p.min >= n
      BY <2>2
    <2> QED
      BY <2>2, <2>3, <2>4 DEF SlippageOk
  <1>5. ValidInCore(i)
    BY <1>p, <1>s, <1>4 DEF ValidInCore, Sound
  <1>6. RecipientOk(p) /\ p.router \in Routers /\ RouterPays(p)
    BY <1>p, <1>s, <1>1, <1>2, <1>3 DEF RecipientOk, RouterPays, Sound
  <1>7. off \notin Switches \ {"lens"} /\ p.left >= 0
    BY <1>1 DEF Switches
  <1> QED
    BY <1>p, <1>5, <1>6, <1>7 DEF CanExecute

(* What the bot proposed can be executed: for every market, every policy and  *)
(* every amount, the minimum the bot signed is the one ClawCore computes, and *)
(* the router pays at least that much while the pool stands.                  *)
THEOREM ProposalsExecute == Spec => []ProposalExecutable
  <1>1. IInv => ProposalExecutable
    <2> SUFFICES ASSUME IInv, NEW i \in open, i.bot, i.approved, i.intent.left > 0,
                        market[i.intent.token] = i.pool, off = "none", Funded(i.intent)
                 PROVE  CanExecute(i)
      BY DEF ProposalExecutable
    <2>1. TypeOK /\ i \in Proposals /\ Sound(i.intent, i.pool)
      BY DEF IInv, TypeOK, Proposed
    <2> QED
      BY <2>1, SoundExecutes
  <1> QED
    BY <1>1, DecisionInductive, PTL

(* The dry run and the execution agree, for every intent and every switch but *)
(* the lens, except for the three things the dry run leaves out.              *)
THEOREM DryRunTells == Spec => []DryRunAgrees
  <1>1. DryRunAgrees
    <2> SUFFICES ASSUME NEW i \in open, off # "lens"
                 PROVE  CanExecute(i) <=>
                          /\ DryRunOk(i) /\ Funded(i.intent) /\ RecipientOk(i.intent)
                          /\ off # "caller"
      BY DEF DryRunAgrees
    <2>1. off \notin Switches \ {"lens"} <=> off \notin Switches \ {"caller"} /\ off # "caller"
      BY DEF Switches
    <2>2. PICK p : p = i.intent
      OBVIOUS
    <2>3. AdapterQuoteOk(p) <=> p.left >= 0 /\ p.router \in Routers /\ RouterPays(p)
      BY DEF AdapterQuoteOk, RouterPays
    <2> QED
      BY <2>1, <2>2, <2>3 DEF CanExecute, DryRunOk
  <1> QED
    BY <1>1, PTL

(* A rebalancing sale leaves a token its target weight, whatever positions *)
(* the agent showed the bot and however the two divisions round: what it   *)
(* sells is at most the surplus's share of the position.                   *)
THEOREM TargetIsKept == Spec => []RebalanceKeepsTarget
  <1>1. IInv => RebalanceKeepsTarget
    BY DEF IInv
  <1> QED
    BY <1>1, DecisionInductive, PTL
=============================================================================
