------------------------ MODULE ClawVault4626Proofs ------------------------
(****************************************************************************)
(* For any holders, tokens, fees, gas settings and bounds: shares are worth *)
(* something whenever they can move, only a trade or an unpriceable deposit *)
(* lowers what one is worth, the position counter equals the inventory, the *)
(* reserve is held, a request settles once, a fee is a part of a profit.    *)
(*                                                                          *)
(* The argument: the supply is the units that the accounts hold (Held), and *)
(* every function of the books keeps it so; a vault without positions backs *)
(* its shares (Backs); a position is counted while it has a quantity        *)
(* (PositionsTracked).  Rounding down on both ways keeps the price          *)
(* (SharesForPrice, PaidSound).  The queue's batch is a recursive function: *)
(* its states exist one by one (TurnsExist), each comes from the one before *)
(* by a deposit or by nothing (TurnSound), and what holds of one turn is    *)
(* chained (TurnsSound, PriceChain).                                        *)
(****************************************************************************)
EXTENDS ClawVault4626, Sums

-----------------------------------------------------------------------------
(* Arithmetic. *)

LEMMA DivBounds ==
    ASSUME NEW a \in Nat, NEW b \in Nat \ {0}
    PROVE  a \div b \in Nat /\ b * (a \div b) <= a /\ a < b * (a \div b) + b
  OBVIOUS

LEMMA Products ==
    ASSUME NEW a \in Nat, NEW b \in Nat, NEW c \in Nat
    PROVE  /\ a * b \in Nat /\ a * b = b * a /\ (a * b) * c = a * (b * c)
           /\ a * (b + c) = a * b + a * c
           /\ a <= b => a * c <= b * c
           /\ a * c <= b * c /\ c # 0 => a <= b
           /\ a * c < b * c => a < b
  OBVIOUS

-----------------------------------------------------------------------------
(* The shares that exist are the ones the accounts hold: one unit per share. *)

Units(l) == {u \in Accounts \X Nat : 1 <= u[2] /\ u[2] <= l.balanceOf[u[1]]}
SharesOwned(l) == IsFiniteSet(Units(l)) /\ Cardinality(Units(l)) = l.totalSupply

Block(a, m, n) == {u \in {a} \X Nat : m < u[2] /\ u[2] <= m + n}

LEMMA BlockCounted ==
    ASSUME NEW a, NEW m \in Nat, NEW n \in Nat
    PROVE  IsFiniteSet(Block(a, m, n)) /\ Cardinality(Block(a, m, n)) = n
  <1> DEFINE I == (m + 1)..(m + n)
             B == Block(a, m, n)
             f == [i \in I |-> <<a, i>>]
  <1>1. IsFiniteSet(I) /\ Cardinality(I) = n
    BY FS_Interval
  <1>2. f \in [I -> B]
    BY DEF Block
  <1>3. \A i, j \in I : f[i] = f[j] => i = j
    OBVIOUS
  <1>4. \A u \in B : \E i \in I : f[i] = u
    <2> TAKE u \in B
    <2>1. u[2] \in I /\ u = <<a, u[2]>>
      BY DEF Block
    <2> QED
      BY <2>1
  <1> HIDE DEF f, I, B
  <1>5. f \in Bijection(I, B)
    BY <1>2, <1>3, <1>4 DEF Bijection, Injection, Surjection, IsInjective
  <1>6. ExistsBijection(I, B)
    BY <1>5 DEF ExistsBijection
  <1> QED
    BY <1>1, <1>6, FS_Bijection DEF B

LEMMA MintOwned ==
    ASSUME NEW l \in LedgerType, SharesOwned(l), NEW a \in Accounts, NEW n \in Nat
    PROVE  /\ Mint(l, a, n) \in LedgerType /\ SharesOwned(Mint(l, a, n))
           /\ Mint(l, a, n).held = l.held /\ Mint(l, a, n).gasReserve = l.gasReserve
           /\ Mint(l, a, n).totalSupply = l.totalSupply + n
  <1> DEFINE k == Mint(l, a, n)
             m == l.balanceOf[a]
             B == Block(a, m, n)
  <1>1. /\ m \in Nat /\ l.totalSupply \in Nat /\ l.balanceOf \in [Accounts -> Nat]
        /\ l.held \in Nat /\ l.gasReserve \in Nat
    BY DEF LedgerType
  <1>2. /\ k.held = l.held /\ k.gasReserve = l.gasReserve /\ k.totalSupply = l.totalSupply + n
        /\ k.balanceOf = [l.balanceOf EXCEPT ![a] = m + n]
    BY <1>1 DEF LedgerType, Mint
  <1>3. k \in LedgerType
    <2>1. [l.balanceOf EXCEPT ![a] = l.balanceOf[a] + n] \in [Accounts -> Nat]
      BY <1>1
    <2>2. PICK f, x : f = [l.balanceOf EXCEPT ![a] = l.balanceOf[a] + n] /\ x = l.totalSupply + n
      OBVIOUS
    <2>3. k = [l EXCEPT !.totalSupply = x, !.balanceOf = f]
      BY <2>2 DEF Mint
    <2>4. f \in [Accounts -> Nat] /\ x \in Nat
      BY <1>1, <2>1, <2>2
    <2> QED
      BY <2>3, <2>4 DEF LedgerType
  <1>4. Units(k) = Units(l) \cup B
    BY <1>1, <1>2 DEF Units, Block
  <1>5. Units(l) \cap B = {}
    BY <1>1 DEF Units, Block
  <1>6. IsFiniteSet(B) /\ Cardinality(B) = n
    BY <1>1, BlockCounted
  <1>7. Cardinality(Units(k)) = l.totalSupply + n /\ IsFiniteSet(Units(k))
    <2>1. Cardinality(Units(l) \cap B) = 0
      BY <1>5, FS_EmptySet
    <2> HIDE DEF B, k
    <2>2. /\ IsFiniteSet(Units(l) \cup B)
          /\ Cardinality(Units(l) \cup B)
               = Cardinality(Units(l)) + Cardinality(B) - Cardinality(Units(l) \cap B)
      BY <1>6, FS_Union DEF SharesOwned
    <2> QED
      BY <1>1, <1>4, <1>6, <2>1, <2>2 DEF SharesOwned
  <1> QED
    BY <1>2, <1>3, <1>7 DEF SharesOwned

LEMMA BurnOwned ==
    ASSUME NEW l \in LedgerType, SharesOwned(l), NEW a \in Accounts, NEW n \in Nat,
           n <= l.balanceOf[a]
    PROVE  /\ Burn(l, a, n) \in LedgerType /\ SharesOwned(Burn(l, a, n))
           /\ Burn(l, a, n).held = l.held /\ Burn(l, a, n).gasReserve = l.gasReserve
           /\ Burn(l, a, n).totalSupply = l.totalSupply - n /\ n <= l.totalSupply
  <1> DEFINE k == Burn(l, a, n)
             m == l.balanceOf[a] - n
             B == Block(a, m, n)
  <1>1. /\ m \in Nat /\ l.totalSupply \in Nat /\ l.balanceOf \in [Accounts -> Nat]
        /\ l.held \in Nat /\ l.gasReserve \in Nat
    BY DEF LedgerType
  <1>2. /\ k.held = l.held /\ k.gasReserve = l.gasReserve /\ k.totalSupply = l.totalSupply - n
        /\ k.balanceOf = [l.balanceOf EXCEPT ![a] = m]
    BY <1>1 DEF LedgerType, Burn
  <1>3. Units(k) = Units(l) \ B /\ B \subseteq Units(l)
    BY <1>1, <1>2 DEF Units, Block
  <1>4. IsFiniteSet(B) /\ Cardinality(B) = n
    BY <1>1, BlockCounted
  <1>5. Units(l) \cap B = B
    BY <1>3
  <1>6. Cardinality(Units(k)) = l.totalSupply - n /\ IsFiniteSet(Units(k))
    BY <1>3, <1>4, <1>5, FS_Difference DEF SharesOwned
  <1>7. l.totalSupply - n \in Nat
    BY <1>6, FS_CardinalityType
  <1>8. k \in LedgerType
    BY <1>1, <1>7 DEF LedgerType, Burn
  <1> QED
    BY <1>1, <1>2, <1>6, <1>7, <1>8 DEF SharesOwned

-----------------------------------------------------------------------------
(* The reserve is held, and shares are backed by what is managed for them. *)

Held(l) == l \in LedgerType /\ SharesOwned(l) /\ l.gasReserve <= l.held
Backs(l) == l.totalSupply > 0 => l.gasReserve < l.held
NotCheaper(l, k) ==
    l.totalSupply > 0 /\ k.totalSupply > 0 =>
        Managed(l) * k.totalSupply <= Managed(k) * l.totalSupply

LEMMA Fields ==
    ASSUME NEW l \in LedgerType
    PROVE  /\ l.held \in Nat /\ l.gasReserve \in Nat /\ l.totalSupply \in Nat
           /\ l.balanceOf \in [Accounts -> Nat] /\ Managed(l) \in Nat
           /\ l.gasReserve <= l.held => Managed(l) = l.held - l.gasReserve
           /\ l.gasReserve < l.held => Managed(l) > 0
  BY DEF LedgerType, Managed

(* Assets move, shares do not. *)
WithAssets(l, h, r) == [l EXCEPT !.held = h, !.gasReserve = r]

LEMMA AssetsMove ==
    ASSUME NEW l \in LedgerType, SharesOwned(l), NEW h \in Nat, NEW r \in Nat
    PROVE  /\ WithAssets(l, h, r) \in LedgerType /\ SharesOwned(WithAssets(l, h, r))
           /\ WithAssets(l, h, r).held = h /\ WithAssets(l, h, r).gasReserve = r
           /\ WithAssets(l, h, r).totalSupply = l.totalSupply
           /\ WithAssets(l, h, r).balanceOf = l.balanceOf
  <1>1. /\ WithAssets(l, h, r) \in LedgerType
        /\ WithAssets(l, h, r).held = h /\ WithAssets(l, h, r).gasReserve = r
        /\ WithAssets(l, h, r).totalSupply = l.totalSupply
        /\ WithAssets(l, h, r).balanceOf = l.balanceOf
    BY DEF LedgerType, WithAssets
  <1>2. Units(WithAssets(l, h, r)) = Units(l)
    BY <1>1 DEF Units
  <1> QED
    BY <1>1, <1>2 DEF SharesOwned

LEMMA GasFeeIsPart ==
    ASSUME config \in ConfigType, NEW l \in LedgerType, NEW gross \in Nat
    PROVE  GasFee(l, gross) \in Nat
  <1>1. /\ config.gas.bps \in Nat /\ config.gas.cap \in Nat
        /\ config.gasTarget \in Nat /\ l.gasReserve \in Nat /\ BPS_DENOMINATOR = 10000
    <2>1. config.gas \in [bps : 0..BPS_DENOMINATOR, cap : Nat, wallet : BOOLEAN]
          /\ config.gasTarget \in Nat
      BY DEF ConfigType
    <2>2. config.gas.bps \in 0..BPS_DENOMINATOR /\ config.gas.cap \in Nat
      BY <2>1
    <2> QED
      <3>1. \A x \in 0..BPS_DENOMINATOR : x \in Nat
        BY DEF BPS_DENOMINATOR
      <3>2. config.gas.bps \in Nat
        BY <2>2, <3>1
      <3>3. config.gas.cap \in Nat /\ config.gasTarget \in Nat
        BY <2>1, <2>2
      <3>4. l.gasReserve \in Nat
        BY Fields
      <3>5. BPS_DENOMINATOR = 10000
        BY DEF BPS_DENOMINATOR
      <3> QED
        BY ONLY <3>2, <3>3, <3>4, <3>5
  <1>2. gross * config.gas.bps \in Nat
    BY <1>1, Products
  <1>3. (gross * config.gas.bps) \div BPS_DENOMINATOR \in Nat
    BY <1>1, <1>2, DivBounds
  <1> QED
    BY <1>1, <1>3 DEF GasFee, Least

LEMMA SharesForPrice ==
    ASSUME NEW l \in LedgerType, NEW assets \in Nat
    PROVE  /\ SharesFor(l, assets) \in Nat
           /\ l.totalSupply > 0 /\ Managed(l) > 0 =>
                Managed(l) * SharesFor(l, assets) <= assets * l.totalSupply
           /\ l.totalSupply = 0 => SharesFor(l, assets) = assets
  <1>1. assets * l.totalSupply \in Nat /\ Managed(l) \in Nat /\ l.totalSupply \in Nat
    BY Fields, Products
  <1> QED
    BY <1>1, DivBounds DEF SharesFor

LEMMA PriceUp ==
    ASSUME NEW M \in Nat, NEW T \in Nat, NEW net \in Nat, NEW shares \in Nat, M * shares <= net * T
    PROVE  M * (T + shares) <= (M + net) * T
  <1>1. M * (T + shares) = M * T + M * shares /\ (M + net) * T = M * T + net * T
    OBVIOUS
  <1>2. M * T \in Nat /\ M * shares \in Nat /\ net * T \in Nat
    BY Products
  <1> QED
    BY <1>1, <1>2

LEMMA CreditedSound ==
    ASSUME config \in ConfigType, NEW l, Held(l), Backs(l), NEW a \in Accounts,
           NEW gross \in Nat, Acceptable(l, gross)
    PROVE  /\ Held(Credited(l, a, gross)) /\ Backs(Credited(l, a, gross))
           /\ Credited(l, a, gross).held = l.held + gross
           /\ Credited(l, a, gross).totalSupply > 0
           /\ ~RoundsToNothing(l, gross) => NotCheaper(l, Credited(l, a, gross))
  <1> DEFINE fee == GasFee(l, gross)
             net == gross - fee
             shares == IF RoundsToNothing(l, gross) THEN net ELSE SharesFor(l, net)
             h == l.held + gross
             r == l.gasReserve + fee
  <1>1. l \in LedgerType /\ SharesOwned(l) /\ l.gasReserve <= l.held
    BY DEF Held
  <1>2. fee \in Nat /\ net \in Nat /\ net > 0
    BY <1>1, GasFeeIsPart DEF Acceptable
  <1>3. /\ SharesFor(l, net) \in Nat
        /\ l.totalSupply > 0 /\ Managed(l) > 0 =>
             Managed(l) * SharesFor(l, net) <= net * l.totalSupply
    BY <1>1, <1>2, SharesForPrice
  <1>4. shares \in Nat /\ shares > 0
    BY <1>2, <1>3 DEF RoundsToNothing
  <1>5. h \in Nat /\ r \in Nat
    BY <1>1, <1>2, Fields
  <1> HIDE DEF fee, net, shares, h, r
  <1> PICK m : m = WithAssets(l, h, r)
    OBVIOUS
  <1>6. /\ m \in LedgerType /\ SharesOwned(m) /\ m.held = h
        /\ m.gasReserve = r /\ m.totalSupply = l.totalSupply
    BY <1>1, <1>5, AssetsMove
  <1> PICK k : k = Mint(m, a, shares)
    OBVIOUS
  <1>7. Credited(l, a, gross) = k
    BY DEF Credited, WithAssets, fee, net, shares, h, r
  <1>8. /\ k \in LedgerType /\ SharesOwned(k) /\ k.held = h
        /\ k.gasReserve = r /\ k.totalSupply = l.totalSupply + shares
    BY <1>4, <1>6, MintOwned
  <1>9. k.gasReserve < k.held /\ k.totalSupply > 0 /\ k.held = l.held + gross
    BY <1>1, <1>2, <1>4, <1>8, Fields DEF h, r, net
  <1>10. ASSUME ~RoundsToNothing(l, gross), l.totalSupply > 0
         PROVE  Managed(l) * k.totalSupply <= Managed(k) * l.totalSupply
    <2>1. /\ Managed(l) \in Nat /\ Managed(l) > 0 /\ Managed(l) = l.held - l.gasReserve
          /\ l.held \in Nat /\ l.gasReserve \in Nat /\ l.totalSupply \in Nat
      BY <1>1, <1>10, Fields DEF Backs
    <2>2. Managed(k) = Managed(l) + net
      BY <1>1, <1>2, <1>8, <1>9, <2>1, Fields DEF h, r, net
    <2>3. Managed(l) * shares <= net * l.totalSupply
      BY <1>3, <1>10, <2>1 DEF shares
    <2> QED
      BY <1>2, <1>4, <1>8, <2>1, <2>2, <2>3, PriceUp
  <1>11. /\ Held(k) /\ Backs(k) /\ k.held = l.held + gross /\ k.totalSupply > 0
         /\ ~RoundsToNothing(l, gross) => NotCheaper(l, k)
    <2>1. Held(k) /\ Backs(k)
      BY <1>1, <1>5, <1>8, <1>9, Fields DEF Held, Backs
    <2>2. ~RoundsToNothing(l, gross) => NotCheaper(l, k)
      BY <1>10 DEF NotCheaper
    <2> QED
      BY <1>9, <2>1, <2>2
  <1> QED
    BY <1>7, <1>11

LEMMA PriceKept ==
    ASSUME NEW M \in Nat \ {0}, NEW T \in Nat \ {0}, NEW assets \in Nat, NEW shares \in Nat \ {0},
           shares <= T, assets * T <= M * shares
    PROVE  assets <= M /\ (shares < T => assets < M) /\ M * (T - shares) <= (M - assets) * T
  <1>1. M * shares <= M * T /\ (shares < T => M * shares < M * T)
    OBVIOUS
  <1>2. M * shares \in Nat /\ M * T \in Nat /\ assets * T \in Nat
    BY Products
  <1>3. assets * T <= M * T /\ (shares < T => assets * T < M * T)
    BY <1>1, <1>2
  <1>4. assets <= M /\ (shares < T => assets < M)
    BY <1>3, Products
  <1>5. M * (T - shares) = M * T - M * shares /\ (M - assets) * T = M * T - assets * T
    OBVIOUS
  <1> QED
    BY <1>2, <1>4, <1>5

(* Paying out no more than the shares are worth. *)
LEMMA PaidSound ==
    ASSUME NEW l, Held(l), Backs(l), NEW a \in Accounts, NEW shares \in Nat, NEW assets \in Nat,
           shares <= l.balanceOf[a], shares > 0,
           assets * l.totalSupply <= Managed(l) * shares
    PROVE  /\ Held(Paid(l, a, shares, assets)) /\ Backs(Paid(l, a, shares, assets))
           /\ NotCheaper(l, Paid(l, a, shares, assets))
  <1> PICK b, h, r : b = Burn(l, a, shares) /\ h = l.held - assets /\ r = l.gasReserve
    OBVIOUS
  <1> PICK k : k = WithAssets(b, h, r)
    OBVIOUS
  <1>1. l \in LedgerType /\ SharesOwned(l) /\ l.gasReserve <= l.held
    BY DEF Held
  <1>2. /\ b \in LedgerType /\ SharesOwned(b) /\ b.held = l.held /\ b.gasReserve = l.gasReserve
        /\ b.totalSupply = l.totalSupply - shares /\ shares <= l.totalSupply
    BY <1>1, BurnOwned
  <1>3. /\ l.held \in Nat /\ l.gasReserve \in Nat /\ l.totalSupply \in Nat /\ l.totalSupply > 0
        /\ Managed(l) = l.held - l.gasReserve /\ Managed(l) \in Nat /\ Managed(l) > 0
    BY <1>1, <1>2, Fields DEF Backs
  <1> PICK M, T : M = Managed(l) /\ T = l.totalSupply
    OBVIOUS
  <1>4. /\ assets <= M /\ (shares < T => assets < M)
        /\ M * (T - shares) <= (M - assets) * T
    BY <1>2, <1>3, PriceKept
  <1>5. h \in Nat /\ r \in Nat
    BY <1>3, <1>4
  <1>6. k = Paid(l, a, shares, assets)
    BY <1>2 DEF Paid, WithAssets, LedgerType
  <1>7. /\ k \in LedgerType /\ SharesOwned(k) /\ k.held = h
        /\ k.gasReserve = r /\ k.totalSupply = b.totalSupply
    <2>1. b \in LedgerType /\ SharesOwned(b) /\ h \in Nat /\ r \in Nat
      BY <1>2, <1>5
    <2>2. /\ WithAssets(b, h, r) \in LedgerType /\ SharesOwned(WithAssets(b, h, r))
          /\ WithAssets(b, h, r).held = h /\ WithAssets(b, h, r).gasReserve = r
          /\ WithAssets(b, h, r).totalSupply = b.totalSupply
      BY ONLY <2>1, AssetsMove
    <2> QED
      BY <2>2
  <1>8. Held(k) /\ Backs(k) /\ Managed(k) = M - assets
    BY <1>2, <1>3, <1>4, <1>7, Fields DEF Held, Backs
  <1> QED
    BY <1>2, <1>4, <1>6, <1>7, <1>8 DEF NotCheaper

-----------------------------------------------------------------------------
(* Inventory. *)

PositionType == [quantity : Nat, cost : Nat]
OpenTokens == {t \in Tokens : position[t].quantity > 0}

LEMMA PositionReplaced ==
    ASSUME position \in [Tokens -> PositionType], NEW token \in Tokens, NEW p \in PositionType,
           position' = [position EXCEPT ![token] = p]
    PROVE  /\ position' \in [Tokens -> PositionType] /\ position'[token] = p
           /\ \A t \in Tokens : t # token => position'[t] = position[t]
           /\ OpenTokens' = IF p.quantity > 0 THEN OpenTokens \cup {token}
                            ELSE OpenTokens \ {token}
  <1>1. /\ position' \in [Tokens -> PositionType] /\ position'[token] = p
        /\ \A t \in Tokens : t # token => position'[t] = position[t]
    OBVIOUS
  <1> QED
    BY <1>1 DEF OpenTokens

LEMMA OpenCounted ==
    ASSUME NEW token \in Tokens
    PROVE  /\ IsFiniteSet(OpenTokens) /\ Cardinality(OpenTokens) \in Nat
           /\ Cardinality(OpenTokens \cup {token}) =
                IF token \in OpenTokens THEN Cardinality(OpenTokens)
                ELSE Cardinality(OpenTokens) + 1
           /\ Cardinality(OpenTokens \ {token}) =
                IF token \in OpenTokens THEN Cardinality(OpenTokens) - 1
                ELSE Cardinality(OpenTokens)
           /\ token \in OpenTokens => Cardinality(OpenTokens) # 0
  <1>1. IsFiniteSet(OpenTokens)
    <2>1. OpenTokens \subseteq Tokens /\ IsFiniteSet(Tokens)
      BY NamesAssumption DEF OpenTokens
    <2> QED
      BY <2>1, FS_Subset
  <1>2. Cardinality(OpenTokens) \in Nat
    BY <1>1, FS_CardinalityType
  <1>3. Cardinality(OpenTokens) = 0 <=> OpenTokens = {}
    BY <1>1, FS_EmptySet
  <1>4. /\ Cardinality(OpenTokens \cup {token}) =
                IF token \in OpenTokens THEN Cardinality(OpenTokens)
                ELSE Cardinality(OpenTokens) + 1
        /\ Cardinality(OpenTokens \ {token}) =
                IF token \in OpenTokens THEN Cardinality(OpenTokens) - 1
                ELSE Cardinality(OpenTokens)
    BY <1>1, FS_AddElement, FS_RemoveElement
  <1> QED
    BY <1>1, <1>2, <1>3, <1>4

(* The part of the cost that goes with a part of the inventory. *)
LEMMA PartOfCost ==
    ASSUME NEW c \in Nat, NEW m \in Nat, NEW q \in Nat \ {0}, m <= q
    PROVE  /\ (c * m) \div q \in Nat /\ (c * m) \div q <= c
           /\ m = q => (c * m) \div q = c
  <1> PICK d : d = (c * m) \div q
    OBVIOUS
  <1>1. c * m \in Nat /\ c * q \in Nat /\ c * m <= c * q
    OBVIOUS
  <1>2. d \in Nat /\ q * d <= c * m /\ c * m < q * d + q
    BY <1>1, DivBounds
  <1>3. q * d <= q * c
    BY <1>1, <1>2
  <1>4. d <= c
    BY <1>2, <1>3
  <1>5. ASSUME m = q PROVE d = c
    <2>1. q * c < q * (d + 1)
      BY <1>2, <1>5
    <2>2. c < d + 1
      BY <1>2, <2>1
    <2> QED
      BY <1>2, <1>4, <2>2
  <1> QED
    BY <1>2, <1>4, <1>5

LEMMA SoldPart ==
    ASSUME position \in [Tokens -> PositionType], NEW token \in Tokens, NEW amountIn \in Nat
    PROVE  /\ position[token].quantity \in Nat /\ position[token].cost \in Nat
           /\ Matched(token, amountIn) \in Nat
           /\ Matched(token, amountIn) <= amountIn
           /\ Matched(token, amountIn) <= position[token].quantity
           /\ CostPortion(token, amountIn) \in Nat
           /\ CostPortion(token, amountIn) <= position[token].cost
           /\ Matched(token, amountIn) = position[token].quantity
                /\ position[token].quantity > 0 =>
                CostPortion(token, amountIn) = position[token].cost
           /\ Matched(token, amountIn) = 0 => CostPortion(token, amountIn) = 0
           /\ position[token].quantity > 0 =>
                position[token].quantity * CostPortion(token, amountIn)
                  <= position[token].cost * Matched(token, amountIn)
  <1>1. position[token].quantity \in Nat /\ position[token].cost \in Nat
    BY DEF PositionType
  <1>2. /\ Matched(token, amountIn) \in Nat
        /\ Matched(token, amountIn) <= amountIn
        /\ Matched(token, amountIn) <= position[token].quantity
    BY <1>1 DEF Matched, Least
  <1> PICK c, q, m : c = position[token].cost /\ q = position[token].quantity
                     /\ m = Matched(token, amountIn)
    OBVIOUS
  <1>3. CostPortion(token, amountIn) = IF m = 0 THEN 0 ELSE (c * m) \div q
    BY DEF CostPortion
  <1>4. ASSUME q > 0
        PROVE  /\ (c * m) \div q \in Nat /\ (c * m) \div q <= c
               /\ m = q => (c * m) \div q = c
               /\ q * ((c * m) \div q) <= c * m
    <2>1. c \in Nat /\ m \in Nat /\ q \in Nat \ {0} /\ m <= q
      BY <1>1, <1>2, <1>4
    <2>2. c * m \in Nat
      BY <2>1, Products
    <2> QED
      BY <2>1, <2>2, PartOfCost, DivBounds
  <1>5. m = 0 => q * 0 <= c * m
    BY <1>1
  <1> QED
    BY <1>1, <1>2, <1>3, <1>4, <1>5

LEMMA BoughtTracks ==
    ASSUME TypeOK, PositionsTracked, NEW token \in Tokens, NEW amountIn \in Nat,
           NEW amountOut \in Nat, amountOut > 0, Bought(token, amountIn, amountOut),
           tokenBalance' = [tokenBalance EXCEPT ![token] = @ + amountOut]
    PROVE  /\ position' \in [Tokens -> PositionType] /\ tokenBalance' \in [Tokens -> Nat]
           /\ openPositionCount' \in Nat /\ openPositionCount' # 0 /\ PositionsTracked'
  <1> PICK p : p = [quantity |-> position[token].quantity + amountOut,
                    cost |-> position[token].cost + amountIn]
    OBVIOUS
  <1>1. /\ position \in [Tokens -> PositionType] /\ tokenBalance \in [Tokens -> Nat]
        /\ position[token].quantity \in Nat /\ position[token].cost \in Nat
        /\ openPositionCount = Cardinality(OpenTokens)
    BY DEF TypeOK, PositionType, PositionsTracked, OpenTokens
  <1>2. /\ p \in PositionType /\ p.quantity = position[token].quantity + amountOut
        /\ p.quantity > 0
    BY <1>1 DEF PositionType
  <1>3. position' = [position EXCEPT ![token] = p]
    BY DEF Bought
  <1>4. /\ position' \in [Tokens -> PositionType] /\ position'[token] = p
        /\ \A t \in Tokens : t # token => position'[t] = position[t]
        /\ OpenTokens' = OpenTokens \cup {token}
    BY <1>1, <1>2, <1>3, PositionReplaced
  <1>5. token \in OpenTokens <=> position[token].quantity # 0
    BY <1>1 DEF OpenTokens
  <1>6. openPositionCount' = Cardinality(OpenTokens') /\ openPositionCount' \in Nat
        /\ openPositionCount' # 0
    <2>1. openPositionCount' = IF token \in OpenTokens THEN openPositionCount
                               ELSE openPositionCount + 1
      BY <1>1, <1>5 DEF Bought
    <2>2. Cardinality(OpenTokens') = IF token \in OpenTokens THEN Cardinality(OpenTokens)
                                     ELSE Cardinality(OpenTokens) + 1
      BY <1>4, OpenCounted
    <2>3. Cardinality(OpenTokens) \in Nat /\ (token \in OpenTokens => Cardinality(OpenTokens) # 0)
      BY OpenCounted
    <2> QED
      BY <1>1, <2>1, <2>2, <2>3
  <1>7. /\ tokenBalance' \in [Tokens -> Nat]
        /\ tokenBalance'[token] = tokenBalance[token] + amountOut
        /\ \A t \in Tokens : t # token => tokenBalance'[t] = tokenBalance[t]
    BY <1>1
  <1>8. ASSUME NEW t \in Tokens
        PROVE  /\ position'[t].quantity <= tokenBalance'[t]
               /\ position'[t].quantity = 0 => position'[t].cost = 0
    <2>1. /\ position[t].quantity <= tokenBalance[t]
          /\ position[t].quantity = 0 => position[t].cost = 0
      BY DEF PositionsTracked
    <2>2. CASE t = token
      <3>1. position'[t].quantity = position[t].quantity + amountOut /\ position[t].quantity \in Nat
            /\ tokenBalance'[t] = tokenBalance[t] + amountOut /\ tokenBalance[t] \in Nat
        BY <1>1, <1>2, <1>4, <1>7, <2>2
      <3> QED
        BY <2>1, <3>1
    <2>3. CASE t # token
      BY <1>4, <1>7, <2>1, <2>3
    <2> QED
      BY <2>2, <2>3
  <1> QED
    BY <1>4, <1>6, <1>7, <1>8 DEF PositionsTracked, OpenTokens

LEMMA SoldTracks ==
    ASSUME TypeOK, PositionsTracked, NEW token \in Tokens, NEW amountIn \in Nat,
           Sold(token, amountIn), amountIn <= tokenBalance[token],
           tokenBalance' = [tokenBalance EXCEPT ![token] = @ - amountIn]
    PROVE  /\ position' \in [Tokens -> PositionType] /\ tokenBalance' \in [Tokens -> Nat]
           /\ openPositionCount' \in Nat /\ PositionsTracked'
           /\ position'[token].quantity = position[token].quantity - Matched(token, amountIn)
           /\ position'[token].cost = position[token].cost - CostPortion(token, amountIn)
           /\ \A t \in Tokens : t # token => /\ position'[t] = position[t]
                                             /\ tokenBalance'[t] = tokenBalance[t]
           /\ tokenBalance'[token] = tokenBalance[token] - amountIn
  <1> PICK c, q, m, d : /\ c = position[token].cost /\ q = position[token].quantity
                        /\ m = Matched(token, amountIn) /\ d = CostPortion(token, amountIn)
    OBVIOUS
  <1>1. /\ position \in [Tokens -> PositionType] /\ tokenBalance \in [Tokens -> Nat]
        /\ position[token] \in PositionType
        /\ openPositionCount = Cardinality(OpenTokens) /\ openPositionCount \in Nat
        /\ q <= tokenBalance[token] /\ tokenBalance[token] \in Nat
        /\ q = 0 => c = 0
    BY DEF TypeOK, PositionType, PositionsTracked, OpenTokens
  <1>2. /\ q \in Nat /\ c \in Nat /\ m \in Nat /\ m <= amountIn /\ m <= q
        /\ d \in Nat /\ d <= c /\ (m = q /\ q > 0 => d = c) /\ (m = 0 => d = 0)
    BY <1>1, SoldPart
  <1> PICK o, x, y, p : /\ o = position[token] /\ x = q - m /\ y = c - d
                        /\ p = [o EXCEPT !.quantity = x, !.cost = y]
    OBVIOUS
  <1>3. p \in PositionType /\ p.quantity = q - m /\ p.cost = c - d
    <2>1. o \in PositionType /\ x \in Nat /\ y \in Nat
      BY <1>1, <1>2
    <2> QED
      BY <2>1 DEF PositionType
  <1>4. position' = [position EXCEPT ![token] = p]
    BY <1>1 DEF Sold, PositionType
  <1>5. /\ position' \in [Tokens -> PositionType] /\ position'[token] = p
        /\ \A t \in Tokens : t # token => position'[t] = position[t]
        /\ OpenTokens' = IF p.quantity > 0 THEN OpenTokens \cup {token}
                         ELSE OpenTokens \ {token}
    BY <1>1, <1>3, <1>4, PositionReplaced
  <1>6. token \in OpenTokens <=> q > 0
    BY <1>1 DEF OpenTokens
  <1>7. openPositionCount' = Cardinality(OpenTokens') /\ openPositionCount' \in Nat
    <2>1. openPositionCount' = IF m > 0 /\ m = q /\ openPositionCount # 0
                               THEN openPositionCount - 1 ELSE openPositionCount
      BY DEF Sold, Flat
    <2>2. /\ q - m > 0 => OpenTokens' = OpenTokens \cup {token}
          /\ ~ (q - m > 0) => OpenTokens' = OpenTokens \ {token}
      BY <1>3, <1>5
    <2>3. /\ Cardinality(OpenTokens \cup {token}) =
                IF token \in OpenTokens THEN Cardinality(OpenTokens)
                ELSE Cardinality(OpenTokens) + 1
          /\ Cardinality(OpenTokens \ {token}) =
                IF token \in OpenTokens THEN Cardinality(OpenTokens) - 1
                ELSE Cardinality(OpenTokens)
          /\ token \in OpenTokens => Cardinality(OpenTokens) # 0
      BY OpenCounted
    <2> PICK n, S, S2 : n = Cardinality(S) /\ S = OpenTokens /\ S2 = OpenTokens'
      OBVIOUS
    <2>4. n \in Nat /\ n = openPositionCount /\ (token \in S <=> q > 0)
          /\ (token \in S => n # 0)
      BY <1>1, <1>6, <2>3
    <2>5. CASE q - m > 0
      <3>1. token \in S /\ m # q
        BY <1>2, <2>4, <2>5
      <3>2. Cardinality(S2) = n
        BY <2>2, <2>3, <2>5, <3>1
      <3> QED
        BY <2>1, <2>4, <3>1, <3>2
    <2>6. CASE ~ (q - m > 0) /\ q > 0
      <3>1. token \in S /\ m = q /\ m > 0 /\ n - 1 \in Nat
        BY <1>2, <2>4, <2>6
      <3>2. Cardinality(S2) = n - 1
        BY <2>2, <2>3, <2>6, <3>1
      <3> QED
        BY <2>1, <2>4, <3>1, <3>2
    <2>7. CASE ~ (q - m > 0) /\ ~ (q > 0)
      <3>1. token \notin S /\ ~ (m > 0)
        BY <1>2, <2>4, <2>7
      <3>2. Cardinality(S2) = n
        BY <2>2, <2>3, <2>7, <3>1
      <3> QED
        BY <2>1, <2>4, <3>1, <3>2
    <2> QED
      BY <2>5, <2>6, <2>7
  <1>8. /\ tokenBalance' \in [Tokens -> Nat]
        /\ tokenBalance'[token] = tokenBalance[token] - amountIn
        /\ \A t \in Tokens : t # token => tokenBalance'[t] = tokenBalance[t]
    BY <1>1
  <1>9. ASSUME NEW t \in Tokens
        PROVE  /\ position'[t].quantity <= tokenBalance'[t]
               /\ position'[t].quantity = 0 => position'[t].cost = 0
    <2>1. CASE t = token
      <3>1. /\ position'[t].quantity = q - m /\ position'[t].cost = c - d
            /\ tokenBalance'[t] = tokenBalance[token] - amountIn
        BY <1>3, <1>5, <1>8, <2>1
      <3>2. q - m <= tokenBalance[token] - amountIn
        BY <1>1, <1>2 DEF Matched, Least
      <3>3. q - m = 0 => c - d = 0
        BY <1>1, <1>2
      <3> QED
        BY <3>1, <3>2, <3>3
    <2>2. CASE t # token
      BY <1>5, <1>8, <2>2 DEF PositionsTracked
    <2> QED
      BY <2>1, <2>2
  <1> QED
    BY <1>3, <1>5, <1>7, <1>8, <1>9 DEF PositionsTracked, OpenTokens

-----------------------------------------------------------------------------
(* The inductive invariant: reserve and backing are kept by every operation, *)
(* backing only while no position is open; a purchase may spend all of it.   *)

IInv == TypeOK /\ Held(ledger) /\ (Flat => Backs(ledger)) /\ PositionsTracked

LEMMA FlatMeansEmpty ==
    IInv /\ Flat => \A t \in Tokens : position[t].quantity = 0
  <1> SUFFICES ASSUME IInv, Flat, NEW t \in Tokens PROVE position[t].quantity = 0
    OBVIOUS
  <1>1. openPositionCount = Cardinality(OpenTokens) /\ position[t].quantity \in Nat
    BY DEF IInv, TypeOK, PositionsTracked, OpenTokens
  <1>2. t \notin OpenTokens
    BY <1>1, OpenCounted DEF Flat
  <1> QED
    BY <1>1, <1>2 DEF OpenTokens

(* Paying the fee. *)
LEMMA FeePaid ==
    ASSUME config \in ConfigType, NEW k, Held(k), NEW owed \in Nat, PayFee(k, owed)
    PROVE  /\ Held(ledger') /\ feeOwed' \in Nat /\ feeOwed' <= owed
           /\ ledger'.held = k.held /\ ledger'.gasReserve = k.gasReserve
           /\ openPositionCount' # 0 => ledger' = k
           /\ ledger'.totalSupply - k.totalSupply \in Nat
           /\ k.totalSupply > 0 /\ Managed(k) > 0 =>
                Managed(k) * (ledger'.totalSupply - k.totalSupply) <= owed * k.totalSupply
  <1> PICK n, a : n = SharesFor(k, owed) /\ a = config.feeRecipient
    OBVIOUS
  <1>1. k \in LedgerType /\ SharesOwned(k) /\ k.gasReserve <= k.held /\ a \in Accounts
    BY DEF Held, ConfigType
  <1>2. /\ n \in Nat
        /\ k.totalSupply > 0 /\ Managed(k) > 0 => Managed(k) * n <= owed * k.totalSupply
    BY <1>1, SharesForPrice
  <1>3. k.totalSupply \in Nat /\ k.held \in Nat /\ k.gasReserve \in Nat /\ Managed(k) \in Nat
    BY <1>1, Fields
  <1>4. CASE ledger' = k /\ feeOwed' = owed
    <2>1. Managed(k) * (k.totalSupply - k.totalSupply) = 0 /\ 0 <= owed * k.totalSupply
      BY <1>3
    <2>2. k.totalSupply - k.totalSupply \in Nat /\ owed <= owed
      BY <1>3
    <2> QED
      BY <1>4, <2>1, <2>2
  <1>5. CASE openPositionCount' = 0 /\ ledger' = Mint(k, a, n) /\ feeOwed' = 0
    <2>1. /\ Mint(k, a, n) \in LedgerType /\ SharesOwned(Mint(k, a, n))
          /\ Mint(k, a, n).held = k.held /\ Mint(k, a, n).gasReserve = k.gasReserve
          /\ Mint(k, a, n).totalSupply = k.totalSupply + n
      BY <1>1, <1>2, MintOwned
    <2> PICK j : j = Mint(k, a, n)
      OBVIOUS
    <2>2. Held(j) /\ j.totalSupply - k.totalSupply = n
      BY <1>1, <1>2, <1>3, <2>1 DEF Held
    <2> QED
      BY <1>2, <1>5, <2>1, <2>2
  <1> QED
    BY <1>4, <1>5 DEF PayFee

-----------------------------------------------------------------------------
(* Share operations. *)

LEMMA DepositSound ==
    ASSUME IInv, NEW a \in Accounts, NEW n \in Nat, Deposit(a, n)
    PROVE  IInv' /\ (~RoundsToNothing(ledger, n) => NotCheaper(ledger, ledger'))
  <1>1. Held(ledger) /\ Backs(ledger) /\ config \in ConfigType /\ Acceptable(ledger, n)
    BY DEF IInv, Deposit, TypeOK
  <1> PICK k : k = Credited(ledger, a, n)
    OBVIOUS
  <1>2. Held(k) /\ Backs(k) /\ (~RoundsToNothing(ledger, n) => NotCheaper(ledger, k))
    BY <1>1, CreditedSound
  <1>3. ledger' = k /\ UNCHANGED <<requests, inventory, config>>
    BY DEF Deposit
  <1> QED
    BY <1>2, <1>3 DEF IInv, TypeOK, Held, Backs, Flat, PositionsTracked, inventory

LEMMA WithdrawSound ==
    ASSUME IInv, NEW a \in Accounts, NEW n \in Nat, Withdraw(a, n)
    PROVE  IInv' /\ NotCheaper(ledger, ledger')
  <1> PICK s : s = SharesBurnt(ledger, n)
    OBVIOUS
  <1>1. /\ Held(ledger) /\ Backs(ledger) /\ n > 0 /\ s <= ledger.balanceOf[a]
        /\ ledger' = Paid(ledger, a, s, n) /\ UNCHANGED <<requests, inventory, config>>
    BY DEF IInv, Withdraw, TypeOK, Held, LedgerType
  <1> PICK M, T : M = Managed(ledger) /\ T = ledger.totalSupply
    OBVIOUS
  <1>2. /\ M \in Nat /\ T \in Nat /\ (T > 0 => M > 0)
        /\ ledger \in LedgerType /\ SharesOwned(ledger)
    BY <1>1, Fields DEF Held, Backs
  <1>3. s = IF T = 0 \/ M = 0 THEN n ELSE (n * T + M - 1) \div M
    BY DEF SharesBurnt
  <1>4. s \in Nat /\ (T > 0 => n * T <= M * s) /\ s > 0
    <2>1. CASE T = 0 \/ M = 0
      BY <1>1, <1>2, <1>3, <2>1
    <2>2. CASE T > 0 /\ M > 0
      <3>1. n * T \in Nat /\ n * T > 0
        BY <1>1, <2>2, <1>2
      <3>2. PICK x : x = n * T + M - 1
        OBVIOUS
      <3>3. x \in Nat /\ s = x \div M /\ M \in Nat \ {0}
        BY <1>2, <1>3, <2>2, <3>1, <3>2
      <3>4. s \in Nat /\ x < M * s + M
        BY <3>3, DivBounds
      <3>5. n * T <= M * s
        BY <1>2, <3>1, <3>2, <3>4
      <3>6. s # 0
        BY <3>1, <3>5, <1>2
      <3> QED
        BY <3>4, <3>5, <3>6
    <2> QED
      BY <1>2, <2>1, <2>2
  <1>5. s <= T
    BY <1>1, <1>2, <1>4, BurnOwned
  <1>6. n * T <= M * s
    BY <1>2, <1>4, <1>5
  <1> PICK k : k = Paid(ledger, a, s, n)
    OBVIOUS
  <1>7. Held(k) /\ Backs(k) /\ NotCheaper(ledger, k)
    BY <1>1, <1>4, <1>6, PaidSound
  <1>8. ledger' = k
    BY <1>1
  <1> QED
    BY <1>1, <1>7, <1>8 DEF IInv, TypeOK, Held, Backs, Flat, PositionsTracked, inventory

LEMMA RedeemSound ==
    ASSUME IInv, NEW a \in Accounts, NEW n \in Nat, Redeem(a, n)
    PROVE  IInv' /\ NotCheaper(ledger, ledger')
  <1> PICK s : s = AssetsFor(ledger, n)
    OBVIOUS
  <1>1. /\ Held(ledger) /\ Backs(ledger) /\ n > 0 /\ n <= ledger.balanceOf[a]
        /\ ledger' = Paid(ledger, a, n, s) /\ UNCHANGED <<requests, inventory, config>>
    BY DEF IInv, Redeem, TypeOK, Held, LedgerType
  <1> PICK M, T : M = Managed(ledger) /\ T = ledger.totalSupply
    OBVIOUS
  <1>2. /\ M \in Nat /\ T \in Nat /\ (T > 0 => M > 0)
        /\ ledger \in LedgerType /\ SharesOwned(ledger)
    BY <1>1, Fields DEF Held, Backs
  <1>3. n <= T
    BY <1>1, <1>2, BurnOwned
  <1>4. s = (n * M) \div T /\ T \in Nat \ {0} /\ n * M \in Nat
    BY <1>1, <1>2, <1>3 DEF AssetsFor
  <1>5. s \in Nat /\ T * s <= n * M
    BY <1>4, DivBounds
  <1>6. s * T <= M * n
    BY <1>2, <1>5
  <1> PICK k : k = Paid(ledger, a, n, s)
    OBVIOUS
  <1>7. Held(k) /\ Backs(k) /\ NotCheaper(ledger, k)
    BY <1>1, <1>5, <1>6, PaidSound
  <1>8. ledger' = k
    BY <1>1
  <1> QED
    BY <1>1, <1>7, <1>8 DEF IInv, TypeOK, Held, Backs, Flat, PositionsTracked, inventory

LEMMA TopUpSound ==
    ASSUME IInv, NEW n \in Nat, TopUpStrategyGas(n)
    PROVE  IInv' /\ NotCheaper(ledger, ledger') /\ ledger'.balanceOf = ledger.balanceOf
  <1>s. PICK s : s = IF n = 0 THEN ledger.gasReserve ELSE Least(n, ledger.gasReserve)
    OBVIOUS
  <1>h. PICK h, r : h = ledger.held - s /\ r = ledger.gasReserve - s
    OBVIOUS
  <1>k. PICK k : k = WithAssets(ledger, h, r)
    OBVIOUS
  <1>1. /\ ledger \in LedgerType /\ SharesOwned(ledger) /\ ledger.gasReserve <= ledger.held
        /\ Flat => Backs(ledger)
    BY DEF IInv, Held
  <1>2. ledger.held \in Nat /\ ledger.gasReserve \in Nat /\ ledger.totalSupply \in Nat
    BY <1>1, Fields
  <1>3. s \in Nat /\ s <= ledger.gasReserve
    BY <1>2, <1>s DEF Least
  <1>4. h \in Nat /\ r \in Nat /\ r <= h /\ h - r = ledger.held - ledger.gasReserve
    BY <1>1, <1>2, <1>3, <1>h
  <1>5. /\ k \in LedgerType /\ SharesOwned(k) /\ k.held = h /\ k.gasReserve = r
        /\ k.totalSupply = ledger.totalSupply /\ k.balanceOf = ledger.balanceOf
    BY <1>1, <1>4, <1>k, AssetsMove
  <1>6. Held(k) /\ (Flat => Backs(k)) /\ Managed(k) = Managed(ledger) /\ Managed(k) \in Nat
    BY <1>1, <1>2, <1>4, <1>5, Fields DEF Held, Backs
  <1>7. NotCheaper(ledger, k)
    BY <1>2, <1>5, <1>6 DEF NotCheaper
  <1>8. ledger' = k /\ UNCHANGED <<requests, inventory, config>>
    BY <1>s, <1>h, <1>k DEF TopUpStrategyGas, WithAssets
  <1> QED
    BY <1>5, <1>6, <1>7, <1>8 DEF IInv, TypeOK, Held, Backs, Flat, PositionsTracked, inventory

-----------------------------------------------------------------------------
(* Trades. *)

LEMMA BuySound ==
    ASSUME IInv, NEW token \in Tokens, NEW m \in Nat, NEW n \in Nat, n > 0
    PROVE  Buy(token, m, n) =>
           /\ IInv' /\ ledger'.balanceOf = ledger.balanceOf
           /\ \A t \in Tokens : tokenBalance'[t] >= tokenBalance[t]
  <1>0. HAVE Buy(token, m, n)
  <1>h. PICK l, h, r : l = ledger /\ h = l.held - m /\ r = l.gasReserve
    OBVIOUS
  <1>k. PICK k : k = WithAssets(l, h, r)
    OBVIOUS
  <1>1. /\ TypeOK /\ PositionsTracked /\ l \in LedgerType /\ SharesOwned(l)
        /\ l.held - l.gasReserve >= m /\ feeOwed \in Nat /\ config \in ConfigType
        /\ tokenBalance \in [Tokens -> Nat]
    BY <1>0, <1>h DEF IInv, Held, TypeOK, Buy, SpendableAssets
  <1>2. /\ Bought(token, m, n) /\ tokenBalance' = [tokenBalance EXCEPT ![token] = @ + n]
        /\ PayFee([ledger EXCEPT !.held = @ - m], feeOwed) /\ UNCHANGED <<requests, config>>
    BY <1>0 DEF Buy
  <1>3. /\ position' \in [Tokens -> PositionType] /\ tokenBalance' \in [Tokens -> Nat]
        /\ openPositionCount' \in Nat /\ openPositionCount' # 0 /\ PositionsTracked'
    BY <1>1, <1>2, BoughtTracks
  <1>4. h \in Nat /\ r \in Nat /\ r <= h
    BY <1>1, <1>h, Fields
  <1>5. /\ k \in LedgerType /\ SharesOwned(k) /\ k.held = h /\ k.gasReserve = r
        /\ k.balanceOf = l.balanceOf
    <2>1. l \in LedgerType /\ SharesOwned(l)
      BY <1>1
    <2>2. h \in Nat /\ r \in Nat
      BY <1>4
    <2> QED
      BY <2>1, <2>2, <1>k, AssetsMove
  <1>6. k = [ledger EXCEPT !.held = @ - m]
    BY <1>1, <1>h, <1>k DEF WithAssets, LedgerType
  <1>7. PayFee(k, feeOwed) /\ Held(k)
    BY <1>2, <1>4, <1>5, <1>6 DEF Held
  <1> PICK owed : owed = feeOwed
    OBVIOUS
  <1>8. ledger' = k /\ feeOwed' \in Nat
    BY <1>1, <1>3, <1>7, FeePaid
  <1>9. \A t \in Tokens : tokenBalance'[t] >= tokenBalance[t]
    BY <1>1, <1>2
  <1> QED
    BY <1>1, <1>2, <1>3, <1>5, <1>h, <1>7, <1>8, <1>9 DEF IInv, TypeOK, Held, Flat, PositionType

(* What a sale may charge, in the units of FeeOnTrackedProfit. *)
FeeOf(out, m, in, cost, bps, D) ==
    IF (out * m) \div in >= cost
    THEN (((out * m) \div in - cost) * bps) \div D ELSE 0
FeeCap(out, m, in, cost, bps) ==
    IF out * m - cost * in > 0 THEN bps * (out * m - cost * in) ELSE 0

LEMMA FeeBound ==
    ASSUME NEW out \in Nat, NEW m \in Nat, NEW in \in Nat \ {0}, NEW cost \in Nat, NEW bps \in Nat,
           NEW D \in Nat \ {0}
    PROVE  /\ FeeOf(out, m, in, cost, bps, D) \in Nat
           /\ FeeOf(out, m, in, cost, bps, D) * (D * in) <= FeeCap(out, m, in, cost, bps)
  <1> PICK P, A : P = (out * m) \div in /\ A = FeeOf(out, m, in, cost, bps, D)
    OBVIOUS
  <1>0. A = IF P >= cost THEN ((P - cost) * bps) \div D ELSE 0
    BY DEF FeeOf
  <1>1. out * m \in Nat
    BY Products
  <1>2. P \in Nat /\ in * P <= out * m
    BY <1>1, DivBounds
  <1>3. CASE P >= cost
    <2> PICK g, w : g = P - cost /\ w = out * m - cost * in
      OBVIOUS
    <2>1. g \in Nat /\ cost * in \in Nat /\ in * P \in Nat /\ w \in Int
      BY <1>1, <1>2, <1>3, Products
    <2>2. in * g = in * P - cost * in
      BY <1>2, <2>1
    <2>3. in * g <= w /\ in * g \in Nat
      BY <1>1, <1>2, <2>1, <2>2, Products
    <2>4. g * bps \in Nat /\ A = (g * bps) \div D
      BY <1>0, <1>3, <2>1, Products
    <2>5. A \in Nat /\ D * A <= g * bps
      BY <2>4, DivBounds
    <2>6. A * (D * in) = (D * A) * in
      BY <2>5
    <2>7. (D * A) * in <= (g * bps) * in
      BY <2>4, <2>5
    <2>8. (g * bps) * in = bps * (in * g)
      BY <2>1
    <2>9. w \in Nat /\ bps * (in * g) <= bps * w
      BY <2>1, <2>3
    <2>10. A * (D * in) <= bps * w
      <3>1. D * A \in Nat /\ (D * A) * in \in Nat /\ (g * bps) * in \in Nat
            /\ bps * (in * g) \in Nat /\ bps * w \in Nat
        BY <2>1, <2>3, <2>4, <2>5, <2>9, Products
      <3> QED
        BY <3>1, <2>6, <2>7, <2>8, <2>9
    <2>11. w = 0 => bps * w = 0
      OBVIOUS
    <2> QED
      BY <2>5, <2>9, <2>10, <2>11 DEF FeeCap
  <1>4. CASE ~ (P >= cost)
    <2>1. A = 0 /\ A * (D * in) = 0
      BY <1>0, <1>4
    <2> PICK w : w = out * m - cost * in
      OBVIOUS
    <2>2. w \in Int /\ (w > 0 => bps * w \in Nat)
      BY <1>1, Products
    <2> QED
      BY <2>1, <2>2 DEF FeeCap
  <1> QED
    BY <1>3, <1>4

LEMMA SellSound ==
    ASSUME IInv, NEW token \in Tokens, NEW m \in Nat, NEW n \in Nat, m > 0, n > 0
    PROVE  Sell(token, m, n) =>
           /\ IInv'
           /\ openPositionCount' # 0 => ledger'.balanceOf = ledger.balanceOf
           /\ \A t \in Tokens : t # token => tokenBalance'[t] = tokenBalance[t]
           /\ ledger'.held = ledger.held + n
           /\ AccruedFee(token, m, n) \in Nat
           /\ AccruedFee(token, m, n) * (BPS_DENOMINATOR * m) <= FeeAllowed(token)
           /\ FeeAllowed(token) \in Int
           /\ tokenBalance[token] - tokenBalance'[token] = m
           /\ feeOwed' <= feeOwed + AccruedFee(token, m, n)
           /\ Managed(ledger') \in Nat
           /\ ledger'.totalSupply - ledger.totalSupply \in Nat
           /\ ledger.totalSupply > 0 =>
                Managed(ledger') * (ledger'.totalSupply - ledger.totalSupply)
                  <= (feeOwed + AccruedFee(token, m, n)) * ledger.totalSupply
  <1>0. HAVE Sell(token, m, n)
  <1>h. PICK l, h, r : l = ledger /\ h = l.held + n /\ r = l.gasReserve
    OBVIOUS
  <1>A. PICK A, owed : A = AccruedFee(token, m, n) /\ owed = feeOwed + A
    OBVIOUS
  <1>k. PICK k : k = WithAssets(l, h, r)
    OBVIOUS
  <1>1. /\ TypeOK /\ PositionsTracked /\ l \in LedgerType /\ SharesOwned(l)
        /\ l.gasReserve <= l.held /\ feeOwed \in Nat /\ config \in ConfigType
        /\ tokenBalance \in [Tokens -> Nat] /\ position \in [Tokens -> PositionType]
    BY <1>h DEF IInv, Held, TypeOK, PositionType
  <1>2. /\ Sold(token, m) /\ tokenBalance' = [tokenBalance EXCEPT ![token] = @ - m]
        /\ m <= tokenBalance[token]
        /\ PayFee([ledger EXCEPT !.held = @ + n], owed) /\ UNCHANGED <<requests, config>>
    BY <1>0, <1>1, <1>A DEF Sell
  <1>3. /\ position' \in [Tokens -> PositionType] /\ tokenBalance' \in [Tokens -> Nat]
        /\ openPositionCount' \in Nat /\ PositionsTracked'
        /\ position'[token].quantity = position[token].quantity - Matched(token, m)
        /\ position'[token].cost = position[token].cost - CostPortion(token, m)
        /\ \A t \in Tokens : t # token => tokenBalance'[t] = tokenBalance[t]
        /\ tokenBalance'[token] = tokenBalance[token] - m
    BY <1>1, <1>2, SoldTracks
  <1>4. h \in Nat /\ r \in Nat /\ r < h /\ l.held \in Nat /\ l.totalSupply \in Nat
    BY <1>1, <1>h, Fields
  <1>5. /\ k \in LedgerType /\ SharesOwned(k) /\ k.held = h /\ k.gasReserve = r
        /\ k.balanceOf = l.balanceOf /\ k.totalSupply = l.totalSupply
    <2>1. l \in LedgerType /\ SharesOwned(l)
      BY <1>1
    <2>2. h \in Nat /\ r \in Nat
      BY <1>4
    <2> QED
      BY <2>1, <2>2, <1>k, AssetsMove
  <1>6. k = [ledger EXCEPT !.held = @ + n]
    BY <1>1, <1>h, <1>k DEF WithAssets, LedgerType
  <1>7. PayFee(k, owed) /\ Held(k)
    BY <1>2, <1>4, <1>5, <1>6 DEF Held
  <1>8. /\ position[token].quantity \in Nat /\ position[token].cost \in Nat
        /\ Matched(token, m) \in Nat /\ CostPortion(token, m) \in Nat
    BY <1>1, SoldPart
  <1> PICK c, q, bps : c = CostPortion(token, m) /\ q = Matched(token, m) /\ bps = config.feeBps
    OBVIOUS
  <1>9. bps \in Nat
    <2>1. bps \in 0..BPS_DENOMINATOR
      BY <1>1 DEF ConfigType
    <2>2. \A x \in 0..BPS_DENOMINATOR : x \in Nat
      BY DEF BPS_DENOMINATOR
    <2> QED
      BY <2>1, <2>2
  <1> PICK D : D = BPS_DENOMINATOR
    OBVIOUS
  <1>10. D \in Nat \ {0}
    BY DEF BPS_DENOMINATOR
  <1>11. A = FeeOf(n, q, m, c, bps, D)
    BY <1>A DEF AccruedFee, FeeOf
  <1>12. A \in Nat /\ A * (D * m) <= FeeCap(n, q, m, c, bps)
    <2>1. /\ n \in Nat /\ q \in Nat /\ m \in Nat \ {0} /\ c \in Nat /\ bps \in Nat
          /\ D \in Nat \ {0}
      BY <1>8, <1>9, <1>10
    <2> QED
      BY <2>1, <1>11, FeeBound
  <1>13. owed \in Nat
    BY <1>1, <1>12, <1>A
  <1>14. /\ Held(ledger') /\ feeOwed' \in Nat /\ feeOwed' <= owed
         /\ ledger'.held = k.held /\ ledger'.gasReserve = k.gasReserve
         /\ openPositionCount' # 0 => ledger' = k
         /\ ledger'.totalSupply - k.totalSupply \in Nat
         /\ k.totalSupply > 0 /\ Managed(k) > 0 =>
              Managed(k) * (ledger'.totalSupply - k.totalSupply) <= owed * k.totalSupply
    BY <1>1, <1>7, <1>13, FeePaid
  <1>15. Managed(k) > 0 /\ Managed(ledger') = Managed(k) /\ Managed(k) \in Nat
    BY <1>4, <1>5, <1>14, Fields DEF Managed
  <1>16. FeeAllowed(token) = FeeCap(n, q, m, c, bps)
    <2>1. /\ ledger'.held - ledger.held = n
          /\ tokenBalance[token] - tokenBalance'[token] = m
          /\ position[token].quantity - position'[token].quantity = q
          /\ position[token].cost - position'[token].cost = c
      <3>1. tokenBalance[token] \in Nat
        BY <1>1
      <3>2. tokenBalance[token] - tokenBalance'[token] = m
        BY <1>3, <3>1
      <3>3. ledger'.held - ledger.held = n
        BY <1>4, <1>5, <1>h, <1>14
      <3>4. position[token].quantity - position'[token].quantity = q
        BY <1>3, <1>8
      <3>5. position[token].cost - position'[token].cost = c
        BY <1>3, <1>8
      <3> QED
        BY <3>2, <3>3, <3>4, <3>5
    <2> QED
      BY <2>1 DEF FeeAllowed, FeeCap
  <1>17. FeeAllowed(token) \in Int
    <2> PICK w : w = n * q - c * m
      OBVIOUS
    <2>1. w \in Int
      BY <1>8
    <2>2. bps * w \in Int
      BY <1>9, <2>1
    <2> QED
      BY <1>16, <2>2 DEF FeeCap
  <1>18. IInv'
    BY <1>1, <1>2, <1>3, <1>4, <1>5, <1>14 DEF IInv, TypeOK, Held, Backs, Flat, PositionType
  <1>19. openPositionCount' # 0 => ledger'.balanceOf = ledger.balanceOf
    BY <1>5, <1>h, <1>14
  <1>20. /\ ledger'.held = ledger.held + n
         /\ tokenBalance[token] - tokenBalance'[token] = m
         /\ A * (D * m) <= FeeAllowed(token)
    BY <1>1, <1>3, <1>5, <1>h, <1>12, <1>14, <1>16
  <1>21. /\ Managed(ledger') \in Nat /\ feeOwed' <= feeOwed + A
         /\ ledger'.totalSupply - ledger.totalSupply \in Nat
         /\ ledger.totalSupply > 0 =>
              Managed(ledger') * (ledger'.totalSupply - ledger.totalSupply)
                <= (feeOwed + A) * ledger.totalSupply
    BY <1>5, <1>h, <1>14, <1>15, <1>A
  <1> QED
    BY <1>3, <1>A, <1>12, <1>17, <1>18, <1>19, <1>20, <1>21

LEMMA RoundTripSound ==
    ASSUME IInv, NEW m \in Nat, NEW n \in Nat, n > 0
    PROVE  RoundTrip(m, n) =>
           /\ IInv' /\ UNCHANGED <<tokenBalance, position>>
           /\ openPositionCount # 0 => ledger'.balanceOf = ledger.balanceOf
  <1>0. HAVE RoundTrip(m, n)
  <1>h. PICK l, h, r : l = ledger /\ h = l.held + n /\ r = l.gasReserve
    OBVIOUS
  <1> PICK owed : owed = feeOwed
    OBVIOUS
  <1>k. PICK k : k = WithAssets(l, h, r)
    OBVIOUS
  <1>1. /\ TypeOK /\ PositionsTracked /\ l \in LedgerType /\ SharesOwned(l)
        /\ l.gasReserve <= l.held /\ owed \in Nat /\ config \in ConfigType
    BY <1>h DEF IInv, Held, TypeOK
  <1>2. /\ UNCHANGED <<tokenBalance, position, openPositionCount>>
        /\ PayFee([ledger EXCEPT !.held = @ + n], owed) /\ UNCHANGED <<requests, config>>
    BY <1>0 DEF RoundTrip
  <1>3. h \in Nat /\ r \in Nat /\ r < h
    BY <1>1, <1>h, Fields
  <1>4. /\ k \in LedgerType /\ SharesOwned(k) /\ k.held = h /\ k.gasReserve = r
        /\ k.balanceOf = l.balanceOf
    <2>1. l \in LedgerType /\ SharesOwned(l)
      BY <1>1
    <2>2. h \in Nat /\ r \in Nat
      BY <1>3
    <2> QED
      BY <2>1, <2>2, <1>k, AssetsMove
  <1>5. k = [ledger EXCEPT !.held = @ + n]
    BY <1>1, <1>h, <1>k DEF WithAssets, LedgerType
  <1>6. PayFee(k, owed) /\ Held(k)
    BY <1>2, <1>3, <1>4, <1>5 DEF Held
  <1>7. /\ Held(ledger') /\ feeOwed' \in Nat
        /\ ledger'.held = k.held /\ ledger'.gasReserve = k.gasReserve
        /\ openPositionCount' # 0 => ledger' = k
    BY <1>1, <1>6, FeePaid
  <1> QED
    BY <1>1, <1>2, <1>3, <1>4, <1>h, <1>7 DEF IInv, TypeOK, Held, Backs, Flat, PositionsTracked

(* Gifts. *)
LEMMA ReceiveAssetSound ==
    ASSUME IInv, NEW n \in Nat
    PROVE  ReceiveAsset(n) =>
           IInv' /\ NotCheaper(ledger, ledger') /\ ledger'.balanceOf = ledger.balanceOf
  <1>0. HAVE ReceiveAsset(n)
  <1>h. PICK l, h, r : l = ledger /\ h = l.held + n /\ r = l.gasReserve
    OBVIOUS
  <1>k. PICK k : k = WithAssets(l, h, r)
    OBVIOUS
  <1>1. l \in LedgerType /\ SharesOwned(l) /\ l.gasReserve <= l.held /\ (Flat => Backs(l))
    BY <1>h DEF IInv, Held
  <1>2. /\ h \in Nat /\ r \in Nat /\ r <= h /\ (r < l.held => r < h)
        /\ l.totalSupply \in Nat /\ l.held \in Nat
    BY <1>1, <1>h, Fields
  <1>3. /\ k \in LedgerType /\ SharesOwned(k) /\ k.held = h /\ k.gasReserve = r
        /\ k.balanceOf = l.balanceOf /\ k.totalSupply = l.totalSupply
    <2>1. l \in LedgerType /\ SharesOwned(l)
      BY <1>1
    <2>2. h \in Nat /\ r \in Nat
      BY <1>2
    <2> QED
      BY <2>1, <2>2, <1>k, AssetsMove
  <1>4. k = [ledger EXCEPT !.held = @ + n]
    BY <1>1, <1>h, <1>k DEF WithAssets, LedgerType
  <1>5. Managed(l) \in Nat /\ Managed(k) \in Nat /\ Managed(l) <= Managed(k)
    BY <1>1, <1>2, <1>3, <1>h, Fields
  <1>6. NotCheaper(l, k)
    BY <1>2, <1>3, <1>5, Products DEF NotCheaper
  <1>7. ledger' = k /\ UNCHANGED <<requests, inventory, config>>
    BY <1>0, <1>4 DEF ReceiveAsset
  <1>8. Held(k) /\ (Flat => Backs(k))
    BY <1>1, <1>2, <1>3, <1>h DEF Held, Backs
  <1> QED
    BY <1>1, <1>3, <1>h, <1>6, <1>7, <1>8
    DEF IInv, TypeOK, Held, Backs, Flat, PositionsTracked, inventory

LEMMA ReceiveTokenSound ==
    ASSUME IInv, NEW token \in Tokens, NEW n \in Nat, ReceiveToken(token, n)
    PROVE  IInv' /\ \A t \in Tokens : tokenBalance'[t] >= tokenBalance[t]
  <1>1. /\ tokenBalance \in [Tokens -> Nat] /\ position \in [Tokens -> [quantity : Nat, cost : Nat]]
        /\ tokenBalance' = [tokenBalance EXCEPT ![token] = @ + n]
        /\ UNCHANGED <<ledger, requests, position, openPositionCount, feeOwed, config>>
    BY DEF IInv, TypeOK, ReceiveToken
  <1>2. tokenBalance' \in [Tokens -> Nat] /\ \A t \in Tokens : tokenBalance'[t] >= tokenBalance[t]
    BY <1>1
  <1>3. \A t \in Tokens : position[t].quantity \in Nat
    BY <1>1
  <1>4. PositionsTracked'
    BY <1>1, <1>2, <1>3 DEF IInv, PositionsTracked
  <1> QED
    BY <1>1, <1>2, <1>4 DEF IInv, TypeOK, Held, Backs, Flat

-----------------------------------------------------------------------------
(* The settlement loop.  Settlement is a recursive function over the turns; *)
(* it exists because each of its initial segments does.                     *)

Turns(f, ids, n) ==
    f = [i \in 0..n |-> IF i = 0 THEN [ledger |-> ledger, requests |-> requests]
                        ELSE SettledOne(f[i - 1], ids[i])]

LEMMA TurnsExist ==
    ASSUME NEW ids
    PROVE  \A n \in Nat : \E f : Turns(f, ids, n)
  <1> DEFINE S == {n \in Nat : \E f : Turns(f, ids, n)}
  <1>1. 0 \in S
    <2> PICK b : b = [ledger |-> ledger, requests |-> requests]
      OBVIOUS
    <2> PICK f : f = [i \in 0..0 |-> b]
      OBVIOUS
    <2>1. f = [i \in 0..0 |-> IF i = 0 THEN b ELSE SettledOne(f[i - 1], ids[i])]
      OBVIOUS
    <2>2. Turns(f, ids, 0)
      BY <2>1 DEF Turns
    <2> QED
      BY <2>2
  <1>2. ASSUME NEW n \in S PROVE n + 1 \in S
    <2> PICK b : b = [ledger |-> ledger, requests |-> requests]
      OBVIOUS
    <2>1. PICK f : Turns(f, ids, n)
      OBVIOUS
    <2>2. f = [i \in 0..n |-> IF i = 0 THEN b ELSE SettledOne(f[i - 1], ids[i])]
      BY <2>1 DEF Turns
    <2> PICK g : g = [i \in 0..(n + 1) |-> IF i <= n THEN f[i] ELSE SettledOne(f[n], ids[n + 1])]
      OBVIOUS
    <2>3. n \in Nat /\ DOMAIN f = 0..n
      BY <2>2
    <2>4. ASSUME NEW i \in 0..(n + 1)
          PROVE  g[i] = IF i = 0 THEN b ELSE SettledOne(g[i - 1], ids[i])
      <3>1. CASE i = 0
        BY <2>2, <2>3, <3>1
      <3>2. CASE i # 0 /\ i <= n
        <4>1. i \in 0..n /\ i - 1 \in 0..n /\ i - 1 \in 0..(n + 1) /\ i - 1 <= n
          BY <2>3, <3>2
        <4>2. g[i] = f[i] /\ g[i - 1] = f[i - 1]
          BY <3>2, <4>1
        <4>3. f[i] = SettledOne(f[i - 1], ids[i])
          BY <2>2, <3>2, <4>1
        <4> QED
          BY <3>2, <4>2, <4>3
      <3>3. CASE i = n + 1
        <4>1. n \in 0..(n + 1) /\ n <= n /\ ~ (i <= n) /\ i # 0 /\ i - 1 = n
          BY <2>3, <3>3
        <4>2. g[i] = SettledOne(f[n], ids[n + 1]) /\ g[n] = f[n]
          BY <4>1
        <4> QED
          BY <3>3, <4>1, <4>2
      <3> QED
        BY <2>3, <3>1, <3>2, <3>3
    <2>5. g = [i \in 0..(n + 1) |-> IF i = 0 THEN b ELSE SettledOne(g[i - 1], ids[i])]
      BY <2>4
    <2>6. Turns(g, ids, n + 1)
      BY <2>5 DEF Turns
    <2> QED
      BY <2>3, <2>6
  <1> HIDE DEF S
  <1>3. S \subseteq Nat
    BY DEF S
  <1>4. S = Nat
    BY <1>1, <1>2, <1>3, NatSet
  <1> QED
    BY <1>4 DEF S

LEMMA SettlementTurns ==
    ASSUME NEW ids, Len(ids) \in Nat
    PROVE  Turns(Settlement(ids), ids, Len(ids))
  <1>1. \E f : Turns(f, ids, Len(ids))
    BY TurnsExist
  <1> QED
    BY <1>1 DEF Settlement, Turns

LEMMA SettlementSteps ==
    ASSUME NEW ids, Len(ids) \in Nat
    PROVE  /\ Settlement(ids)[0] = [ledger |-> ledger, requests |-> requests]
           /\ \A n \in 1..Len(ids) :
                Settlement(ids)[n] = SettledOne(Settlement(ids)[n - 1], ids[n])
  <1> PICK f, m : f = Settlement(ids) /\ m = Len(ids)
    OBVIOUS
  <1> PICK b : b = [ledger |-> ledger, requests |-> requests]
    OBVIOUS
  <1>1. f = [i \in 0..m |-> IF i = 0 THEN b ELSE SettledOne(f[i - 1], ids[i])] /\ m \in Nat
    BY SettlementTurns DEF Turns
  <1>2. f[0] = b
    BY <1>1
  <1>3. ASSUME NEW n \in 1..m PROVE f[n] = SettledOne(f[n - 1], ids[n])
    <2>1. n \in 0..m /\ n # 0
      BY <1>1
    <2> QED
      BY <1>1, <2>1
  <1> QED
    BY <1>2, <1>3

(* What every turn leaves: sound books, the same requests, each as it was or *)
(* settled, and no share cheaper unless a turn was too small for one.        *)
Books(b) ==
    /\ Held(b.ledger) /\ Backs(b.ledger)
    /\ b.requests \in Seq(RequestType) /\ Len(b.requests) = Len(requests)
    /\ \A id \in DOMAIN requests :
          \/ b.requests[id] = requests[id]
          \/ requests[id].status = "pending" /\ b.requests[id].status = "settled"

Sized(b, id) ==
    Unsettled(b, id) => /\ Acceptable(b.ledger, requests[id].assets)
                        /\ id \in DOMAIN requests
Unpriced(b, id) ==
    Unsettled(b, id) /\ RoundsToNothing(b.ledger, requests[id].assets)

(* A request that changes its status. *)
Marked(s, id, status) == [s EXCEPT ![id].status = status]

LEMMA RequestMarked ==
    ASSUME NEW s \in Seq(RequestType), NEW id \in 1..Len(s),
           NEW status \in {"pending", "settled", "cancelled"}
    PROVE  /\ Marked(s, id, status) \in Seq(RequestType)
           /\ Len(Marked(s, id, status)) = Len(s)
           /\ Marked(s, id, status)[id].status = status
           /\ \A j \in 1..Len(s) : j # id => Marked(s, id, status)[j] = s[j]
  <1> PICK o, r, t : /\ o = s[id] /\ r = [o EXCEPT !.status = status]
                     /\ t = Marked(s, id, status)
    OBVIOUS
  <1>1. o \in RequestType
    OBVIOUS
  <1>2. r \in RequestType /\ r.status = status
    BY <1>1 DEF RequestType
  <1>3. t = [s EXCEPT ![id] = r]
    BY DEF Marked
  <1>4. /\ DOMAIN t = 1..Len(s) /\ \A j \in 1..Len(s) : t[j] \in RequestType
        /\ DOMAIN s = 1..Len(s) /\ Len(s) \in Nat
    BY <1>2, <1>3
  <1>5. t \in Seq(RequestType) /\ Len(t) = Len(s)
    <2>1. t = [j \in 1..Len(s) |-> t[j]]
      BY <1>3, <1>4
    <2> QED
      BY <1>4, <2>1
  <1>6. t[id] = r /\ \A j \in 1..Len(s) : j # id => t[j] = s[j]
    BY <1>3
  <1> QED
    BY <1>2, <1>4, <1>5, <1>6

(* The deposits a turn takes in: the requests of the queue it has settled. *)
Amounts == [id \in DOMAIN requests |-> requests[id].assets]
Settled(b) == {id \in DOMAIN requests : /\ requests[id].status = "pending"
                                        /\ b.requests[id].status = "settled"}

LEMMA TurnTakes ==
    ASSUME config \in ConfigType, requests \in Seq(RequestType),
           NEW b, Books(b), NEW id, Sized(b, id), Unsettled(b, id)
    PROVE  /\ SettledOne(b, id).ledger.held = b.ledger.held + requests[id].assets
           /\ Settled(SettledOne(b, id)) = Settled(b) \cup {id}
           /\ id \in DOMAIN requests /\ id \notin Settled(b)
  <1>p. PICK l, q, r : l = b.ledger /\ q = b.requests /\ r = q[id]
    OBVIOUS
  <1>1. /\ Held(l) /\ Backs(l) /\ q \in Seq(RequestType) /\ Len(q) = Len(requests)
        /\ id \in 1..Len(q) /\ r.status = "pending" /\ id \in DOMAIN requests
        /\ r = requests[id] \/ r.status = "settled"
        /\ Acceptable(l, requests[id].assets)
    BY <1>p DEF Books, Unsettled, Sized
  <1>2. r = requests[id] /\ r \in RequestType
    BY <1>1, <1>p
  <1>a. PICK a, n : a = r.receiver /\ n = r.assets
    OBVIOUS
  <1>3. a \in Accounts /\ n \in Nat /\ n = requests[id].assets
    BY <1>2, <1>a DEF RequestType
  <1>k. PICK k : k = Credited(l, a, n)
    OBVIOUS
  <1>4. k.held = l.held + n
    <2>1. Acceptable(l, n)
      BY <1>1, <1>3
    <2> QED
      BY <1>1, <1>3, <1>k, <2>1, CreditedSound
  <1>q. PICK st, q2 : st = "settled" /\ q2 = Marked(q, id, st)
    OBVIOUS
  <1>5. q2[id].status = st /\ \A j \in 1..Len(q) : j # id => q2[j] = q[j]
    <2>1. st \in {"pending", "settled", "cancelled"} /\ q \in Seq(RequestType) /\ id \in 1..Len(q)
      BY <1>1, <1>q
    <2> QED
      BY <2>1, <1>q, RequestMarked
  <1>6. SettledOne(b, id).ledger = k /\ SettledOne(b, id).requests = q2
    BY <1>p, <1>a, <1>k, <1>q DEF SettledOne, Marked
  <1>7. DOMAIN requests = 1..Len(q)
    BY <1>1
  <1>8. Settled(SettledOne(b, id)) = Settled(b) \cup {id}
    BY <1>1, <1>2, <1>5, <1>6, <1>7, <1>p, <1>q DEF Settled
  <1>9. id \notin Settled(b)
    BY <1>1, <1>p DEF Settled
  <1> QED
    BY <1>1, <1>3, <1>4, <1>6, <1>8, <1>9, <1>p

LEMMA SettledSum ==
    ASSUME requests \in Seq(RequestType), NEW S, S \subseteq DOMAIN requests
    PROVE  IsFiniteSet(S) /\ NatOn(Amounts, S)
  <1>1. DOMAIN requests = 1..Len(requests) /\ Len(requests) \in Nat
    OBVIOUS
  <1>2. IsFiniteSet(1..Len(requests))
    BY <1>1, FS_Interval
  <1>3. IsFiniteSet(S)
    BY <1>1, <1>2, FS_Subset
  <1>4. \A id \in DOMAIN requests : requests[id].assets \in Nat
    <2> TAKE id \in DOMAIN requests
    <2>1. requests[id] \in RequestType
      OBVIOUS
    <2> QED
      BY <2>1 DEF RequestType
  <1> QED
    BY <1>3, <1>4 DEF NatOn, Amounts

(* The sum as RequestsSettleOnce writes it. *)
LEMMA SumOfAmounts ==
    ASSUME requests \in Seq(RequestType), NEW S, S \subseteq DOMAIN requests
    PROVE  MapThenSumSet(LAMBDA id : requests[id].assets, S) = SumOver(Amounts, S)
  <1>a. PICK f : f = Amounts
    OBVIOUS
  <1>1. IsFiniteSet(S)
    BY SettledSum
  <1>2. PICK g : Fold(g, f, S) /\ SumOver(f, S) = g[S]
    BY <1>1, SumIsTally
  <1>3. \A s \in SUBSET S : s # {} => f[Pick(s)] = requests[Pick(s)].assets
    <2> TAKE s \in SUBSET S
    <2>1. s # {} => Pick(s) \in s
      BY Picked
    <2> QED
      BY <1>a, <2>1 DEF Amounts
  <1>4. \A h : Fold(h, f, S) <=>
               h = [s \in SUBSET S |-> IF s = {} THEN 0
                      ELSE requests[Pick(s)].assets + h[s \ {Pick(s)}]]
    BY <1>3 DEF Fold, Tally
  <1>5. PICK h : Fold(h, f, S) /\ MapThenSumSet(LAMBDA id : requests[id].assets, S) = h[S]
    BY <1>2, <1>4 DEF Pick, MapThenSumSet, MapThenFoldSet
  <1>6. Part(S, S)
    BY DEF Part
  <1>7. g[S] = h[S]
    BY <1>1, <1>2, <1>5, <1>6, TalliesAgree
  <1> QED
    BY <1>a, <1>2, <1>5, <1>7

LEMMA TurnSound ==
    ASSUME config \in ConfigType, requests \in Seq(RequestType),
           NEW b, Books(b), NEW id, Sized(b, id)
    PROVE  /\ Books(SettledOne(b, id))
           /\ ~Unpriced(b, id) => NotCheaper(b.ledger, SettledOne(b, id).ledger)
           /\ b.ledger.totalSupply > 0 => SettledOne(b, id).ledger.totalSupply > 0
  <1>1. CASE ~Unsettled(b, id)
    <2>1. SettledOne(b, id) = b
      BY <1>1 DEF SettledOne
    <2>2. b.ledger \in LedgerType
      BY DEF Books, Held
    <2>3. b.ledger.totalSupply \in Nat /\ Managed(b.ledger) \in Nat
      BY <2>2, Fields
    <2>4. NotCheaper(b.ledger, b.ledger)
      BY <2>3 DEF NotCheaper
    <2> QED
      BY <2>1, <2>4
  <1>2. CASE Unsettled(b, id)
    <2> PICK l, q, r, a, n : /\ l = b.ledger /\ q = b.requests /\ r = q[id]
                             /\ a = r.receiver /\ n = r.assets
      OBVIOUS
    <2>1. /\ Held(l) /\ Backs(l) /\ q \in Seq(RequestType) /\ Len(q) = Len(requests)
          /\ id \in 1..Len(q) /\ r.status = "pending" /\ id \in DOMAIN requests
          /\ r = requests[id] \/ r.status = "settled"
          /\ Acceptable(l, requests[id].assets)
      BY <1>2 DEF Books, Unsettled, Sized
    <2>2. r = requests[id] /\ r \in RequestType
      BY <2>1
    <2>3. a \in Accounts /\ n \in Nat /\ n = requests[id].assets
      BY <2>2 DEF RequestType
    <2> PICK k : k = Credited(l, a, n)
      OBVIOUS
    <2> PICK st, q2 : st = "settled" /\ q2 = Marked(q, id, st)
      OBVIOUS
    <2>4. /\ Held(k) /\ Backs(k) /\ k.totalSupply > 0
          /\ ~RoundsToNothing(l, n) => NotCheaper(l, k)
      BY <2>1, <2>2, <2>3, CreditedSound
    <2>5. /\ q2 \in Seq(RequestType) /\ Len(q2) = Len(q) /\ q2[id].status = "settled"
          /\ \A j \in 1..Len(q) : j # id => q2[j] = q[j]
      <3>1. st \in {"pending", "settled", "cancelled"} /\ q \in Seq(RequestType) /\ id \in 1..Len(q)
        BY <2>1
      <3>2. /\ q2 \in Seq(RequestType) /\ Len(q2) = Len(q) /\ q2[id].status = st
            /\ \A j \in 1..Len(q) : j # id => q2[j] = q[j]
        <4>1. /\ Marked(q, id, st) \in Seq(RequestType) /\ Len(Marked(q, id, st)) = Len(q)
              /\ Marked(q, id, st)[id].status = st
              /\ \A j \in 1..Len(q) : j # id => Marked(q, id, st)[j] = q[j]
          BY ONLY <3>1, RequestMarked
        <4> QED
          BY <4>1
      <3> QED
        BY <3>2
    <2>6. SettledOne(b, id) = [ledger |-> k, requests |-> q2]
      BY <1>2 DEF SettledOne, Marked
    <2> PICK c : c = [ledger |-> k, requests |-> q2]
      OBVIOUS
    <2>7. c.ledger = k /\ c.requests = q2
      OBVIOUS
    <2>8. ASSUME NEW j \in DOMAIN requests
          PROVE  \/ q2[j] = requests[j]
                 \/ requests[j].status = "pending" /\ q2[j].status = "settled"
      <3>1. DOMAIN requests = 1..Len(q)
        BY <2>1
      <3>2. CASE j = id
        BY <2>1, <2>2, <2>5, <3>2
      <3>3. CASE j # id
        <4>1. q2[j] = q[j]
          BY <2>5, <3>1, <3>3
        <4>2. q[j] = requests[j] \/ (requests[j].status = "pending" /\ q[j].status = "settled")
          BY DEF Books
        <4> QED
          BY <4>1, <4>2
      <3> QED
        BY <3>2, <3>3
    <2>9. Books(c)
      BY <2>1, <2>4, <2>5, <2>7, <2>8 DEF Books
    <2>10. /\ ~Unpriced(b, id) => NotCheaper(b.ledger, c.ledger)
           /\ c.ledger.totalSupply > 0
      BY <1>2, <2>3, <2>4, <2>7 DEF Unpriced
    <2> QED
      BY <2>6, <2>9, <2>10
  <1> QED
    BY <1>1, <1>2

LEMMA Chained ==
    ASSUME NEW a \in Nat, NEW b \in Nat, NEW c \in Nat, NEW x \in Nat, NEW y \in Nat, NEW z \in Nat,
           y > 0, a * y <= b * x, b * z <= c * y
    PROVE  a * z <= c * x
  <1>1. (a * y) * z <= (b * x) * z /\ (b * z) * x <= (c * y) * x
    <2>1. a * y \in Nat /\ b * x \in Nat /\ b * z \in Nat /\ c * y \in Nat
      BY Products
    <2> QED
      BY <2>1, Products
  <1>2. (b * x) * z = (b * z) * x /\ (a * y) * z = (a * z) * y /\ (c * y) * x = (c * x) * y
    OBVIOUS
  <1>3. a * z \in Nat /\ c * x \in Nat /\ (b * z) * x \in Nat
    BY Products
  <1>4. (a * z) * y <= (c * x) * y
    BY <1>1, <1>2, <1>3
  <1> QED
    BY <1>3, <1>4, Products

LEMMA PriceChain ==
    ASSUME NEW l \in LedgerType, NEW k \in LedgerType, NEW j \in LedgerType,
           l.totalSupply > 0 => k.totalSupply > 0, NotCheaper(l, k), NotCheaper(k, j)
    PROVE  NotCheaper(l, j)
  <1> PICK a, b, c, x, y, z : /\ a = Managed(l) /\ b = Managed(k) /\ c = Managed(j)
                              /\ x = l.totalSupply /\ y = k.totalSupply /\ z = j.totalSupply
    OBVIOUS
  <1>1. /\ a \in Nat /\ b \in Nat /\ c \in Nat /\ x \in Nat /\ y \in Nat /\ z \in Nat
    BY Fields
  <1>2. x > 0 /\ z > 0 => y > 0 /\ a * y <= b * x /\ b * z <= c * y
    BY DEF NotCheaper
  <1>3. x > 0 /\ z > 0 => a * z <= c * x
    BY <1>1, <1>2, Chained
  <1> QED
    BY <1>3 DEF NotCheaper

(* After n turns, none of which was too small for a share. *)
AfterTurns(ids, n) ==
    LET b == Settlement(ids)[n]
    IN  /\ Books(b)
        /\ ledger.totalSupply > 0 => b.ledger.totalSupply > 0
        /\ b.ledger.held = ledger.held + SumOver(Amounts, Settled(b))
        /\ (\A i \in 1..n : ~Unpriced(Settlement(ids)[i - 1], ids[i])) =>
              NotCheaper(ledger, b.ledger)

LEMMA TurnsSound ==
    ASSUME IInv, NEW ids \in Seq(Nat \ {0})
    PROVE  SettleQueuedDeposits(ids) => AfterTurns(ids, Len(ids))
  <1>0. HAVE SettleQueuedDeposits(ids)
  <1> PICK f, m : f = Settlement(ids) /\ m = Len(ids)
    OBVIOUS
  <1> DEFINE S == {n \in Nat : n <= m => AfterTurns(ids, n)}
  <1>1. /\ config \in ConfigType /\ requests \in Seq(RequestType) /\ Held(ledger)
        /\ Backs(ledger) /\ ledger \in LedgerType /\ Len(requests) \in Nat
    BY <1>0 DEF IInv, TypeOK, SettleQueuedDeposits, Held
  <1>2. \A n \in 1..m : Unsettled(f[n - 1], ids[n]) =>
                            Acceptable(f[n - 1].ledger, requests[ids[n]].assets)
    BY <1>0 DEF SettleQueuedDeposits
  <1>3. m \in Nat
    OBVIOUS
  <1>4. /\ f[0] = [ledger |-> ledger, requests |-> requests]
        /\ \A n \in 1..m : f[n] = SettledOne(f[n - 1], ids[n])
    BY <1>3, SettlementSteps
  <1>5. 0 \in S
    <2> PICK b : b = f[0]
      OBVIOUS
    <2>1. b.ledger = ledger /\ b.requests = requests
      BY <1>4
    <2>2. Books(b)
      BY <1>1, <2>1 DEF Books
    <2>3. ledger.totalSupply \in Nat /\ Managed(ledger) \in Nat
      BY <1>1, Fields
    <2>4. NotCheaper(ledger, ledger)
      BY <2>3 DEF NotCheaper
    <2>5. b.ledger.held = ledger.held + SumOver(Amounts, Settled(b))
      <3>1. Settled(b) = {}
        BY <2>1 DEF Settled
      <3>2. ledger.held \in Nat
        BY <1>1, Fields
      <3> QED
        BY <2>1, <3>1, <3>2, SumOfNone
    <2>6. AfterTurns(ids, 0)
      BY <2>1, <2>2, <2>4, <2>5 DEF AfterTurns
    <2> QED
      BY <2>6
  <1>6. ASSUME NEW n \in S PROVE n + 1 \in S
    <2> SUFFICES ASSUME n + 1 <= m PROVE AfterTurns(ids, n + 1)
      OBVIOUS
    <2> PICK b, id, i : b = f[n] /\ i = n + 1 /\ id = ids[i]
      OBVIOUS
    <2>1. n \in Nat /\ i \in 1..m /\ i - 1 = n /\ n <= m
      BY <1>3
    <2>2. f[i] = SettledOne(b, id)
      BY <1>4, <2>1
    <2>3. /\ Books(b) /\ (ledger.totalSupply > 0 => b.ledger.totalSupply > 0)
          /\ (\A j \in 1..n : ~Unpriced(f[j - 1], ids[j])) => NotCheaper(ledger, b.ledger)
      BY <2>1 DEF AfterTurns
    <2>4. Unsettled(b, id) => Acceptable(b.ledger, requests[id].assets)
      BY <1>2, <2>1
    <2>5. Sized(b, id)
      <3>1. Unsettled(b, id) => id \in DOMAIN b.requests
        BY DEF Unsettled
      <3>2. DOMAIN b.requests = DOMAIN requests
        BY <1>1, <2>3 DEF Books
      <3> QED
        BY <2>4, <3>1, <3>2 DEF Sized
    <2> PICK c : c = SettledOne(b, id)
      OBVIOUS
    <2>6. /\ Books(c) /\ (~Unpriced(b, id) => NotCheaper(b.ledger, c.ledger))
          /\ b.ledger.totalSupply > 0 => c.ledger.totalSupply > 0
      BY <1>1, <2>3, <2>5, TurnSound
    <2>7. ASSUME \A j \in 1..i : ~Unpriced(f[j - 1], ids[j])
          PROVE  NotCheaper(ledger, c.ledger)
      <3>1. /\ \A j \in 1..n : ~Unpriced(f[j - 1], ids[j])
            /\ ~Unpriced(b, id)
        <4>1. \A j \in 1..n : j \in 1..i
          BY <2>1
        <4>2. i \in 1..i
          BY <2>1
        <4>3. ~Unpriced(f[i - 1], ids[i])
          BY <2>7, <4>2
        <4> QED
          BY <2>1, <2>7, <4>1, <4>3
      <3>2. NotCheaper(ledger, b.ledger) /\ NotCheaper(b.ledger, c.ledger)
        BY <2>3, <2>6, <3>1
      <3>3. b.ledger \in LedgerType /\ c.ledger \in LedgerType
        BY <2>3, <2>6 DEF Books, Held
      <3> QED
        BY <1>1, <2>3, <3>2, <3>3, PriceChain
    <2>8. c.ledger.held = ledger.held + SumOver(Amounts, Settled(c))
      <3>1. b.ledger.held = ledger.held + SumOver(Amounts, Settled(b))
        BY <2>1 DEF AfterTurns
      <3>2. CASE ~Unsettled(b, id)
        BY <3>1, <3>2 DEF SettledOne
      <3>3. CASE Unsettled(b, id)
        <4>1. /\ c.ledger.held = b.ledger.held + requests[id].assets
              /\ Settled(c) = Settled(b) \cup {id}
              /\ id \in DOMAIN requests /\ id \notin Settled(b)
          BY <1>1, <2>3, <2>5, <3>3, TurnTakes
        <4> PICK A, U, V : A = Amounts /\ U = Settled(b) /\ V = Settled(c)
          OBVIOUS
        <4>2. U \subseteq DOMAIN requests /\ V \subseteq DOMAIN requests
          BY <4>1 DEF Settled
        <4>3. IsFiniteSet(U) /\ NatOn(A, U) /\ IsFiniteSet(V) /\ NatOn(A, V)
          BY <1>1, <4>2, SettledSum
        <4>4. id \in V /\ V \ {id} = U /\ A[id] = requests[id].assets
          BY <4>1 DEF Amounts
        <4>5. SumOver(A, V) = A[id] + SumOver(A, U) /\ SumOver(A, U) \in Nat
          BY <4>3, <4>4, SumStep
        <4>6. A[id] \in Nat /\ ledger.held \in Nat
          BY <1>1, <4>3, <4>4, Fields DEF NatOn
        <4> QED
          BY <3>1, <4>1, <4>4, <4>5, <4>6
      <3> QED
        BY <3>2, <3>3
    <2>9. AfterTurns(ids, i)
      BY <2>2, <2>3, <2>6, <2>7, <2>8 DEF AfterTurns
    <2> QED
      BY <2>9
  <1> HIDE DEF S
  <1>7. S \subseteq Nat
    BY DEF S
  <1>8. S = Nat
    BY <1>5, <1>6, <1>7, NatSet
  <1> QED
    BY <1>3, <1>8 DEF S

Taken == {id \in DOMAIN requests : Settling(id)}

LEMMA SettleSound ==
    ASSUME IInv, NEW ids \in Seq(Nat \ {0})
    PROVE  SettleQueuedDeposits(ids) =>
           /\ IInv' /\ Len(requests') = Len(requests)
           /\ \A id \in DOMAIN requests :
                 \/ requests'[id] = requests[id]
                 \/ requests[id].status = "pending" /\ requests'[id].status = "settled"
           /\ ledger'.held = ledger.held + SumOver(Amounts, Taken)
           /\ \/ NotCheaper(ledger, ledger')
              \/ \E n \in 1..Len(ids) : Unpriced(Settlement(ids)[n - 1], ids[n])
  <1>0. HAVE SettleQueuedDeposits(ids)
  <1> PICK b : b = Settlement(ids)[Len(ids)]
    OBVIOUS
  <1>1. /\ Flat /\ ledger' = b.ledger /\ requests' = b.requests
        /\ UNCHANGED <<inventory, config>>
    BY <1>0 DEF SettleQueuedDeposits
  <1>2. /\ Books(b)
        /\ b.ledger.held = ledger.held + SumOver(Amounts, Settled(b))
        /\ (\A i \in 1..Len(ids) : ~Unpriced(Settlement(ids)[i - 1], ids[i])) =>
              NotCheaper(ledger, b.ledger)
    BY <1>0, TurnsSound DEF AfterTurns
  <1>3. Held(b.ledger) /\ Backs(b.ledger) /\ b.requests \in Seq(RequestType)
    BY <1>2 DEF Books
  <1>4. IInv'
    BY <1>1, <1>3 DEF IInv, TypeOK, Held, Backs, Flat, PositionsTracked, inventory
  <1>5. Settled(b) = Taken
    BY <1>1 DEF Settled, Taken, Settling
  <1>6. ledger'.held = ledger.held + SumOver(Amounts, Taken)
    BY <1>1, <1>2, <1>5
  <1> QED
    BY <1>1, <1>2, <1>4, <1>6 DEF Books

-----------------------------------------------------------------------------
(* The queue, and the owner's steps. *)

LEMMA QueueSound ==
    ASSUME IInv, NEW o \in Accounts, NEW r \in Accounts, NEW n \in Nat
    PROVE  QueueDeposit(o, r, n) =>
           /\ IInv' /\ ledger' = ledger
           /\ \A id \in DOMAIN requests : requests'[id] = requests[id]
  <1>0. HAVE QueueDeposit(o, r, n)
  <1> PICK q : q = [owner |-> o, receiver |-> r, assets |-> n, status |-> "pending"]
    OBVIOUS
  <1>1. /\ n > 0 /\ requests' = Append(requests, q)
        /\ UNCHANGED <<ledger, inventory, config>>
    BY <1>0 DEF QueueDeposit
  <1>2. q \in RequestType
    BY <1>1 DEF RequestType
  <1>3. requests \in Seq(RequestType)
    BY DEF IInv, TypeOK
  <1>4. requests' \in Seq(RequestType) /\ \A id \in DOMAIN requests : requests'[id] = requests[id]
    BY <1>1, <1>2, <1>3
  <1>5. IInv'
    BY <1>1, <1>4 DEF IInv, TypeOK, Held, Backs, Flat, PositionsTracked, inventory
  <1> QED
    BY <1>1, <1>4, <1>5

LEMMA CancelSound ==
    ASSUME IInv, NEW a \in Accounts, NEW id \in Nat
    PROVE  CancelQueuedDeposit(a, id) =>
           /\ IInv' /\ ledger' = ledger
           /\ \A j \in DOMAIN requests :
                 \/ requests'[j] = requests[j]
                 \/ requests[j].status = "pending" /\ requests'[j].status = "cancelled"
  <1>0. HAVE CancelQueuedDeposit(a, id)
  <1>q. PICK q, st : q = requests /\ st = "cancelled"
    OBVIOUS
  <1>1. q \in Seq(RequestType) /\ id \in 1..Len(q) /\ q[id].status = "pending"
    BY <1>0, <1>q DEF IInv, TypeOK, CancelQueuedDeposit, Pending
  <1>p. PICK q2 : q2 = Marked(q, id, st)
    OBVIOUS
  <1>2. requests' = q2 /\ UNCHANGED <<ledger, inventory, config>>
    BY <1>0, <1>q, <1>p DEF CancelQueuedDeposit, Marked
  <1>3. /\ q2 \in Seq(RequestType) /\ q2[id].status = st
        /\ \A j \in 1..Len(q) : j # id => q2[j] = q[j]
    <2>1. st \in {"pending", "settled", "cancelled"} /\ q \in Seq(RequestType) /\ id \in 1..Len(q)
      BY <1>1, <1>q
    <2> QED
      BY <2>1, <1>p, RequestMarked
  <1>4. IInv'
    BY <1>2, <1>3 DEF IInv, TypeOK, Held, Backs, Flat, PositionsTracked, inventory
  <1>5. DOMAIN requests = 1..Len(q)
    BY <1>1, <1>q
  <1> QED
    BY <1>1, <1>q, <1>2, <1>3, <1>4, <1>5

LEMMA ConfigureSound ==
    ASSUME IInv, NEW c \in ConfigType
    PROVE  Configure(c) => IInv' /\ UNCHANGED <<ledger, requests, inventory>>
  <1>0. HAVE Configure(c)
  <1>1. config' \in ConfigType /\ UNCHANGED <<ledger, requests, inventory>>
    BY <1>0 DEF Configure
  <1> QED
    BY <1>1 DEF IInv, TypeOK, Held, Backs, Flat, PositionsTracked, inventory

(* What every step of the owner leaves. *)
LEMMA OwnerSound ==
    ASSUME IInv
    PROVE  OwnerStep => /\ IInv' /\ NotCheaper(ledger, ledger')
                        /\ ledger'.balanceOf = ledger.balanceOf
                        /\ UNCHANGED <<requests, tokenBalance, position>>
  <1>0. HAVE OwnerStep
  <1>1. config \in ConfigType /\ ledger \in LedgerType
    BY DEF IInv, TypeOK
  <1>2. ledger.totalSupply \in Nat /\ Managed(ledger) \in Nat
    BY <1>1, Fields
  <1>3. NotCheaper(ledger, ledger)
    BY <1>2 DEF NotCheaper
  <1>4. ASSUME NEW c \in ConfigType, Configure(c)
        PROVE  /\ IInv' /\ NotCheaper(ledger, ledger')
               /\ ledger'.balanceOf = ledger.balanceOf
               /\ UNCHANGED <<requests, tokenBalance, position>>
    BY <1>3, <1>4, ConfigureSound DEF inventory
  <1>5. ASSUME NEW b \in BOOLEAN, SetPaused(b)
        PROVE  \E c \in ConfigType : Configure(c)
    <2>1. [config EXCEPT !.paused = b] \in ConfigType
      BY <1>1 DEF ConfigType
    <2> QED
      BY <1>5, <2>1 DEF SetPaused
  <1>6. ASSUME NEW b \in BOOLEAN, SetAdapterAllowed(b)
        PROVE  \E c \in ConfigType : Configure(c)
    <2>1. [config EXCEPT !.adapter = b] \in ConfigType
      BY <1>1 DEF ConfigType
    <2> QED
      BY <1>6, <2>1 DEF SetAdapterAllowed
  <1>7. ASSUME NEW t \in Tokens \cup {Asset}, NEW b \in BOOLEAN, SetTokenAllowed(t, b)
        PROVE  \E c \in ConfigType : Configure(c)
    <2> PICK s : s = IF b THEN config.tokens \cup {t} ELSE config.tokens \ {t}
      OBVIOUS
    <2>1. s \in SUBSET (Tokens \cup {Asset})
      BY <1>1 DEF ConfigType
    <2>2. [config EXCEPT !.tokens = s] \in ConfigType
      BY <1>1, <2>1 DEF ConfigType
    <2>3. [config EXCEPT !.tokens = IF b THEN @ \cup {t} ELSE @ \ {t}]
            = [config EXCEPT !.tokens = s]
      OBVIOUS
    <2> QED
      BY <1>7, <2>2, <2>3 DEF SetTokenAllowed
  <1>8. ASSUME NEW bps \in FeeChoices, SetPerformanceFeeBps(bps)
        PROVE  \E c \in ConfigType : Configure(c)
    <2>1. bps \in 0..BPS_DENOMINATOR
      BY ChoicesAssumption
    <2>2. [config EXCEPT !.feeBps = bps] \in ConfigType
      BY <1>1, <2>1 DEF ConfigType
    <2> QED
      BY <1>8, <2>2 DEF SetPerformanceFeeBps
  <1>9. ASSUME NEW a \in Accounts, SetPerformanceFeeRecipient(a)
        PROVE  \E c \in ConfigType : Configure(c)
    <2>1. [config EXCEPT !.feeRecipient = a] \in ConfigType
      BY <1>1 DEF ConfigType
    <2> QED
      BY <1>9, <2>1 DEF SetPerformanceFeeRecipient
  <1>10. ASSUME NEW gas \in GasChoices, SetGasFeeConfig(gas)
         PROVE  \E c \in ConfigType : Configure(c)
    <2>1. gas \in [bps : 0..BPS_DENOMINATOR, cap : Nat, wallet : BOOLEAN]
      BY ChoicesAssumption
    <2>2. [config EXCEPT !.gas = gas] \in ConfigType
      BY <1>1, <2>1 DEF ConfigType
    <2> QED
      BY <1>10, <2>2 DEF SetGasFeeConfig
  <1>11. ASSUME NEW target \in TargetChoices, SetGasReserveTarget(target)
         PROVE  \E c \in ConfigType : Configure(c)
    <2>1. target \in Nat
      BY ChoicesAssumption
    <2>2. [config EXCEPT !.gasTarget = target] \in ConfigType
      BY <1>1, <2>1 DEF ConfigType
    <2> QED
      BY <1>11, <2>2 DEF SetGasReserveTarget
  <1>12. ASSUME FreezeConfig PROVE \E c \in ConfigType : Configure(c)
    <2>1. [config EXCEPT !.frozen = TRUE] \in ConfigType
      BY <1>1 DEF ConfigType
    <2> QED
      BY <1>12, <2>1 DEF FreezeConfig
  <1>13. ASSUME NEW n \in 0..MaxAssets, TopUpStrategyGas(n)
         PROVE  /\ IInv' /\ NotCheaper(ledger, ledger')
                /\ ledger'.balanceOf = ledger.balanceOf
                /\ UNCHANGED <<requests, tokenBalance, position>>
    <2>1. n \in Nat
      BY BoundsAssumption
    <2>2. IInv' /\ NotCheaper(ledger, ledger') /\ ledger'.balanceOf = ledger.balanceOf
      BY <1>13, <2>1, TopUpSound
    <2> QED
      BY <1>13, <2>2 DEF TopUpStrategyGas, inventory
  <1> QED
    BY <1>0, <1>4, <1>5, <1>6, <1>7, <1>8, <1>9, <1>10, <1>11, <1>12, <1>13 DEF OwnerStep

-----------------------------------------------------------------------------
(* Every step. *)

LEMMA Start == Init => IInv
  <1> SUFFICES ASSUME Init PROVE IInv
    OBVIOUS
  <1> PICK b : b = [a \in Accounts |-> 0]
    OBVIOUS
  <1> PICK l : l = [held |-> 0, gasReserve |-> 0, totalSupply |-> 0, balanceOf |-> b]
    OBVIOUS
  <1>1. ledger = l /\ l \in LedgerType
    <2>1. b \in [Accounts -> Nat]
      OBVIOUS
    <2>2. ledger = l
      BY DEF Init
    <2> QED
      BY <2>1, <2>2 DEF LedgerType
  <1>2. SharesOwned(l)
    <2>1. l.totalSupply = 0 /\ l.balanceOf = b
      OBVIOUS
    <2>2. Units(l) = {}
      BY <2>1 DEF Units
    <2> QED
      BY <2>1, <2>2, FS_EmptySet DEF SharesOwned
  <1>3. Held(ledger) /\ Backs(ledger)
    BY <1>1, <1>2 DEF Held, Backs
  <1>4. PositionsTracked
    <2>1. \A t \in Tokens : /\ position[t].quantity = 0 /\ position[t].cost = 0
                            /\ tokenBalance[t] = 0
      BY DEF Init
    <2>2. {t \in Tokens : position[t].quantity > 0} = {}
      BY <2>1
    <2>3. openPositionCount = 0
      BY DEF Init
    <2> QED
      BY <2>1, <2>2, <2>3, FS_EmptySet DEF PositionsTracked
  <1>5. config \in ConfigType
    <2>1. PICK owner \in Accounts :
            config = [paused |-> FALSE, frozen |-> FALSE, tokens |-> {Asset},
                      adapter |-> FALSE, feeBps |-> 0, feeRecipient |-> owner,
                      gas |-> [bps |-> 0, cap |-> 0, wallet |-> TRUE],
                      gasTarget |-> 0]
      BY DEF Init
    <2>2. 0 \in 0..BPS_DENOMINATOR /\ {Asset} \in SUBSET (Tokens \cup {Asset})
      BY DEF BPS_DENOMINATOR
    <2> QED
      BY <2>1, <2>2 DEF ConfigType
  <1>6. TypeOK
    BY <1>1, <1>5 DEF Init, TypeOK
  <1> QED
    BY <1>3, <1>4, <1>6 DEF IInv

(* What the action properties ask of a step that does not trade. *)
Moved == ledger'.balanceOf # ledger.balanceOf => \A t \in Tokens : position'[t].quantity = 0
Answered ==
    /\ \A id \in DOMAIN requests :
          requests[id].status # "pending" => requests'[id] = requests[id]
    /\ Taken # {} => ledger'.held = ledger.held + SumOver(Amounts, Taken)
Kept == \A t \in Tokens : tokenBalance'[t] >= tokenBalance[t]

LEMMA NothingTaken ==
    ASSUME \A id \in DOMAIN requests :
              \/ requests'[id] = requests[id]
              \/ requests[id].status = "pending" /\ requests'[id].status = "cancelled"
    PROVE  Answered
  <1>1. Taken = {}
    BY DEF Taken, Settling
  <1> QED
    BY <1>1 DEF Answered

LEMMA PriceHolds ==
    ASSUME IInv, IInv', NotCheaper(ledger, ledger')
    PROVE  ~PriceFell
  <1> PICK l, k : l = ledger /\ k = ledger'
    OBVIOUS
  <1>1. l \in LedgerType /\ k \in LedgerType
    BY DEF IInv, TypeOK
  <1> PICK a, b : a = Managed(l) /\ b = Managed(k)
    OBVIOUS
  <1>2. a \in Nat /\ b \in Nat /\ l.totalSupply \in Nat /\ k.totalSupply \in Nat
    BY <1>1, Fields
  <1>3. l.totalSupply > 0 /\ k.totalSupply > 0 => a * k.totalSupply <= b * l.totalSupply
    BY DEF NotCheaper
  <1> PICK x, y : x = a * k.totalSupply /\ y = b * l.totalSupply
    OBVIOUS
  <1>4. x \in Nat /\ y \in Nat
    BY <1>2, Products
  <1>5. l.totalSupply > 0 /\ k.totalSupply > 0 => ~ (y < x)
    BY <1>3, <1>4
  <1> QED
    BY <1>5 DEF PriceFell

LEMMA FlatMoves ==
    ASSUME IInv, Flat, UNCHANGED inventory
    PROVE  Moved /\ Kept
  <1>1. \A t \in Tokens : position'[t].quantity = 0
    BY FlatMeansEmpty DEF inventory
  <1>2. Kept
    BY DEF IInv, TypeOK, Kept, inventory
  <1> QED
    BY <1>1, <1>2 DEF Moved

LEMMA ShareSteps ==
    ASSUME IInv
    PROVE  ShareStep =>
           /\ IInv' /\ (PriceFell => UnpricedDeposit) /\ Moved /\ Answered /\ Kept
  <1>0. HAVE ShareStep
  <1>1. ASSUME NEW a \in Accounts, NEW n \in 1..MaxAssets, Deposit(a, n)
        PROVE  IInv' /\ (PriceFell => UnpricedDeposit) /\ Moved /\ Answered /\ Kept
    <2>1. n \in Nat
      BY BoundsAssumption
    <2>2. IInv' /\ (~RoundsToNothing(ledger, n) => NotCheaper(ledger, ledger'))
      BY <1>1, <2>1, DepositSound
    <2>3. PriceFell => UnpricedDeposit
      BY <1>1, <2>2, PriceHolds DEF UnpricedDeposit
    <2>4. Flat /\ UNCHANGED <<requests, inventory>>
      BY <1>1 DEF Deposit
    <2> QED
      BY <2>2, <2>3, <2>4, FlatMoves, NothingTaken
  <1>2. ASSUME NEW a \in Accounts, NEW n \in 1..MaxAssets, Withdraw(a, n)
        PROVE  IInv' /\ (PriceFell => UnpricedDeposit) /\ Moved /\ Answered /\ Kept
    <2>1. n \in Nat
      BY BoundsAssumption
    <2>2. IInv' /\ ~PriceFell
      BY <1>2, <2>1, WithdrawSound, PriceHolds
    <2>3. Flat /\ UNCHANGED <<requests, inventory>>
      BY <1>2 DEF Withdraw
    <2> QED
      BY <2>2, <2>3, FlatMoves, NothingTaken
  <1>3. ASSUME NEW a \in Accounts, NEW n \in 1..MaxShares, Redeem(a, n)
        PROVE  IInv' /\ (PriceFell => UnpricedDeposit) /\ Moved /\ Answered /\ Kept
    <2>1. n \in Nat
      BY BoundsAssumption
    <2>2. IInv' /\ ~PriceFell
      BY <1>3, <2>1, RedeemSound, PriceHolds
    <2>3. Flat /\ UNCHANGED <<requests, inventory>>
      BY <1>3 DEF Redeem
    <2> QED
      BY <2>2, <2>3, FlatMoves, NothingTaken
  <1>4. ASSUME NEW ids \in Batches, SettleQueuedDeposits(ids)
        PROVE  IInv' /\ (PriceFell => UnpricedDeposit) /\ Moved /\ Answered /\ Kept
    <2>1. ids \in Seq(Nat \ {0})
      BY ChoicesAssumption
    <2>2. /\ IInv'
          /\ \A id \in DOMAIN requests :
                \/ requests'[id] = requests[id]
                \/ requests[id].status = "pending" /\ requests'[id].status = "settled"
          /\ ledger'.held = ledger.held + SumOver(Amounts, Taken)
          /\ \/ NotCheaper(ledger, ledger')
             \/ \E n \in 1..Len(ids) : Unpriced(Settlement(ids)[n - 1], ids[n])
      BY <1>4, <2>1, SettleSound
    <2>3. PriceFell => UnpricedDeposit
      <3>1. CASE NotCheaper(ledger, ledger')
        BY <2>2, <3>1, PriceHolds
      <3>2. ASSUME NEW n \in 1..Len(ids), Unpriced(Settlement(ids)[n - 1], ids[n])
            PROVE  UnpricedDeposit
        BY <1>4, <3>2 DEF UnpricedDeposit, Unpriced
      <3> QED
        BY <2>2, <3>1, <3>2
    <2>4. Flat /\ UNCHANGED inventory
      BY <1>4 DEF SettleQueuedDeposits
    <2> QED
      BY <2>2, <2>3, <2>4, FlatMoves DEF Answered
  <1> QED
    BY <1>0, <1>1, <1>2, <1>3, <1>4 DEF ShareStep

LEMMA QuietSteps ==
    ASSUME IInv
    PROVE  QueueStep \/ OwnerStep \/ GiftStep =>
           /\ IInv' /\ ~PriceFell /\ Moved /\ Answered /\ Kept
  <1>0. HAVE QueueStep \/ OwnerStep \/ GiftStep
  <1>1. ledger \in LedgerType /\ tokenBalance \in [Tokens -> Nat]
    BY DEF IInv, TypeOK
  <1>2. ledger.totalSupply \in Nat /\ Managed(ledger) \in Nat
    BY <1>1, Fields
  <1>3. NotCheaper(ledger, ledger)
    BY <1>2 DEF NotCheaper
  <1>4. UNCHANGED tokenBalance => Kept
    BY <1>1 DEF Kept
  <1>5. ASSUME NEW o \in Accounts, NEW r \in Accounts, NEW n \in QueueAmounts,
               QueueDeposit(o, r, n)
        PROVE  IInv' /\ ~PriceFell /\ Moved /\ Answered /\ Kept
    <2>1. n \in Nat
      BY ChoicesAssumption
    <2>2. /\ IInv' /\ ledger' = ledger
          /\ \A id \in DOMAIN requests : requests'[id] = requests[id]
      BY <1>5, <2>1, QueueSound
    <2>3. UNCHANGED tokenBalance
      BY <1>5 DEF QueueDeposit, inventory
    <2> QED
      BY <1>3, <1>4, <2>2, <2>3, PriceHolds, NothingTaken DEF Moved
  <1>6. ASSUME NEW a \in Accounts, NEW id \in 1..MaxRequests, CancelQueuedDeposit(a, id)
        PROVE  IInv' /\ ~PriceFell /\ Moved /\ Answered /\ Kept
    <2>1. id \in Nat
      BY BoundsAssumption
    <2>2. /\ IInv' /\ ledger' = ledger
          /\ \A j \in DOMAIN requests :
                \/ requests'[j] = requests[j]
                \/ requests[j].status = "pending" /\ requests'[j].status = "cancelled"
      BY <1>6, <2>1, CancelSound
    <2>3. UNCHANGED tokenBalance
      BY <1>6 DEF CancelQueuedDeposit, inventory
    <2> QED
      BY <1>3, <1>4, <2>2, <2>3, PriceHolds, NothingTaken DEF Moved
  <1>7. ASSUME OwnerStep PROVE IInv' /\ ~PriceFell /\ Moved /\ Answered /\ Kept
    <2>1. /\ IInv' /\ NotCheaper(ledger, ledger') /\ ledger'.balanceOf = ledger.balanceOf
          /\ UNCHANGED <<requests, tokenBalance, position>>
      BY <1>7, OwnerSound
    <2> QED
      BY <1>4, <2>1, PriceHolds, NothingTaken DEF Moved
  <1>8. ASSUME NEW n \in 1..MaxAssets, ReceiveAsset(n)
        PROVE  IInv' /\ ~PriceFell /\ Moved /\ Answered /\ Kept
    <2>1. n \in Nat
      BY BoundsAssumption
    <2>2. IInv' /\ NotCheaper(ledger, ledger') /\ ledger'.balanceOf = ledger.balanceOf
      BY <1>8, <2>1, ReceiveAssetSound
    <2>3. UNCHANGED <<requests, tokenBalance>>
      BY <1>8 DEF ReceiveAsset, inventory
    <2> QED
      BY <1>4, <2>2, <2>3, PriceHolds, NothingTaken DEF Moved
  <1>9. ASSUME NEW t \in Tokens, NEW n \in 1..MaxTokens, ReceiveToken(t, n)
        PROVE  IInv' /\ ~PriceFell /\ Moved /\ Answered /\ Kept
    <2>1. n \in Nat
      BY BoundsAssumption
    <2>2. IInv' /\ Kept
      BY <1>9, <2>1, ReceiveTokenSound DEF Kept
    <2>3. UNCHANGED <<ledger, requests>>
      BY <1>9 DEF ReceiveToken
    <2> QED
      BY <1>3, <2>2, <2>3, PriceHolds, NothingTaken DEF Moved
  <1> QED
    BY <1>0, <1>5, <1>6, <1>7, <1>8, <1>9 DEF QueueStep, GiftStep

LEMMA Traded ==
    ASSUME NEW m \in 1..(MaxAssets + MaxTokens)
    PROVE  m \in Nat /\ m > 0
  BY BoundsAssumption

LEMMA TradeSteps ==
    ASSUME IInv
    PROVE  TradeStep => IInv' /\ Moved /\ Answered
  <1>0. HAVE TradeStep
  <1>1. PICK m, n \in 1..(MaxAssets + MaxTokens) : ExecuteTrade(m, n)
    BY <1>0 DEF TradeStep
  <1>2. m \in Nat /\ n \in Nat /\ m > 0 /\ n > 0
    BY Traded
  <1>3. ASSUME NEW t \in Tokens, Buy(t, m, n) PROVE IInv' /\ Moved /\ Answered
    <2>1. IInv' /\ ledger'.balanceOf = ledger.balanceOf
      BY <1>2, <1>3, BuySound
    <2>2. UNCHANGED requests
      BY <1>3 DEF Buy
    <2> QED
      BY <2>1, <2>2, NothingTaken DEF Moved
  <1>4. ASSUME NEW token \in Tokens, Sell(token, m, n) PROVE IInv' /\ Moved /\ Answered
    <2>1. IInv' /\ (openPositionCount' # 0 => ledger'.balanceOf = ledger.balanceOf)
      BY <1>2, <1>4, SellSound
    <2>2. UNCHANGED requests
      BY <1>4 DEF Sell
    <2>3. (IInv /\ Flat => \A t \in Tokens : position[t].quantity = 0)'
      BY FlatMeansEmpty, PTL
    <2>4. Moved
      BY <2>1, <2>3 DEF Moved, Flat
    <2> QED
      BY <2>1, <2>2, <2>4, NothingTaken
  <1>5. ASSUME RoundTrip(m, n) PROVE IInv' /\ Moved /\ Answered
    <2>1. /\ IInv' /\ UNCHANGED <<tokenBalance, position>>
          /\ openPositionCount # 0 => ledger'.balanceOf = ledger.balanceOf
      BY <1>2, <1>5, RoundTripSound
    <2>2. UNCHANGED requests
      BY <1>5 DEF RoundTrip
    <2>3. Flat => \A x \in Tokens : position[x].quantity = 0
      BY FlatMeansEmpty
    <2> QED
      BY <2>1, <2>2, <2>3, NothingTaken DEF Moved, Flat
  <1> QED
    BY <1>1, <1>3, <1>4, <1>5 DEF ExecuteTrade

LEMMA NextSound ==
    ASSUME IInv, [Next]_vars
    PROVE  /\ IInv' /\ Moved /\ Answered
           /\ PriceFell => TradeStep \/ UnpricedDeposit
           /\ ~TradeStep => Kept
  <1>1. CASE ShareStep
    BY <1>1, ShareSteps
  <1>2. CASE QueueStep \/ OwnerStep \/ GiftStep
    BY <1>2, QuietSteps
  <1>3. CASE TradeStep
    BY <1>3, TradeSteps
  <1>4. CASE UNCHANGED vars
    <2>1. ledger \in LedgerType /\ tokenBalance \in [Tokens -> Nat]
      BY DEF IInv, TypeOK
    <2>2. UNCHANGED <<ledger, requests, inventory, config>>
      BY <1>4 DEF vars
    <2>3. IInv'
      BY <2>2 DEF IInv, TypeOK, Held, Backs, Flat, PositionsTracked, inventory
    <2>4. ledger.totalSupply \in Nat /\ Managed(ledger) \in Nat
      BY <2>1, Fields
    <2>5. NotCheaper(ledger, ledger')
      BY <2>2, <2>4 DEF NotCheaper
    <2>6. Kept
      BY <2>1, <2>2 DEF Kept, inventory
    <2>7. Answered
      BY <2>2, NothingTaken
    <2> QED
      BY <2>2, <2>3, <2>5, <2>6, <2>7, PriceHolds DEF Moved
  <1> QED
    BY <1>1, <1>2, <1>3, <1>4 DEF Next

-----------------------------------------------------------------------------
(* The invariant is inductive. *)
THEOREM VaultInductive == Spec => []IInv
  <1>1. IInv /\ [Next]_vars => IInv'
    BY NextSound
  <1> QED
    BY <1>1, Start, PTL DEF Spec

(* No subtraction of the vault underflows, whatever is deposited, traded, *)
(* settled and withdrawn, and every balance keeps its type.               *)
THEOREM VaultTypes == Spec => []TypeOK
  <1>1. IInv => TypeOK
    BY DEF IInv
  <1> QED
    BY <1>1, VaultInductive, PTL

(* The gas reserve never promises money the vault does not have: a purchase *)
(* cannot spend it, and a payout never eats into it.                        *)
THEOREM ReserveIsHeld == Spec => []ReserveHeld
  <1>1. IInv => ReserveHeld
    BY DEF IInv, Held, ReserveHeld
  <1> QED
    BY <1>1, VaultInductive, PTL

(* While no position is open, the shares of the holders are backed: the one- *)
(* to-one price of an empty vault never dilutes them.                        *)
THEOREM HoldersAreBacked == Spec => []HoldersBacked
  <1>1. IInv => HoldersBacked
    <2> SUFFICES ASSUME IInv, Flat, ledger.totalSupply > 0 PROVE Managed(ledger) > 0
      BY DEF HoldersBacked
    <2>1. ledger \in LedgerType /\ ledger.gasReserve < ledger.held
      BY DEF IInv, TypeOK, Backs
    <2> QED
      BY <2>1, Fields
  <1> QED
    BY <1>1, VaultInductive, PTL

(* The counter that blocks share operations counts the open positions, which *)
(* the vault holds, and a closed position has no cost left.                  *)
THEOREM PositionsAreTracked == Spec => []PositionsTracked
  <1>1. IInv => PositionsTracked
    BY DEF IInv
  <1> QED
    BY <1>1, VaultInductive, PTL

(* The supply of shares is what the accounts hold together, one unit each. *)
THEOREM SupplyIsOwned == Spec => []SharesOwned(ledger)
  <1>1. IInv => SharesOwned(ledger)
    BY DEF IInv, Held
  <1> QED
    BY <1>1, VaultInductive, PTL

(* Nothing but a trade, or a deposit too small for a share, makes a share *)
(* worth less: deposits, withdrawals, redemptions, batches of any length, *)
(* gas top-ups and gifts all round in favour of those who stay.           *)
THEOREM PriceIsKept == Spec => SharePriceKept
  <1>1. IInv /\ [Next]_vars => [PriceFell => TradeStep \/ UnpricedDeposit]_vars
    BY NextSound
  <1> QED
    BY <1>1, VaultInductive, PTL DEF Spec, SharePriceKept

(* Shares are made and destroyed only by steps that end with no inventory. *)
THEOREM SharesMoveFlat == Spec => SharesMoveWhenFlat
  <1>1. IInv /\ [Next]_vars =>
          [ledger'.balanceOf # ledger.balanceOf =>
             \A t \in Tokens : position'[t].quantity = 0]_vars
    BY NextSound DEF Moved
  <1> QED
    BY <1>1, VaultInductive, PTL DEF Spec, SharesMoveWhenFlat

(* A queued deposit is settled or cancelled once, and a batch takes in exactly *)
(* what the requests it settles ask for, however often it names them.          *)
THEOREM RequestsSettle == Spec => RequestsSettleOnce
  <1>1. ASSUME IInv, [Next]_vars
        PROVE  LET settled == {id \in DOMAIN requests : Settling(id)}
               IN  /\ \A id \in DOMAIN requests :
                         requests[id].status # "pending" => requests'[id] = requests[id]
                   /\ settled # {} =>
                         ledger'.held = ledger.held
                             + MapThenSumSet(LAMBDA id : requests[id].assets, settled)
    <2>1. requests \in Seq(RequestType) /\ Taken \subseteq DOMAIN requests
      BY <1>1 DEF IInv, TypeOK, Taken
    <2>2. MapThenSumSet(LAMBDA id : requests[id].assets, Taken) = SumOver(Amounts, Taken)
      BY <2>1, SumOfAmounts
    <2>3. Answered
      BY <1>1, NextSound
    <2> QED
      BY <2>2, <2>3 DEF Answered, Taken
  <1> QED
    BY <1>1, VaultInductive, PTL DEF Spec, RequestsSettleOnce

(* What a sale of one token adds to the fee owed, and what the shares minted *)
(* for the fee are worth, stay within the fee on its tracked profit.         *)
SaleFee(t) ==
    LET sold == tokenBalance[t] - tokenBalance'[t]
        scale == BPS_DENOMINATOR * sold
        minted == ledger'.totalSupply - ledger.totalSupply
    IN  sold > 0 =>
          /\ (feeOwed' - feeOwed) * scale <= FeeAllowed(t)
          /\ ledger.totalSupply > 0 =>
                minted * Managed(ledger') * scale
                    <= ledger.totalSupply * (feeOwed * scale + FeeAllowed(t))

FeeWithin(before, after, scale, allowed, T, minted, M) ==
    /\ (after - before) * scale <= allowed
    /\ T > 0 => minted * M * scale <= T * (before * scale + allowed)

LEMMA FeeScaled ==
    ASSUME NEW before \in Nat, NEW after \in Nat, NEW A \in Nat, NEW scale \in Nat,
           NEW allowed \in Int, after <= before + A, A * scale <= allowed,
           NEW T \in Nat, NEW minted \in Nat, NEW M \in Nat,
           T > 0 => M * minted <= (before + A) * T
    PROVE  FeeWithin(before, after, scale, allowed, T, minted, M)
  <1>1. (after - before) * scale <= A * scale
    <2> PICK d : d = after - before
      OBVIOUS
    <2>1. d \in Int /\ d <= A
      OBVIOUS
    <2> QED
      BY <2>1
  <1>2. (after - before) * scale \in Int /\ A * scale \in Nat
    BY Products
  <1>3. (after - before) * scale <= allowed
    BY <1>1, <1>2
  <1>4. ASSUME T > 0 PROVE minted * M * scale <= T * (before * scale + allowed)
    <2> PICK x, y : x = minted * M /\ y = (before + A) * T
      OBVIOUS
    <2>1. x \in Nat /\ y \in Nat /\ x <= y
      BY <1>4, Products
    <2>2. x * scale <= y * scale /\ x * scale \in Nat /\ y * scale \in Nat
      BY <2>1, Products
    <2>3. y * scale = T * (before * scale + A * scale)
      OBVIOUS
    <2>4. T * (before * scale + A * scale) <= T * (before * scale + allowed)
      <3> PICK u, v, w : u = before * scale /\ v = A * scale /\ w = allowed
        OBVIOUS
      <3>1. u \in Nat /\ v \in Nat /\ w \in Nat /\ v <= w
        BY <1>2, Products
      <3>2. u + v <= u + w /\ u + v \in Nat /\ u + w \in Nat
        BY <3>1
      <3> QED
        BY <3>2
    <2>5. T * (before * scale + allowed) \in Int
      <3>1. before * scale \in Nat
        BY Products
      <3> QED
        BY <3>1
    <2> QED
      BY <2>2, <2>3, <2>4, <2>5
  <1> QED
    BY <1>3, <1>4 DEF FeeWithin

LEMMA SaleFees ==
    ASSUME IInv, NEW t \in Tokens
    PROVE  [Next]_vars => SaleFee(t)
  <1>0. HAVE [Next]_vars
  <1>1. CASE Kept
    <2>1. tokenBalance'[t] >= tokenBalance[t] /\ tokenBalance[t] \in Nat
          /\ tokenBalance'[t] \in Nat
      BY <1>0, <1>1, NextSound DEF Kept, IInv, TypeOK
    <2> QED
      BY <2>1 DEF SaleFee
  <1>2. CASE TradeStep
    <2>1. PICK m, n \in 1..(MaxAssets + MaxTokens) : ExecuteTrade(m, n)
      BY <1>2 DEF TradeStep
    <2>2. m \in Nat /\ n \in Nat /\ m > 0 /\ n > 0
      BY Traded
    <2>3. CASE Sell(t, m, n)
      <3>a. PICK A : A = AccruedFee(t, m, n)
        OBVIOUS
      <3>1. /\ IInv' /\ A \in Nat /\ FeeAllowed(t) \in Int
            /\ A * (BPS_DENOMINATOR * m) <= FeeAllowed(t)
            /\ tokenBalance[t] - tokenBalance'[t] = m
            /\ feeOwed' <= feeOwed + A /\ Managed(ledger') \in Nat
            /\ ledger'.totalSupply - ledger.totalSupply \in Nat
            /\ ledger.totalSupply > 0 =>
                 Managed(ledger') * (ledger'.totalSupply - ledger.totalSupply)
                   <= (feeOwed + A) * ledger.totalSupply
        BY <2>2, <2>3, <3>a, SellSound
      <3>2. feeOwed \in Nat /\ feeOwed' \in Nat /\ ledger \in LedgerType
        BY <3>1 DEF IInv, TypeOK
      <3>3. ledger.totalSupply \in Nat
        BY <3>2, Fields
      <3> PICK before, after, scale, allowed, T, minted, M :
              /\ before = feeOwed /\ after = feeOwed' /\ scale = BPS_DENOMINATOR * m
              /\ allowed = FeeAllowed(t) /\ T = ledger.totalSupply
              /\ minted = ledger'.totalSupply - ledger.totalSupply
              /\ M = Managed(ledger')
        OBVIOUS
      <3>4. scale \in Nat
        BY <2>2 DEF BPS_DENOMINATOR
      <3>5. /\ before \in Nat /\ after \in Nat /\ A \in Nat /\ scale \in Nat
            /\ allowed \in Int /\ after <= before + A /\ A * scale <= allowed
            /\ T \in Nat /\ minted \in Nat /\ M \in Nat
            /\ T > 0 => M * minted <= (before + A) * T
        BY <3>1, <3>2, <3>3, <3>4
      <3>6. FeeWithin(before, after, scale, allowed, T, minted, M)
        BY <3>5, FeeScaled
      <3> QED
        BY <3>1, <3>6 DEF SaleFee, FeeWithin
    <2>4. CASE ~Sell(t, m, n)
      <3>1. tokenBalance'[t] >= tokenBalance[t] /\ tokenBalance[t] \in Nat
        <4>0. tokenBalance[t] \in Nat
          BY DEF IInv, TypeOK
        <4>1. ASSUME NEW u \in Tokens, Buy(u, m, n)
              PROVE  tokenBalance'[t] >= tokenBalance[t]
          BY <2>2, <4>1, BuySound
        <4>2. ASSUME NEW u \in Tokens, u # t, Sell(u, m, n)
              PROVE  tokenBalance'[t] >= tokenBalance[t]
          <5>1. tokenBalance'[t] = tokenBalance[t]
            BY <2>2, <4>2, SellSound
          <5> QED
            BY <4>0, <5>1
        <4>3. RoundTrip(m, n) => tokenBalance'[t] >= tokenBalance[t]
          BY <4>0 DEF RoundTrip
        <4> QED
          BY <2>1, <2>4, <4>0, <4>1, <4>2, <4>3 DEF ExecuteTrade
      <3>2. tokenBalance'[t] \in Nat
        BY <1>0, NextSound DEF IInv, TypeOK
      <3> QED
        BY <3>1, <3>2 DEF SaleFee
    <2> QED
      BY <2>3, <2>4
  <1> QED
    BY <1>0, <1>1, <1>2, NextSound

(* The fee is charged on tracked profit only, in what is owed and in the worth *)
(* of the shares minted for it, for every price, fee rate and position.        *)
THEOREM FeeIsOnProfit == Spec => FeeOnTrackedProfit
  <1>1. IInv /\ [Next]_vars => [\A t \in Tokens : SaleFee(t)]_vars
    BY SaleFees
  <1> QED
    BY <1>1, VaultInductive, PTL DEF Spec, FeeOnTrackedProfit, SaleFee
=============================================================================
