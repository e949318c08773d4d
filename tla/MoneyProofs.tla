----------------------------- MODULE MoneyProofs -----------------------------
(***************************************************************************)
(* The money of a table (RoundMoney), for every set of seats, chips and    *)
(* configs, any number of bets and rounds: every coin staked is in one     *)
(* place, none of which is ever negative, and the winning bets share by    *)
(* stake to within their number of coins.                                  *)
(***************************************************************************)
EXTENDS RoundMoney, FoldLemmas

-----------------------------------------------------------------------------
(* Arithmetic.                                                             *)

LEMMA DivBounds ==
  ASSUME NEW n \in Nat, NEW d \in Nat \ {0}
  PROVE  n \div d \in Nat /\ (n \div d) * d <= n /\ n < (n \div d) * d + d
  OBVIOUS

\* A share of the pot is no more than the pot.
LEMMA RakeBounds ==
  ASSUME NEW pot \in Nat, config \in Configs
  PROVE  Rake(pot) \in Nat /\ Rake(pot) <= pot /\ (config.rake_bps = 0 => Rake(pot) = 0)
<1>1. config.rake_bps \in 0..10000
  BY SMTT(60), MoneyAssumption
<1> DEFINE r == config.rake_bps
           n == pot * r
<1>d. r \in 0..10000
  BY <1>1
<1> HIDE DEF r
<1>2. n \in Nat /\ n <= pot * 10000
  <2>1. PICK d \in Nat : 10000 = r + d
    BY <1>d
  <2>2. pot * 10000 = n + pot * d /\ pot * d \in Nat /\ n \in Nat
    BY <1>d, <2>1
  <2> QED
    BY <2>2
<1>3. r = 0 => n = 0
  OBVIOUS
<1> HIDE DEF n
<1>4. n \div 10000 \in Nat /\ n \div 10000 <= pot /\ (n = 0 => n \div 10000 = 0)
  BY <1>2
<1> QED
  BY SMTT(60), <1>3, <1>4 DEF n, r, Rake

\* Some bet of a finite set is last in order.
LEMMA LastIsOne ==
  ASSUME NEW W, IsFiniteSet(W), W \subseteq Bets, W # {}
  PROVE  LastInOrder(W) \in W
<1> DEFINE Key(b) == StringKey(b.id)
           Good == {T \in SUBSET W : T = {} \/ \E b \in T : \A c \in T : Key(c) <= Key(b)}
<1>1. \A b \in W : Key(b) \in Nat
  BY DEF StringKey, Bets
<1> HIDE DEF Key
<1>2. ASSUME NEW T \in SUBSET W, \A U \in SUBSET T : U # T => U \in Good
      PROVE  T \in Good
  <2>1. SUFFICES ASSUME T # {} PROVE \E b \in T : \A c \in T : Key(c) <= Key(b)
    OBVIOUS
  <2>2. PICK x \in T : TRUE
    BY <2>1
  <2>3. T \ {x} \in Good
    BY <1>2, <2>2
  <2>4. CASE T \ {x} = {}
    BY <1>1, <2>2, <2>4
  <2>5. CASE \E b \in T \ {x} : \A c \in T \ {x} : Key(c) <= Key(b)
    <3>1. PICK b \in T \ {x} : \A c \in T \ {x} : Key(c) <= Key(b)
      BY <2>5
    <3>2. \A c \in T : Key(c) \in Nat
      BY <1>1
    <3>3. CASE Key(x) <= Key(b)
      BY <3>1, <3>2, <3>3
    <3>4. CASE Key(b) <= Key(x)
      BY <3>1, <3>2, <3>4
    <3> QED
      BY <3>2, <3>3, <3>4
  <2> QED
    BY <2>3, <2>4, <2>5
<1>3. W \in Good
  <2>1. \A T \in SUBSET W : (\A U \in SUBSET T : U # T => U \in Good) => T \in Good
    BY <1>2
  <2> HIDE DEF Good
  <2> QED
    BY <2>1, SubsetInduction
<1>4. \E b \in W : \A c \in W : StringKey(c.id) <= StringKey(b.id)
  BY <1>3 DEF Key
<1> QED
  BY <1>4 DEF LastInOrder

-----------------------------------------------------------------------------
(* Stakes and shares.                                                      *)

Amounts(B) == [b \in B |-> b.amount]

LEMMA AmountType ==
  ASSUME NEW b \in Bets
  PROVE  b.amount \in Nat \ {0} /\ b.id \in Nat /\ b.position \in Seats
<1>1. b.amount \in Denoms /\ b.id \in Nat /\ b.position \in Seats
  BY DEF Bets
<1>2. Denoms \subseteq Nat \ {0}
  BY MoneyAssumption
<1> QED
  BY <1>1, <1>2

LEMMA StakesType ==
  ASSUME NEW B, IsFiniteSet(B), B \subseteq Bets
  PROVE  /\ Stakes(B) \in Nat
         /\ \A b \in B : b.amount + Stakes(B \ {b}) = Stakes(B) /\ Stakes(B \ {b}) \in Nat
<1>1. Amounts(B) \in [B -> Nat] /\ Amounts(B) \in [B -> Int]
  BY AmountType DEF Amounts
<1>2. \A T \in SUBSET B : Part(Amounts(B), T) = [b \in T |-> b.amount]
  BY DEF Part, Amounts
<1>3. \A T \in SUBSET B : SumOn(Amounts(B), T) = Stakes(T)
  BY <1>2 DEF Stakes, SumOn
<1>4. \A T \in SUBSET B : SumOn(Amounts(B), T) \in Nat
  BY <1>1, SumType DEF SumOn
<1>5. ASSUME NEW b \in B
      PROVE  b.amount + Stakes(B \ {b}) = Stakes(B)
  <2>1. SumOn(Amounts(B), B) = Amounts(B)[b] + SumOn(Amounts(B), B \ {b})
    BY <1>1, SumTakeOut
  <2> QED
    BY <1>3, <2>1 DEF Amounts
<1> QED
  BY <1>3, <1>4, <1>5

\* x times k is no more than y times k, or less, exactly when x and y compare so.
LEMMA CancelFactor ==
  ASSUME NEW x \in Int, NEW y \in Int, NEW k \in Nat \ {0}
  PROVE  (k * x <= k * y => x <= y) /\ (k * x < k * y => x < y)
<1>1. x > y => k * x > k * y
  <2>1. SUFFICES ASSUME x > y PROVE k * x > k * y
    OBVIOUS
  <2>2. PICK d \in Nat \ {0} : x = y + d
    BY <2>1
  <2>3. k * x = k * y + k * d /\ k * d > 0 /\ k * y \in Int /\ k * d \in Int
    BY <2>2
  <2> QED
    BY <2>3
<1>2. x = y => k * x = k * y
  OBVIOUS
<1>3. k * x \in Int /\ k * y \in Int
  OBVIOUS
<1> DEFINE kx == k * x
           ky == k * y
<1> HIDE DEF kx, ky
<1>4. (x > y => kx > ky) /\ (x = y => kx = ky) /\ kx \in Int /\ ky \in Int
  BY <1>1, <1>2, <1>3 DEF kx, ky
<1>5. (kx <= ky => x <= y) /\ (kx < ky => x < y)
  BY <1>4
<1> QED
  BY <1>5 DEF kx, ky

\* The floors of the shares of some bets fall short of their exact shares, by less
\* than one coin each.
LEMMA FloorsBound ==
  ASSUME NEW R, IsFiniteSet(R), R \subseteq Bets, NEW D \in Nat, NEW S \in Nat \ {0}
  PROVE  LET others == SumFunction([c \in R |-> Share(c, D, S)])
         IN  /\ [c \in R |-> Share(c, D, S)] \in [R -> Nat]
             /\ others \in Nat
             /\ S * others <= D * Stakes(R)
             /\ D * Stakes(R) <= S * others + S * Cardinality(R)
<1> DEFINE f == [c \in R |-> Share(c, D, S)]
           g == Amounts(R)
           one == [c \in R |-> 1]
           zero == 0
           exact == [c \in R |-> D * g[c] + zero * f[c]]
           floors == [c \in R |-> S * f[c] + zero * g[c]]
           above == [c \in R |-> S * f[c] + S * one[c]]
<1>1. ASSUME NEW c \in R
      PROVE  /\ c.amount \in Nat /\ g[c] = c.amount /\ f[c] \in Nat
             /\ f[c] * S <= D * c.amount /\ D * c.amount < f[c] * S + S
  <2>1. c.amount \in Nat
    BY AmountType
  <2>2. D * c.amount \in Nat
    BY <2>1
  <2>3. f[c] = (D * c.amount) \div S /\ g[c] = c.amount
    BY DEF Share, Amounts
  <2> HIDE DEF f, g
  <2> QED
    BY <2>1, <2>2, <2>3, DivBounds
<1>2. /\ f \in [R -> Nat] /\ g \in [R -> Nat] /\ f \in [R -> Int] /\ g \in [R -> Int]
      /\ one \in [R -> Int] /\ \A c \in R : one[c] = 1
  BY <1>1 DEF Amounts
<1>3. SumFunction(g) = Stakes(R)
  BY DEF Stakes, Amounts
<1>4. SumFunction(one) = Cardinality(R) /\ Cardinality(R) \in Nat
  <2>1. SumFunction(one) = 1 * Cardinality(R)
    BY <1>2, SumConstant
  <2> QED
    BY <2>1, FS_CardinalityType
<1>5. SumFunction(f) \in Nat /\ Stakes(R) \in Nat
  BY <1>2, SumType, WholePart, StakesType
<1>z. zero \in Int /\ S \in Int /\ D \in Int
  OBVIOUS
<1> HIDE DEF f, g, one, zero
<1>6. /\ SumFunction(exact) = D * SumFunction(g) + zero * SumFunction(f)
      /\ SumFunction(floors) = S * SumFunction(f) + zero * SumFunction(g)
      /\ SumFunction(above) = S * SumFunction(f) + S * SumFunction(one)
  BY <1>2, <1>z, SumLinear
<1>7. \A c \in R : /\ exact[c] \in Int /\ floors[c] \in Int /\ above[c] \in Int
                   /\ floors[c] <= exact[c] /\ exact[c] <= above[c]
  <2>1. SUFFICES ASSUME NEW c \in R
        PROVE  /\ exact[c] \in Int /\ floors[c] \in Int /\ above[c] \in Int
               /\ floors[c] <= exact[c] /\ exact[c] <= above[c]
    OBVIOUS
  <2>2. exact[c] = D * g[c] /\ floors[c] = S * f[c] /\ above[c] = S * f[c] + S
    BY <1>1, <1>2 DEF zero
  <2>3. S * f[c] = f[c] * S
    BY <1>1
  <2> HIDE DEF exact, floors, above
  <2> QED
    BY <1>1, <2>2, <2>3
<1>8. /\ exact \in [R -> Int] /\ floors \in [R -> Int] /\ above \in [R -> Int]
  BY <1>7
<1> HIDE DEF exact, floors, above
<1>9. SumFunction(floors) <= SumFunction(exact) /\ SumFunction(exact) <= SumFunction(above)
  BY <1>7, <1>8, SumMonotone
<1>10. S * SumFunction(f) <= D * Stakes(R) /\ D * Stakes(R) <= S * SumFunction(f) + S * Cardinality(R)
  BY <1>3, <1>4, <1>5, <1>6, <1>9 DEF zero
<1> QED
  BY <1>2, <1>5, <1>10 DEF f

\* Each winning bet but the last has the floor of its share; the last has the rest,
\* which is no less than its own share.
LEMMA SplitSound ==
  ASSUME NEW W, IsFiniteSet(W), W \subseteq Bets, W # {}, NEW D \in Nat
  PROVE  /\ Split(W, D) \in [W -> Nat]
         /\ SumFunction(Split(W, D)) = D
         /\ Stakes(W) \in Nat \ {0}
         /\ \A b \in W : Stakes(W) * Split(W, D)[b] + Stakes(W) > D * b.amount
         /\ \A b \in W : Stakes(W) * Split(W, D)[b] < D * b.amount + Stakes(W) * Cardinality(W)
         /\ D >= Stakes(W) => \A b \in W : Split(W, D)[b] >= b.amount
<1> DEFINE S == Stakes(W)
           last == LastInOrder(W)
           R == W \ {last}
           shares == [c \in R |-> Share(c, D, S)]
           others == SumFunction(shares)
           split == Split(W, D)
<1>1. last \in W /\ last \in Bets
  BY LastIsOne
<1>2. /\ IsFiniteSet(R) /\ R \subseteq Bets
      /\ Cardinality(R) \in Nat /\ Cardinality(W) = Cardinality(R) + 1
  <2>1. IsFiniteSet(R) /\ Cardinality(R) = Cardinality(W) - 1 /\ R \subseteq Bets
    BY <1>1, FS_RemoveElement
  <2>2. Cardinality(R) \in Nat /\ Cardinality(W) \in Nat
    BY <2>1, FS_CardinalityType
  <2> QED
    BY <2>1, <2>2
<1>3. S \in Nat \ {0} /\ last.amount + Stakes(R) = S /\ Stakes(R) \in Nat /\ last.amount \in Nat \ {0}
  BY <1>1, StakesType, AmountType
<1>4. /\ shares \in [R -> Nat] /\ others \in Nat
      /\ S * others <= D * Stakes(R) /\ D * Stakes(R) <= S * others + S * Cardinality(R)
  BY <1>2, <1>3, FloorsBound
<1>5. /\ split = [b \in W |-> IF b = last THEN D - others ELSE Share(b, D, S)]
      /\ \A b \in R : split[b] = shares[b]
      /\ split[last] = D - others
  BY <1>1 DEF Split
<1> DEFINE n == Cardinality(R)
           a == last.amount
           rest == Stakes(R)
<1>n. n \in Nat /\ a \in Nat \ {0} /\ rest \in Nat /\ a + rest = S /\ Cardinality(W) = n + 1
  BY <1>2, <1>3
<1>b. S * others <= D * rest /\ D * rest <= S * others + S * n /\ others \in Nat /\ S \in Nat \ {0}
  BY <1>3, <1>4
<1> HIDE DEF S, others, n, a, rest
<1>6. /\ D * S = D * a + D * rest /\ D * a \in Nat /\ D * rest \in Nat /\ S * others \in Nat
      /\ D * S = S * D /\ S * (D - others) = S * D - S * others /\ D * S \in Nat
      /\ S * n \in Nat /\ S * (n + 1) = S * n + S
  BY <1>n, <1>b
<1>7. D - others \in Nat
  <2>1. S * others <= S * D
    BY <1>6, <1>b
  <2> QED
    BY <2>1, <1>b, CancelFactor
<1>8. S * (D - others) >= D * a /\ S * (D - others) < D * a + S * (n + 1)
  BY <1>6, <1>b
<1>9. split \in [W -> Nat]
  BY <1>1, <1>4, <1>5, <1>7
<1>10. SumFunction(split) = D
  <2>1. Part(split, R) = shares
    BY <1>4, <1>5 DEF Part
  <2>2. split \in [W -> Int] /\ W \in SUBSET W
    BY <1>9
  <2> HIDE DEF split, shares, last, R
  <2>3. SumOn(split, W) = split[last] + SumOn(split, W \ {last})
    BY <1>1, <2>2, SumTakeOut
  <2>4. SumOn(split, W) = SumFunction(split) /\ SumOn(split, W \ {last}) = others
    BY <2>1, <2>2, WholePart DEF SumOn, others, R
  <2> QED
    BY <1>5, <1>7, <1>b, <2>3, <2>4
<1>11. ASSUME NEW b \in W
       PROVE  /\ S * split[b] + S > D * b.amount
              /\ S * split[b] < D * b.amount + S * (n + 1)
              /\ D >= S => split[b] >= b.amount
  <2> DEFINE m == b.amount
             s == split[b]
  <2>1. m \in Nat \ {0} /\ s \in Nat
    BY <1>9, AmountType
  <2>2. CASE b = last
    <3>1. s = D - others /\ m = a
      BY <1>5, <2>2 DEF a
    <3>2. S * s >= D * m /\ S * s < D * m + S * (n + 1) /\ D * m \in Nat /\ S * s \in Nat
      BY <1>8, <1>b, <2>1, <3>1
    <3>3. D >= S => s >= m
      <4>1. SUFFICES ASSUME D >= S PROVE s >= m
        OBVIOUS
      <4>2. PICK d \in Nat : D = S + d
        BY <4>1, <1>b
      <4>3. D * m = S * m + d * m /\ d * m \in Nat /\ S * m \in Nat
        BY <4>2, <2>1, <1>b
      <4>4. S * m <= S * s
        BY <3>2, <4>3
      <4> QED
        BY <4>4, <2>1, <1>b, CancelFactor
    <3> QED
      BY <3>2, <3>3, <1>b
  <2>3. CASE b # last
    <3>1. s = (D * m) \div S
      BY <1>5, <2>3 DEF Share
    <3>2. D * m \in Nat
      BY <2>1
    <3>3. s * S <= D * m /\ D * m < s * S + S /\ s * S = S * s /\ S * s \in Nat
      <4>1. s * S = S * s /\ S * s \in Nat
        BY <1>b, <2>1
      <4> DEFINE k == D * m
      <4> HIDE DEF k, s
      <4>2. s * S <= k /\ k < s * S + S
        BY <1>b, <3>1, <3>2, DivBounds DEF k
      <4> QED
        BY <4>1, <4>2 DEF k, s
    <3>4. D >= S => s >= m
      <4>1. SUFFICES ASSUME D >= S PROVE s >= m
        OBVIOUS
      <4>2. PICK d \in Nat : D = S + d
        BY <4>1, <1>b
      <4>3. D * m = S * m + d * m /\ d * m \in Nat /\ S * m \in Nat /\ S * (s + 1) = S * s + S
        BY <4>2, <2>1, <1>b
      <4>4. S * m < S * (s + 1)
        BY <3>3, <4>3, <1>b
      <4>5. m < s + 1
        BY <4>4, <2>1, <1>b, CancelFactor
      <4> QED
        BY <4>5, <2>1
    <3>5. S * n \in Nat /\ S * (n + 1) = S * n + S
      BY <1>6
    <3> QED
      BY <3>2, <3>3, <3>4, <3>5, <1>b
  <2> QED
    BY <2>2, <2>3
<1> QED
  BY <1>9, <1>10, <1>11, <1>b, <1>n DEF S, n

-----------------------------------------------------------------------------
(* Settle.                                                                 *)

\* What Settle pays, as a function of the state it starts from.
Distributable == (Stakes(bets) + carryIn) - Rake(Stakes(bets) + carryIn)
Pays == WinBets(bets) # {} /\ Distributable > 0
Payouts ==
  IF Pays
  THEN [b \in bets |-> IF b \in WinBets(bets)
                       THEN Capped(b, Split(WinBets(bets), Distributable)[b]) ELSE 0]
  ELSE [b \in bets \ WinBets(bets) |-> 0]
Carried == IF Pays THEN Clawback(Split(WinBets(bets), Distributable)) ELSE Distributable

\* A capped share is a natural number no larger than the share, which is less only if
\* it is the cap.
LEMMA CapBounds ==
  ASSUME NEW b \in Bets, NEW share \in Nat, config \in Configs
  PROVE  /\ Capped(b, share) \in Nat /\ Capped(b, share) <= share
         /\ \/ Capped(b, share) = share
            \/ config.max_win_cap > 0 /\ Capped(b, share) = config.max_win_cap * b.amount
<1>1. config.max_win_cap \in Nat
  BY MoneyAssumption
<1>2. b.amount \in Nat
  BY AmountType
<1>3. config.max_win_cap * b.amount \in Nat
  BY <1>1, <1>2
<1> DEFINE limit == config.max_win_cap * b.amount
<1> HIDE DEF limit
<1>4. Capped(b, share) = IF config.max_win_cap > 0 /\ share > limit THEN limit ELSE share
  BY DEF Capped, limit
<1>5. limit \in Nat
  BY <1>3 DEF limit
<1> QED
  BY SMTT(60), <1>1, <1>4, <1>5 DEF limit

\* Nothing is lost or made in the division of a pot: what the winning bets are paid,
\* what the cap claws back or a pot without winners carries, and the rake are the pot.
LEMMA SettleDivides ==
  ASSUME TypeOK, IsFiniteSet(bets)
  PROVE  /\ Distributable \in Nat /\ Rake(Stakes(bets) + carryIn) \in Nat
         /\ Distributable + Rake(Stakes(bets) + carryIn) = Stakes(bets) + carryIn
         /\ DOMAIN Payouts \subseteq bets /\ \A b \in DOMAIN Payouts : Payouts[b] \in Nat
         /\ Carried \in Nat /\ SumFunction(Payouts) \in Nat
         /\ SumFunction(Payouts) + Carried = Distributable
<1>1. /\ bets \subseteq Bets /\ carryIn \in Nat /\ config \in Configs
      /\ Stakes(bets) \in Nat /\ Stakes(bets) + carryIn \in Nat
  BY StakesType DEF TypeOK
<1>2. /\ Distributable \in Nat /\ Rake(Stakes(bets) + carryIn) \in Nat
      /\ Distributable + Rake(Stakes(bets) + carryIn) = Stakes(bets) + carryIn
  BY <1>1, RakeBounds DEF Distributable
<1> DEFINE W == WinBets(bets)
           D == Distributable
<1>3. W \subseteq bets /\ IsFiniteSet(W) /\ W \subseteq Bets
  BY <1>1, FS_Subset DEF WinBets
<1> HIDE DEF W, D
<1>4. CASE Pays
  <2> DEFINE split == Split(W, D)
             capped == [b \in W |-> Capped(b, split[b])]
             p == [b \in bets |-> IF b \in W THEN Capped(b, split[b]) ELSE 0]
             one == 1
             minus == -1
             back == [b \in W |-> one * split[b] + minus * capped[b]]
  <2>1. W # {} /\ D \in Nat
    BY <1>2, <1>4 DEF Pays, W, D
  <2>2. split \in [W -> Nat] /\ SumFunction(split) = D
    BY <1>3, <2>1, SplitSound
  <2>3. Payouts = p /\ Carried = Clawback(split)
    BY <1>4 DEF Payouts, Carried, W, D
  <2> HIDE DEF split
  <2>4. \A b \in W : /\ Capped(b, split[b]) \in Nat /\ Capped(b, split[b]) <= split[b]
                     /\ split[b] \in Nat
    BY <1>1, <1>3, <2>2, CapBounds
  <2>5. /\ capped \in [W -> Nat] /\ p \in [bets -> Nat] /\ p \in [bets -> Int]
        /\ capped \in [W -> Int] /\ split \in [W -> Int]
    BY <2>2, <2>4
  <2>6. Part(p, W) = capped /\ \A b \in bets \ W : p[b] = 0
    BY <1>3 DEF Part
  <2>7. Clawback(split) = SumFunction(back)
    <3>1. DOMAIN split = W
      BY <2>2
    <3>2. [b \in W |-> split[b] - Capped(b, split[b])] = back
      BY <2>4 DEF one, minus
    <3> QED
      BY <3>1, <3>2 DEF Clawback
  <2>8. back \in [W -> Nat]
    BY <2>4 DEF one, minus
  <2>9. one \in Int /\ minus \in Int
    BY DEF one, minus
  <2>10. DOMAIN p = bets /\ \A b \in bets : p[b] \in Nat
    BY <2>5
  <2> HIDE DEF capped, p, one, minus
  <2>11. SumFunction(back) = one * SumFunction(split) + minus * SumFunction(capped)
    BY <1>3, <2>5, <2>9, SumLinear
  <2> HIDE DEF back
  <2>12. SumFunction(back) \in Nat /\ SumFunction(capped) \in Nat /\ SumFunction(p) \in Nat
    BY <1>3, <2>5, <2>8, SumIsNat
  <2>13. SumFunction(p) = SumFunction(capped)
    BY <1>3, <2>5, <2>6, SumSupport
  <2>14. SumFunction(p) + SumFunction(back) = D
    BY <2>1, <2>2, <2>11, <2>12, <2>13 DEF one, minus
  <2> QED
    BY <1>2, <2>3, <2>7, <2>10, <2>12, <2>14 DEF D
<1>5. CASE ~Pays
  <2> DEFINE p == [b \in bets \ W |-> 0]
  <2>1. Payouts = p /\ Carried = D
    BY <1>5 DEF Payouts, Carried, W, D
  <2>2. p \in [bets \ W -> Int] /\ (\A b \in bets \ W : p[b] = 0) /\ DOMAIN p = bets \ W
    OBVIOUS
  <2>3. IsFiniteSet(bets \ W)
    BY FS_Subset
  <2> HIDE DEF p
  <2>4. SumFunction(p) = 0 * Cardinality(bets \ W)
    BY <2>2, <2>3, SumConstant
  <2>5. SumFunction(p) = 0
    BY <2>3, <2>4, FS_CardinalityType
  <2> QED
    BY <1>2, <2>1, <2>2, <2>5 DEF D
<1> QED
  BY <1>4, <1>5

\* What the formula promises the winning bets of each other.
LEMMA PayoutsFair ==
  ASSUME TypeOK, IsFiniteSet(bets), Distributable > 0, NEW b \in WinBets(bets)
  PROVE  /\ b \in bets /\ Pays
         /\ Stakes(WinBets(bets)) \in Nat
         /\ Payouts[b] \in Nat
         /\ Payouts[b] * Stakes(WinBets(bets))
              < Distributable * b.amount + Stakes(WinBets(bets)) * Cardinality(WinBets(bets))
         /\ \/ Payouts[b] * Stakes(WinBets(bets)) > Distributable * b.amount - Stakes(WinBets(bets))
            \/ Payouts[b] = config.max_win_cap * b.amount
         /\ config.rake_bps = 0 => Payouts[b] >= b.amount
<1> DEFINE W == WinBets(bets)
           S == Stakes(W)
           D == Distributable
           s == Split(W, D)[b]
           p == Payouts[b]
           n == Cardinality(W)
           m == b.amount
           cap == config.max_win_cap
<1>1. /\ bets \subseteq Bets /\ carryIn \in Nat /\ config \in Configs
      /\ D \in Nat
  BY SettleDivides DEF TypeOK
<1>2. /\ W \subseteq bets /\ W \subseteq Bets /\ IsFiniteSet(W) /\ b \in W /\ b \in Bets
      /\ W # {} /\ Pays /\ m \in Nat \ {0}
  <2>1. W \subseteq bets /\ W \subseteq Bets
    BY <1>1 DEF WinBets
  <2>2. IsFiniteSet(W)
    BY <2>1, FS_Subset
  <2> QED
    BY <2>1, <2>2, AmountType DEF Pays
<1>3. /\ s \in Nat /\ S \in Nat \ {0} /\ S * s + S > D * m /\ S * s < D * m + S * n
      /\ D >= S => s >= m
  BY SMTT(60), <1>1, <1>2, SplitSound
<1>4. p = Capped(b, s)
  BY <1>2 DEF Payouts
<1>5. p \in Nat /\ p <= s /\ (p = s \/ (cap > 0 /\ p = cap * m)) /\ cap \in Nat
  <2>1. cap \in Nat
    BY <1>1, MoneyAssumption
  <2> HIDE DEF s, p
  <2> QED
    BY <1>1, <1>2, <1>3, <1>4, <2>1, CapBounds
<1>6. n \in Nat
  BY <1>2, FS_CardinalityType
<1>7. config.rake_bps = 0 => D >= S
  <2>1. S <= Stakes(bets)
    <3>1. Amounts(bets) \in [bets -> Nat]
      BY <1>1, AmountType DEF Amounts
    <3> DEFINE g == [c \in bets |-> IF c \in W THEN c.amount ELSE 0]
    <3>2. g \in [bets -> Nat]
      BY <1>1, AmountType
    <3>3. Part(g, W) = [c \in W |-> c.amount] /\ (\A c \in bets \ W : g[c] = 0)
      BY <1>2 DEF Part
    <3>4. \A c \in bets : g[c] <= Amounts(bets)[c]
      BY <1>1, AmountType DEF Amounts
    <3>5. Amounts(bets) \in [bets -> Int] /\ g \in [bets -> Int]
      BY <3>1, <3>2
    <3> HIDE DEF g
    <3>6. SumFunction(g) = SumFunction([c \in W |-> c.amount])
      BY <1>2, <3>3, <3>5, SumSupport
    <3>7. SumFunction(g) <= SumFunction(Amounts(bets))
      BY <3>4, <3>5, SumMonotone
    <3> QED
      BY <3>6, <3>7 DEF Stakes, Amounts
  <2>2. Stakes(bets) \in Nat /\ Stakes(bets) + carryIn \in Nat
    BY <1>1, StakesType
  <2>3. config.rake_bps = 0 => Rake(Stakes(bets) + carryIn) = 0
    BY <1>1, <2>2, RakeBounds
  <2>4. ASSUME config.rake_bps = 0 PROVE D = Stakes(bets) + carryIn
    <3> DEFINE pot == Stakes(bets) + carryIn
    <3>1. Rake(pot) = 0 /\ pot \in Nat /\ D = pot - Rake(pot)
      BY <2>2, <2>3, <2>4 DEF Distributable
    <3> HIDE DEF D, pot
    <3>2. D = pot
      BY <3>1
    <3> QED
      BY <3>2 DEF pot
  <2> QED
    BY <1>1, <1>3, <2>1, <2>2, <2>4
<1> HIDE DEF S, D, s, p, n, m, cap
<1>8. /\ D * m \in Nat /\ S * s \in Nat /\ S * p \in Nat /\ p * S = S * p /\ S * n \in Nat
  BY <1>1, <1>2, <1>3, <1>5, <1>6
<1>9. S * p <= S * s
  <2>1. PICK d \in Nat : s = p + d
    BY <1>3, <1>5
  <2>2. S * s = S * p + S * d /\ S * d \in Nat
    BY <1>3, <1>5, <2>1
  <2> QED
    BY <1>8, <2>2
<1>10. p * S < D * m + S * n
  BY <1>3, <1>8, <1>9
<1>11. p * S > D * m - S \/ p = cap * m
  BY <1>3, <1>5, <1>8
<1>12. config.rake_bps = 0 => p >= m
  <2>1. CASE p = s
    BY <1>3, <1>7, <2>1
  <2>2. CASE cap > 0 /\ p = cap * m
    <3>1. PICK d \in Nat : cap = 1 + d
      BY <1>5, <2>2
    <3>2. p = m + d * m /\ d * m \in Nat
      BY <1>2, <2>2, <3>1
    <3> QED
      BY <1>2, <3>2
  <2> QED
    BY <1>5, <2>1, <2>2
<1>13. b \in bets
  BY <1>2
<1> QED
  BY <1>2, <1>3, <1>5, <1>10, <1>11, <1>12, <1>13 DEF S, D, p, n, m, cap

-----------------------------------------------------------------------------
(* The invariant.                                                          *)

\* Bets are finitely many and numbered up to _bet_seq, the coins add up, what is paid
\* is the formula's value on the round as it was settled, and a round in play has taken
\* over the whole carry-over (settle overwrites it).
MoneyInv ==
  /\ TypeOK /\ IsFiniteSet(bets)
  /\ \A b \in bets : b.id <= betSeq
  /\ taken = paid + house + OnTable + forfeited
  /\ payout # <<>> => status = CLOSED /\ payout = Payouts
  /\ status \in {BETTING_OPEN, BETTING_CLOSED, RESULT} => carryOver = 0

LEMMA MoneyInit == Init => MoneyInv
<1>1. SUFFICES ASSUME Init PROVE MoneyInv
  OBVIOUS
<1>2. bets = {} /\ payout = <<>> /\ DOMAIN payout = {}
  BY SMTT(60), <1>1 DEF Init
<1>3. TypeOK
  BY <1>1, <1>2, MoneyAssumption DEF Init, TypeOK, RoundStatus
<1>4. IsFiniteSet(bets)
  BY <1>2, FS_EmptySet
<1>5. OnTable = 0
  BY <1>1 DEF Init, OnTable
<1>6. taken = paid + house + OnTable + forfeited
  BY <1>1, <1>5 DEF Init
<1> QED
  BY <1>1, <1>2, <1>3, <1>4, <1>6 DEF Init, MoneyInv

LEMMA MoneyStep == MoneyInv /\ [Next]_vars => MoneyInv'
<1> USE DEF UPCOMING, BETTING_OPEN, BETTING_CLOSED, RESULT, CLOSED
<1>1. SUFFICES ASSUME MoneyInv, [Next]_vars PROVE MoneyInv'
  OBVIOUS
<1>t. /\ TypeOK /\ IsFiniteSet(bets) /\ bets \subseteq Bets /\ Stakes(bets) \in Nat
      /\ config \in Configs /\ status \in RoundStatus
      /\ roundNo \in 0..MaxRounds /\ betSeq \in Nat /\ winners \subseteq Seats
      /\ carryIn \in Nat /\ carryOut \in Nat /\ carryOver \in Nat /\ taken \in Nat
      /\ paid \in Nat /\ house \in Nat /\ forfeited \in Nat
      /\ DOMAIN payout \subseteq bets /\ (\A b \in DOMAIN payout : payout[b] \in Nat)
      /\ \A b \in bets : b.id <= betSeq
  BY SMTT(60), <1>1, StakesType DEF MoneyInv, TypeOK
<1>a. /\ taken = paid + house + OnTable + forfeited
      /\ (payout # <<>> => status = CLOSED /\ payout = Payouts)
      /\ (status \in {BETTING_OPEN, BETTING_CLOSED, RESULT} => carryOver = 0)
  BY <1>1 DEF MoneyInv
<1>e. taken = paid + house + OnTable + forfeited
  BY <1>a
<1>n. /\ carryIn \in Nat /\ carryOver \in Nat /\ taken \in Nat /\ paid \in Nat
      /\ house \in Nat /\ forfeited \in Nat /\ Stakes(bets) \in Nat
  BY <1>t
<1>r. {UPCOMING, BETTING_OPEN, BETTING_CLOSED, RESULT, CLOSED} \subseteq RoundStatus
  BY DEF RoundStatus
<1>2. CASE StartRound
  <2>1. bets' = {} /\ payout' = <<>> /\ DOMAIN payout' = {} /\ winners' = {}
    BY <1>2 DEF StartRound
  <2>2. roundNo' \in 0..MaxRounds
    BY <1>2, <1>t, MoneyAssumption DEF StartRound
  <2>3. TypeOK'
    BY <1>2, <1>t, <1>r, <2>1, <2>2 DEF StartRound, till, TypeOK
  <2>4. IsFiniteSet(bets')
    BY <2>1, FS_EmptySet
  <2>5. Stakes({}) = 0 /\ Stakes(bets)' = Stakes({})
    <3>1. [b \in {} |-> b.amount] = Part([b \in {} |-> b.amount], {})
      BY DEF Part
    <3> QED
      BY <2>1, <3>1, SumEmpty DEF Stakes
  <2>6. OnTable = carryOver /\ OnTable' = carryOver
    BY <1>2, <1>t, <2>5 DEF StartRound, OnTable
  <2> QED
    BY <1>2, <1>a, <2>1, <2>3, <2>4, <2>6 DEF StartRound, till, MoneyInv
<1>3. CASE \E position \in Seats, amount \in Denoms : PlaceBet(position, amount)
  <2>1. PICK position \in Seats, amount \in Denoms : PlaceBet(position, amount)
    BY <1>3
  <2> DEFINE b == [id |-> betSeq + 1, position |-> position, amount |-> amount]
  <2>2. b \in Bets /\ b.id = betSeq + 1 /\ b.amount = amount
    BY <1>t DEF Bets
  <2>3. b \notin bets
    BY <1>t, <2>2
  <2>4. amount \in Nat
    <3>1. Denoms \subseteq Nat \ {0}
      BY MoneyAssumption
    <3> QED
      BY <3>1
  <2>5. bets' = bets \cup {b} /\ UNCHANGED <<config, status, roundNo, winners, carryIn, carryOut, payout, carryOver, paid, house, forfeited>> /\ status = BETTING_OPEN
        /\ betSeq' = betSeq + 1 /\ taken' = taken + amount
    BY <2>1 DEF PlaceBet
  <2> HIDE DEF b
  <2>6. bets' \subseteq Bets /\ IsFiniteSet(bets') /\ bets' \ {b} = bets /\ b \in bets'
    BY <1>t, <2>2, <2>3, <2>5, FS_AddElement
  <2>7. Stakes(bets') = Stakes(bets) + amount /\ Stakes(bets)' = Stakes(bets')
    <3>1. b.amount + Stakes(bets' \ {b}) = Stakes(bets')
      BY <2>6, StakesType
    <3>2. Stakes(bets)' = Stakes(bets')
      BY DEF Stakes
    <3>3. amount + Stakes(bets) = Stakes(bets')
      BY <2>2, <2>6, <3>1
    <3> QED
      BY <1>n, <2>4, <3>2, <3>3
  <2>8. TypeOK'
    BY <1>t, <2>4, <2>5, <2>6 DEF TypeOK
  <2>9. \A c \in bets' : c.id <= betSeq'
    <3>1. SUFFICES ASSUME NEW c \in bets' PROVE c.id <= betSeq'
      OBVIOUS
    <3>2. c.id \in Nat
      BY <2>6 DEF Bets
    <3> QED
      BY <1>t, <2>2, <2>5, <3>2
  <2>10. taken' = paid' + house' + OnTable' + forfeited'
    <3>1. OnTable = carryOver + (Stakes(bets) + carryIn) /\ OnTable' = carryOver + (Stakes(bets)' + carryIn)
      BY <2>5 DEF OnTable
    <3> QED
      BY <1>e, <1>n, <2>4, <2>5, <2>7, <3>1
  <2>11. payout' = <<>>
    BY <1>a, <2>5
  <2> QED
    BY <1>a, <2>5, <2>6, <2>8, <2>9, <2>10, <2>11 DEF MoneyInv
<1>4. CASE CloseBetting
  <2>1. TypeOK'
    BY <1>4, <1>t, <1>r DEF CloseBetting, till, TypeOK
  <2>2. payout' = <<>>
    BY <1>4, <1>a DEF CloseBetting
  <2>3. OnTable' = OnTable
    BY <1>4 DEF CloseBetting, OnTable, Stakes
  <2> QED
    BY <1>4, <1>a, <1>t, <2>1, <2>2, <2>3 DEF CloseBetting, till, MoneyInv
<1>5. CASE CalculateResult
  <2>1. winners' \subseteq Seats
    <3>1. winners' \subseteq {b.position : b \in bets}
      BY <1>5 DEF CalculateResult
    <3>2. \A b \in bets : b.position \in Seats
      BY <1>t DEF Bets
    <3> QED
      BY <3>1, <3>2
  <2>2. TypeOK'
    BY <1>5, <1>t, <1>r, <2>1 DEF CalculateResult, till, TypeOK
  <2>3. payout' = <<>>
    BY <1>5, <1>a DEF CalculateResult
  <2>4. OnTable' = OnTable
    BY <1>5 DEF CalculateResult, OnTable, Stakes
  <2> QED
    BY <1>5, <1>a, <1>t, <2>2, <2>3, <2>4 DEF CalculateResult, till, MoneyInv
<1>6. CASE Settle
  <2>1. /\ payout' = Payouts /\ carryOut' = Carried
        /\ house' = house + Rake(Stakes(bets) + carryIn)
    BY <1>6 DEF Settle, Payouts, Carried, Pays, Distributable
  <2>2. /\ carryOver' = Carried /\ paid' = paid + SumFunction(Payouts)
        /\ status = RESULT /\ status' = CLOSED
        /\ UNCHANGED <<config, roundNo, betSeq, bets, winners, carryIn, taken, forfeited>>
    BY <1>6, <2>1 DEF Settle
  <2>3. /\ Rake(Stakes(bets) + carryIn) \in Nat /\ Distributable \in Nat
        /\ Distributable + Rake(Stakes(bets) + carryIn) = Stakes(bets) + carryIn
        /\ DOMAIN Payouts \subseteq bets /\ (\A b \in DOMAIN Payouts : Payouts[b] \in Nat)
        /\ Carried \in Nat /\ SumFunction(Payouts) \in Nat
        /\ SumFunction(Payouts) + Carried = Distributable
    BY <1>t, SettleDivides
  <2>4. TypeOK'
    BY SMTT(60), <1>t, <1>r, <2>1, <2>2, <2>3 DEF TypeOK
  <2>5. Payouts' = Payouts
    BY <2>2 DEF Payouts, Pays, Distributable, WinBets, Stakes, Rake, Capped, Split, Share
  <2>6. OnTable = carryOver + (Stakes(bets) + carryIn) /\ OnTable' = carryOver' /\ carryOver = 0
    BY <1>a, <2>2, <2>3 DEF OnTable
  <2>7. taken' = paid' + house' + OnTable' + forfeited'
    BY <1>e, <1>n, <2>1, <2>2, <2>3, <2>6
  <2> QED
    BY <1>t, <2>1, <2>2, <2>4, <2>5, <2>7 DEF MoneyInv
<1>7. CASE Cancel
  <2>1. /\ bets' = {} /\ status' = CLOSED /\ paid' = paid + Stakes(bets) /\ payout = <<>>
        /\ forfeited' = forfeited + carryIn /\ status \in {BETTING_OPEN, BETTING_CLOSED}
        /\ UNCHANGED <<config, roundNo, betSeq, winners, carryIn, carryOut, payout, carryOver,
                       taken, house>>
    BY <1>7, <1>a DEF Cancel
  <2>2. payout' = <<>> /\ DOMAIN payout' = {}
    BY <2>1
  <2>3. TypeOK'
    BY <1>t, <1>r, <2>1, <2>2 DEF TypeOK
  <2>4. OnTable = carryOver + (Stakes(bets) + carryIn) /\ OnTable' = carryOver
    BY <1>n, <2>1 DEF OnTable
  <2>5. IsFiniteSet(bets')
    BY <2>1, FS_EmptySet
  <2>6. taken' = paid' + house' + OnTable' + forfeited'
    <3>1. paid' = paid + Stakes(bets) /\ forfeited' = forfeited + carryIn /\ taken' = taken /\ house' = house
      BY <2>1
    <3> QED
      BY <1>e, <1>n, <2>4, <3>1
  <2> QED
    BY <2>1, <2>2, <2>3, <2>5, <2>6 DEF MoneyInv
<1>8. CASE UNCHANGED vars
  <2>1. /\ UNCHANGED <<config, status, roundNo, betSeq, bets, winners, carryIn, carryOut>>
        /\ UNCHANGED <<payout, carryOver, taken, paid, house, forfeited>>
    BY <1>8 DEF vars
  <2>2. TypeOK'
    BY <1>t, <2>1 DEF TypeOK
  <2>3. OnTable' = OnTable
    BY <2>1 DEF OnTable, Stakes
  <2>4. Payouts' = Payouts
    BY <2>1 DEF Payouts, Pays, Distributable, WinBets, Stakes, Rake, Capped, Split, Share
  <2> QED
    BY <1>a, <1>t, <2>1, <2>2, <2>3, <2>4 DEF MoneyInv
<1> QED
  BY <1>1, <1>2, <1>3, <1>4, <1>5, <1>6, <1>7, <1>8 DEF Next

LEMMA MoneyAlways == Spec => []MoneyInv
  BY MoneyInit, MoneyStep, PTL DEF Spec

\* Every coin staked is paid out or back, kept as rake, carried, in the pot or
\* forfeited by a cancelled round, and no such sum is ever negative: over any number of
\* rounds, bets, winners, caps and rakes.
THEOREM MoneyKept == Spec => []MoneyConserved
<1>1. MoneyInv => MoneyConserved
  BY DEF MoneyInv, MoneyConserved
<1> QED
  BY <1>1, MoneyAlways, PTL

\* Room.settle is fair to the winning bets whatever the number of them: without rake
\* none is paid less than its stake, and none is a coin below its exact share (save
\* for the cap) or as many coins above it as there are winning bets.
THEOREM WinnersShare == Spec => []SharesFair
<1>1. MoneyInv => SharesFair
  <2>1. SUFFICES ASSUME MoneyInv PROVE SharesFair
    OBVIOUS
  <2>2. TypeOK /\ IsFiniteSet(bets) /\ bets \subseteq Bets /\ carryIn \in Nat /\ Stakes(bets) \in Nat
    BY <2>1, StakesType DEF MoneyInv, TypeOK
  <2>3. Decided => payout = Payouts
    BY <2>1 DEF MoneyInv, Decided
  <2>4. /\ Distributable \in Nat
        /\ Stakes(bets) + carryIn - Rake(Stakes(bets) + carryIn) = Distributable
    BY <2>2, SettleDivides DEF Distributable
  <2>5. DustBounded
    <3>1. SUFFICES ASSUME Decided, Distributable > 0, NEW b \in WinBets(bets)
          PROVE  /\ payout[b] * Stakes(WinBets(bets))
                      < Distributable * b.amount + Stakes(WinBets(bets)) * Cardinality(WinBets(bets))
                 /\ \/ payout[b] * Stakes(WinBets(bets)) > Distributable * b.amount - Stakes(WinBets(bets))
                    \/ payout[b] = config.max_win_cap * b.amount
      BY <2>4 DEF DustBounded
    <3> QED
      BY <2>2, <2>3, <3>1, PayoutsFair
  <2>6. NoWinnerLoses
    <3>1. SUFFICES ASSUME Decided, config.rake_bps = 0, NEW b \in WinBets(bets)
          PROVE  payout[b] >= b.amount
      BY DEF NoWinnerLoses
    <3>2. Distributable > 0
      <4>1. b \in bets /\ b \in Bets
        BY <2>2 DEF WinBets
      <4>2. b.amount + Stakes(bets \ {b}) = Stakes(bets) /\ Stakes(bets \ {b}) \in Nat
        BY <2>2, <4>1, StakesType
      <4>3. b.amount \in Nat \ {0}
        BY <4>1, AmountType
      <4>4. Rake(Stakes(bets) + carryIn) = 0
        <5>1. config \in Configs /\ Stakes(bets) + carryIn \in Nat
          BY <2>2 DEF TypeOK
        <5> QED
          BY <3>1, <5>1, RakeBounds
      <4>5. Distributable = Stakes(bets) + carryIn
        BY <2>2, <4>4 DEF Distributable
      <4> QED
        BY <2>2, <4>2, <4>3, <4>5
    <3> QED
      BY <2>2, <2>3, <3>1, <3>2, PayoutsFair
  <2> QED
    BY <2>5, <2>6 DEF SharesFair
<1> QED
  BY <1>1, MoneyAlways, PTL
=============================================================================
