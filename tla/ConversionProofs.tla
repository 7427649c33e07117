-------------------------- MODULE ConversionProofs --------------------------
(***************************************************************************)
(* What the conversions do to every value: they stay in range, are undone  *)
(* by each other as far as the scales allow, and keep the order.           *)
(***************************************************************************)
EXTENDS Conversions, TLAPS

\* round() is off by a half at most, and the half goes to an even number.
LEMMA RoundedBounds ==
  ASSUME NEW a \in Nat, NEW b \in {100, 255}
  PROVE  /\ RoundedQuotient(a, b) \in Nat
         /\ 2 * a - b <= 2 * b * RoundedQuotient(a, b)
         /\ 2 * b * RoundedQuotient(a, b) <= 2 * a + b
<1>1. CASE b = 100
  <2> DEFINE q == a \div 100
             r == a % 100
  <2>1. q \in Nat /\ r \in 0 .. 99 /\ a = 100 * q + r  OBVIOUS
  <2> HIDE DEF q, r
  <2>2. RoundedQuotient(a, b) = IF 2 * r < 100 \/ (2 * r = 100 /\ q % 2 = 0) THEN q ELSE q + 1
    BY <1>1 DEF RoundedQuotient, q, r
  <2> QED  BY <1>1, <2>1, <2>2
<1>2. CASE b = 255
  <2> DEFINE q == a \div 255
             r == a % 255
  <2>1. q \in Nat /\ r \in 0 .. 254 /\ a = 255 * q + r  OBVIOUS
  <2> HIDE DEF q, r
  <2>2. RoundedQuotient(a, b) = IF 2 * r < 255 \/ (2 * r = 255 /\ q % 2 = 0) THEN q ELSE q + 1
    BY <1>2 DEF RoundedQuotient, q, r
  <2> QED  BY <1>2, <2>1, <2>2
<1> QED  BY <1>1, <1>2

\* What goes on the wire is a percentage, whatever a service call brings.
THEOREM WireInRange ==
  ASSUME NEW value \in Int
  PROVE  encode_percent(value) \in 0 .. 100 /\ TurnOnValue(value) \in 0 .. 100
<1>1. encode_percent(value) \in 0 .. 100  BY DEF encode_percent, Clamp
<1>2. ByteToPercent(value) \in Int
  <2>1. CASE value \in 1 .. 254
    BY <2>1, RoundedBounds, value * 100 \in Nat DEF ByteToPercent
  <2>2. CASE value \notin 1 .. 254  BY <2>2 DEF ByteToPercent
  <2> QED  BY <2>1, <2>2
<1> QED  BY <1>1, <1>2 DEF TurnOnValue, encode_percent, Clamp

\* A percentage the CU reports, shown by Home Assistant and sent back unchanged
\* by a scene or a group, is the same percentage: brightness does not creep.
THEOREM BrightnessRoundTrip ==
  ASSUME NEW p \in 0 .. 100
  PROVE  TurnOnValue(PercentToByte(p)) = p
<1>1. CASE p = 0  BY <1>1 DEF TurnOnValue, PercentToByte, ByteToPercent, encode_percent, Clamp
<1>2. CASE p = 100  BY <1>2 DEF TurnOnValue, PercentToByte, ByteToPercent, encode_percent, Clamp
<1>3. CASE p \in 1 .. 99
  <2> DEFINE b == RoundedQuotient(p * 255, 100)
             s == RoundedQuotient(b * 100, 255)
  <2>1. p * 255 \in Nat  BY <1>3
  <2>2. b \in Nat /\ 510 * p - 100 <= 200 * b /\ 200 * b <= 510 * p + 100
    BY <2>1, RoundedBounds
  <2> HIDE DEF b
  <2>3. s \in Nat /\ 200 * b - 255 <= 510 * s /\ 510 * s <= 200 * b + 255
    <3>1. b * 100 \in Nat  BY <2>2
    <3> QED  BY <2>2, <3>1, RoundedBounds
  <2> HIDE DEF s
  <2>4. b \in 1 .. 254  BY <1>3, <2>2
  <2>5. s = p  BY <1>3, <2>2, <2>3
  <2>6. PercentToByte(p) = b  BY <1>3 DEF PercentToByte, b
  <2>7. ByteToPercent(b) = s  BY <2>4 DEF ByteToPercent, s
  <2> QED  BY <1>3, <2>5, <2>6, <2>7 DEF TurnOnValue, encode_percent, Clamp
<1> QED  BY <1>1, <1>2, <1>3

\* A brighter slider never dims the lamp.
THEOREM BrightnessMonotone ==
  ASSUME NEW a \in 0 .. 255, NEW b \in 0 .. 255, a <= b
  PROVE  TurnOnValue(a) <= TurnOnValue(b)
<1> DEFINE R(n) == RoundedQuotient(n * 100, 255)
<1>1. \A n \in 1 .. 254 : R(n) \in Nat /\ 200 * n - 255 <= 510 * R(n)
                                       /\ 510 * R(n) <= 200 * n + 255
  <2> SUFFICES ASSUME NEW n \in 1 .. 254
               PROVE  R(n) \in Nat /\ 200 * n - 255 <= 510 * R(n)
                                   /\ 510 * R(n) <= 200 * n + 255
    OBVIOUS
  <2> QED  BY RoundedBounds, n * 100 \in Nat
<1>2. \A n \in 1 .. 254 : TurnOnValue(n) = R(n) /\ R(n) \in 0 .. 100
  <2> SUFFICES ASSUME NEW n \in 1 .. 254
               PROVE  TurnOnValue(n) = R(n) /\ R(n) \in 0 .. 100
    OBVIOUS
  <2>1. ByteToPercent(n) = R(n)  BY DEF ByteToPercent
  <2> HIDE DEF R
  <2>2. R(n) \in 0 .. 100  BY <1>1
  <2> QED  BY <2>1, <2>2 DEF TurnOnValue, encode_percent, Clamp
<1> HIDE DEF R
<1>3. TurnOnValue(0) = 0 /\ TurnOnValue(255) = 100
  BY DEF TurnOnValue, ByteToPercent, encode_percent, Clamp
<1>4. CASE a \in 1 .. 254 /\ b \in 1 .. 254 /\ a < b
  \* Two steps of the slider are less than one percent: the rounding bounds alone
  \* do not order neighbours.
  <2>1. R(a) <= R(b)
    <3> DEFINE qa == (a * 100) \div 255
               ra == (a * 100) % 255
               qb == (b * 100) \div 255
               rb == (b * 100) % 255
    <3>1. /\ qa \in Nat /\ ra \in 0 .. 254 /\ a * 100 = 255 * qa + ra
          /\ qb \in Nat /\ rb \in 0 .. 254 /\ b * 100 = 255 * qb + rb
      BY <1>4
    <3>2. R(a) = IF 2 * ra < 255 \/ (2 * ra = 255 /\ qa % 2 = 0) THEN qa ELSE qa + 1
      BY DEF R, RoundedQuotient
    <3>3. R(b) = IF 2 * rb < 255 \/ (2 * rb = 255 /\ qb % 2 = 0) THEN qb ELSE qb + 1
      BY DEF R, RoundedQuotient
    <3> HIDE DEF qa, ra, qb, rb
    <3> QED  BY <1>4, <3>1, <3>2, <3>3
  <2> QED  BY <1>2, <1>4, <2>1
<1>5. TurnOnValue(a) \in 0 .. 100 /\ TurnOnValue(b) \in 0 .. 100  BY WireInRange
<1> QED  BY <1>3, <1>4, <1>5

\* Of the brightnesses turn_on may ask for, exactly the lowest turns the lamp off
\* (0.39 percent is sent as 0); every other one leaves it on.
THEOREM OnlyLowestBrightnessTurnsOff ==
  ASSUME NEW b \in 1 .. 255
  PROVE  TurnOnValue(b) = 0 <=> b = 1
<1>1. TurnOnValue(1) = 0
  BY DEF TurnOnValue, ByteToPercent, RoundedQuotient, encode_percent, Clamp
<1>2. CASE b \in 2 .. 254
  <2> DEFINE s == RoundedQuotient(b * 100, 255)
  <2>1. s \in Nat /\ 200 * b - 255 <= 510 * s  BY <1>2, RoundedBounds, b * 100 \in Nat
  <2>2. ByteToPercent(b) = s  BY <1>2 DEF ByteToPercent
  <2> HIDE DEF s
  <2> QED  BY <1>2, <2>1, <2>2 DEF TurnOnValue, encode_percent, Clamp
<1>3. CASE b = 255  BY <1>3 DEF TurnOnValue, ByteToPercent, encode_percent, Clamp
<1> QED  BY <1>1, <1>2, <1>3

\* A brightness that Home Assistant sends comes back as itself, or as one of its
\* two neighbours: the slider does not jump when the report arrives.
THEOREM BrightnessComesBack ==
  ASSUME NEW b \in 0 .. 255
  PROVE  PercentToByte(TurnOnValue(b)) - b \in -1 .. 1
<1>1. CASE b \in {0, 255}
  BY <1>1 DEF TurnOnValue, PercentToByte, ByteToPercent, encode_percent, Clamp
<1>2. CASE b \in 1 .. 254
  <2> DEFINE s == RoundedQuotient(b * 100, 255)
             t == RoundedQuotient(s * 255, 100)
  <2>1. s \in Nat /\ 200 * b - 255 <= 510 * s /\ 510 * s <= 200 * b + 255
    BY <1>2, RoundedBounds, b * 100 \in Nat
  <2>2. TurnOnValue(b) = s
    <3>1. ByteToPercent(b) = s  BY <1>2 DEF ByteToPercent
    <3> HIDE DEF s
    <3> QED  BY <1>2, <2>1, <3>1 DEF TurnOnValue, encode_percent, Clamp
  <2> HIDE DEF s
  <2>3. CASE s \in 1 .. 99
    <3>1. t \in Nat /\ 510 * s - 100 <= 200 * t /\ 200 * t <= 510 * s + 100
      <4>1. s * 255 \in Nat  BY <2>1
      <4> QED  BY <2>1, <4>1, RoundedBounds
    <3>2. PercentToByte(s) = t  BY <2>3 DEF PercentToByte
    <3> HIDE DEF t
    <3> QED  BY <1>2, <2>1, <2>2, <3>1, <3>2
  <2>4. CASE s \notin 1 .. 99
    BY <1>2, <2>1, <2>2, <2>4 DEF PercentToByte
  <2> QED  BY <2>3, <2>4
<1> QED  BY <1>1, <1>2

=============================================================================
