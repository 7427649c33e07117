----------------------------- MODULE Conversions -----------------------------
(***************************************************************************)
(* What a command or a state goes through between Home Assistant and the   *)
(* CU: the brightness of light.py (0..255 against percent) and the clamps  *)
(* of models.py.  Python's round() rounds a half to the even neighbour; the*)
(* quotients are exact enough as floats for it to see each half.           *)
(***************************************************************************)
EXTENDS Integers

\* round(a / b)
RoundedQuotient(a, b) ==
  LET q == a \div b
      r == a % b
  IN  IF 2 * r < b \/ (2 * r = b /\ q % 2 = 0) THEN q ELSE q + 1

Clamp(value, high) == IF value < 0 THEN 0 ELSE IF value > high THEN high ELSE value

\* encode_dimmer, encode_shutter
encode_percent(value) == Clamp(value, 100)

\* _ha_byte_to_cu_percent
ByteToPercent(b) ==
  IF b <= 0 THEN 0 ELSE IF b >= 255 THEN 100 ELSE RoundedQuotient(b * 100, 255)

\* _cu_percent_to_ha_byte
PercentToByte(p) ==
  IF p <= 0 THEN 0 ELSE IF p >= 100 THEN 255 ELSE RoundedQuotient(p * 255, 100)

\* The value SwitchBeeLight.async_turn_on sends for a brightness.
TurnOnValue(b) == encode_percent(ByteToPercent(b))

=============================================================================
