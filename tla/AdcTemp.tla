--------------------------------- MODULE AdcTemp ---------------------------------
(***************************************************************************)
(* The arithmetic of CM7/Core/Src/adc.c: from the registers of a sample to *)
(* thousandths of a degree, by a division (calc_ADC_temp_int) or with a    *)
(* fixed-point reciprocal (calc_ADC_temp_reduced_div), and the filter.     *)
(* Widths and calibration values are constants, so that small ones reach   *)
(* the edges.  The products wrap, as in the build; for a signed one that   *)
(* overflows C promises nothing.                                           *)
(***************************************************************************)
EXTENDS Integers

CONSTANTS
  Word, Long,   \* bits of uint32_t and of int64_t
  Frac,         \* 30, of the q2.30 format
  Cal1, Cal2,   \* *TEMPSENSOR_CAL1_ADDR, *TEMPSENSOR_CAL2_ADDR
  Vref,         \* *VREFINT_CAL_ADDR
  Num, Off,     \* TEMP_NUM, TEMP_OFF
  Temps, Vdds,  \* bound: values of the two registers
  Reduced       \* which of the two algorithms answers

WidthAssumption ==
  /\ {Word, Long, Frac, Cal1, Cal2, Vref, Num, Off} \subseteq Nat
  /\ Word < Long /\ 2 ^ Word > 0 /\ 2 ^ Frac > 0
  /\ 2 ^ (Long - 1) > 0 /\ 2 ^ Long = 2 * 2 ^ (Long - 1)
  /\ Cal1 < Cal2 /\ Temps \subseteq Nat /\ Vdds \subseteq Nat \ {0}
  /\ Reduced \in BOOLEAN

VARIABLES
  ratio,     \* temp, before the calibration
  filtered,
  least, most  \* of the readings so far; least > most before the first
vars == <<ratio, filtered, least, most>>

\* The value of n in a signed integer of so many bits.
Signed(n, bits) == ((n + 2 ^ (bits - 1)) % 2 ^ bits) - 2 ^ (bits - 1)

\* Division of C, towards zero.
Quotient(a, b) == IF a < 0 THEN -((-a) \div b) ELSE a \div b

Ratio(t, v) == (t * Vref) \div v

IntMilli(r) == Quotient((r - Cal1) * Num, Cal2 - Cal1) + Off

Recip == 2 ^ Frac \div (Cal2 - Cal1)

\* Fault: the reciprocal is taken for a fraction of one bit less.
ShiftedShort(n) == n \div 2 ^ (Frac - 1)
\* >> 30, which rounds down
Shifted(n) == n \div 2 ^ Frac

\* The difference is of type uint32_t.
ReducedMilli(r) ==
  Shifted(Signed(((r - Cal1) % 2 ^ Word) * Num * Recip, Long)) + Off

Milli(r) == IF Reduced THEN ReducedMilli(r) ELSE IntMilli(r)

\* Fault: the weights add up to more than the divisor.
SmoothSteep(m) == IF filtered = 0 THEN m ELSE Quotient(filtered * 7 + m, 7)
Smooth(m) == IF filtered = 0 THEN m ELSE Quotient(filtered * 7 + m, 8)

Init == ratio = Cal1 /\ filtered = 0 /\ least = 2 ^ Word /\ most = -(2 ^ Word)

Lower(a, b) == IF a < b THEN a ELSE b
Upper(a, b) == IF a > b THEN a ELSE b

Calc(t, v) ==
  LET m == Milli(Ratio(t, v)) IN
  /\ ratio' = Ratio(t, v) /\ filtered' = Smooth(m)
  /\ least' = Lower(least, m) /\ most' = Upper(most, m)

Next == \E t \in Temps, v \in Vdds : Calc(t, v)

Spec == Init /\ [][Next]_vars

-----------------------------------------------------------------------------
(* Properties *)

Near(a, b, d) == a - b \in -d .. d

\* Both algorithms agree to the last digit, and the ratio is the only input they have.
Agree == Near(IntMilli(ratio), ReducedMilli(ratio), 1)

\* They do from the first calibration point up (30 degrees).
AgreeWarm == ratio >= Cal1 => Agree

\* A filtered value lies between the readings it was made of.
Between == least <= most => filtered \in least .. most

\* After the first reading one sample moves the result by no more than its eighth.
Smoothed ==
  [][least <= most =>
       LET m == Milli(ratio') IN
       Near(8 * filtered', 8 * filtered, Upper(m - filtered, filtered - m) + 7)]_vars
=============================================================================
