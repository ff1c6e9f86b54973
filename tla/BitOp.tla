--------------------------------- MODULE BitOp ---------------------------------
(***************************************************************************)
(* The two conversions of BitOp.h that compute: a double to its IEEE 754   *)
(* representation, digit by digit, and back. The code does it for 52        *)
(* mantissa bits and bias 1023; both are parameters here, so that every     *)
(* boundary is met by small numbers. A double is an integer, in units of    *)
(* 2^-FractionBits.                                                         *)
(***************************************************************************)
EXTENDS Integers

CONSTANTS
  MantissaBits,   \* 52 in the code
  ExponentBits,   \* 11 in the code
  FractionBits    \* bound: the unit of the numbers of a run is 2^-FractionBits

Bias == 2^(ExponentBits - 1) - 1

ASSUME WidthAssumption ==
  /\ {MantissaBits, ExponentBits, FractionBits} \subseteq Nat \ {0}
  /\ FractionBits > MantissaBits /\ MantissaBits + 1 < Bias

\* What a power of two is, as far as the conversions use them: TLC computes it.
ASSUME PowerAssumption ==
  \A n \in 0..(MantissaBits + ExponentBits + FractionBits) : 2^(n + 1) = 2 * 2^n

SignBit == 2^(ExponentBits + MantissaBits)

Absolute(a) == IF a < 0 THEN -a ELSE a
Double(n) == n * 2^FractionBits
\* Binary digits of n; none for zero. A mantissa has the places for them all: the code
\* holds the whole part of a number in an int.
Digits(n) ==
  IF n = 0 THEN 0 ELSE CHOOSE d \in 1..(MantissaBits + 1) : 2^(d - 1) <= n /\ n < 2^d

\* The digits of the fraction that are generated: the leading one and the mantissa
\* share MantissaBits + 1 places, zeros ahead of the leading one included.
FractionPlaces(a) == MantissaBits + 1 - Digits(Absolute(a) \div 2^FractionBits)
LastPlace(a) == 2^(FractionBits - FractionPlaces(a))

\* Mutant: one place less.
Significand_short(a) == Absolute(a) \div (2 * LastPlace(a))
Significand(a) == Absolute(a) \div LastPlace(a)

\* What callers keep to. A larger number has a whole part with no place for its last
\* digits; below 2^-(MantissaBits + 1) no digit is a one and the code erases from an
\* empty vector.
Representable(a) ==
  Absolute(a) \div 2^FractionBits < 2^(MantissaBits + 1) /\ (a # 0 => Significand(a) # 0)

FromDoubleToFPRep(a) ==
  IF a = 0 THEN 0
  ELSE LET wholedigits == Digits(Absolute(a) \div 2^FractionBits)
           zeros       == MantissaBits + 1 - Digits(Significand(a))
           exponent    == IF wholedigits > 0 THEN Bias + wholedigits - 1 ELSE Bias - (zeros + 1)
           mantissa    == Significand(a) * 2^zeros - 2^MantissaBits
       IN mantissa + exponent * 2^MantissaBits + (IF a < 0 THEN SignBit ELSE 0)

\* Exponents up to MantissaBits; above, the code reads past the digits.
FromFPRepToDouble(b) ==
  IF b = 0 THEN 0
  ELSE LET exponent == (b % SignBit) \div 2^MantissaBits - Bias
           digits   == 2^MantissaBits + (b % 2^MantissaBits)
           value    == (digits * 2^(FractionBits + exponent)) \div 2^MantissaBits
       IN IF b >= SignBit THEN -value ELSE value
=============================================================================
