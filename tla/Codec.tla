------------------------------- MODULE Codec -------------------------------
(***************************************************************************)
(* How a double travels: hton_rs_packet_lambda_result_double_t packs it    *)
(* into the bits of IEEE 754 (ieee754_network.c) and stores that integer   *)
(* in the double of the packet; ntoh_... converts it back and unpacks it.  *)
(*                                                                         *)
(* A double is counted in units of the smallest subnormal, so that every   *)
(* finite one is an integer and all arithmetic below is exact, as it is in *)
(* the long doubles of the code.  The module holds for any number of bits, *)
(* the significand being no shorter than the exponent; a double has 52     *)
(* and 11.                                                                 *)
(***************************************************************************)
EXTENDS Integers

CONSTANTS
  ExpBits,   \* bits of the exponent (11)
  SigBits    \* bits of the significand (52)

ASSUME CodecAssumption == SigBits \in Nat /\ ExpBits \in 2 .. SigBits

\* 1LL << n.  The proofs unfold it, which they cannot do with 2 ^ n.
Pow2[n \in Nat] == IF n = 0 THEN 1 ELSE 2 * Pow2[n - 1]

Width    == 1 + ExpBits + SigBits
Bias     == Pow2[ExpBits - 1] - 1
One      == Pow2[SigBits + Bias - 1]
Hidden   == Pow2[SigBits]
ShiftBound == SigBits + Bias + 1

\* Beyond the largest finite double, and what is no number.
Infinity == Pow2[SigBits + Pow2[ExpBits] - 2]
NaN      == Infinity + 1

Abs(n) == IF n < 0 THEN -n ELSE n

\* The significand and exponent field of a normal double make its magnitude.
Magnitude(exp, sig) == (Hidden + sig) * Pow2[exp - 1]

Normals == {Magnitude(e, m) : e \in 1 .. Pow2[ExpBits] - 2, m \in 0 .. Hidden - 1}
Subnormals == 1 .. Hidden - 1

Finite == {0} \cup Normals \cup Subnormals \cup {-n : n \in Normals \cup Subnormals}
Doubles == Finite \cup {Infinity, -Infinity, NaN}

VARIABLES
  pc,      \* "idle", "normalise" (in pack754), "line" or "arrived"
  x,       \* the value sent
  fnorm, shift,   \* of pack754; the sign is that of x
  stored,  \* the value of the packet's double on the line
  y,       \* the value received
  last     \* ghost: the values sent and received before this one

vars == <<pc, x, fnorm, shift, stored, y, last>>

Init ==
  /\ pc = "idle" /\ x = 0 /\ fnorm = 0 /\ shift = 0 /\ stored = 0 /\ y = 0
  /\ last = << >>

-----------------------------------------------------------------------------
(***************************************************************************)
(* The stores through `double result`.                                     *)
(***************************************************************************)
\* Mutant: the packet holds a type of half the precision.
SpacingShort(n) ==
  LET cut == {d \in 0 .. Width : n >= Pow2[SigBits + d - 2]} IN
  IF cut = {} THEN 1 ELSE Pow2[CHOOSE d \in cut : \A c \in cut : c <= d]

\* How far apart the doubles are that an integer n lies between: all but its
\* SigBits + 1 highest bits are lost.
Spacing(n) ==
  LET cut == {d \in 0 .. Width : n >= Pow2[SigBits + d]} IN
  IF cut = {} THEN 1 ELSE Pow2[CHOOSE d \in cut : \A c \in cut : c <= d]

\* To the nearest double, and to the even one of two.
Rounded(n) ==
  LET g == Spacing(n)
      q == n \div g
      up == 2 * (n % g) > g \/ (2 * (n % g) = g /\ q % 2 = 1)
  IN  g * (IF up THEN q + 1 ELSE q)

\* (uint64_t) of a double; one that is too large may become anything.
Converted(d) == IF d < Pow2[Width] THEN {d} ELSE 0 .. Pow2[Width] - 1

-----------------------------------------------------------------------------
(***************************************************************************)
(* pack754.                                                                *)
(***************************************************************************)
\* Mutant: zero is normalised like any other value.
BeginAll(v) ==
  /\ pc = "idle"
  /\ x' = v
  /\ fnorm' = Abs(v) /\ shift' = 0
  /\ IF v = NaN THEN pc' = "line" /\ stored' = 0
     ELSE pc' = "normalise" /\ UNCHANGED stored
  /\ UNCHANGED <<y, last>>

\* Neither zero nor a NaN is below or above zero: the pattern is 0.
Begin(v) ==
  /\ pc = "idle"
  /\ x' = v
  /\ fnorm' = Abs(v) /\ shift' = 0
  /\ IF v \in {0, NaN} THEN pc' = "line" /\ stored' = 0
     ELSE pc' = "normalise" /\ UNCHANGED stored
  /\ UNCHANGED <<y, last>>

\* `shift` is kept up to ShiftBound, which no finite value reaches.
Counted(n) == IF n > ShiftBound THEN ShiftBound ELSE IF n < -ShiftBound THEN -ShiftBound ELSE n

\* Half of an infinity is the infinity.
Halve ==
  /\ pc = "normalise" /\ fnorm >= 2 * One
  /\ fnorm' = IF fnorm = Infinity THEN fnorm ELSE fnorm \div 2
  /\ shift' = Counted(shift + 1)
  /\ UNCHANGED <<pc, x, stored, y, last>>

Double ==
  /\ pc = "normalise" /\ fnorm < One
  /\ fnorm' = fnorm * 2 /\ shift' = Counted(shift - 1)
  /\ UNCHANGED <<pc, x, stored, y, last>>

\* Mutant: a negative exponent is not cut to the width of the pattern.
PatternWide ==
  LET exp  == shift + Bias
      sig  == ((fnorm - One) * Hidden) \div One
      body == exp * Hidden + sig
  IN  IF x < 0 THEN body + Pow2[Width - 1] ELSE body

\* Mutant: the bias is one too large.
PatternBiased ==
  LET body == ((shift + Bias + 1) * Hidden + ((fnorm - One) * Hidden) \div One) % Pow2[Width]
  IN  IF x < 0 /\ body < Pow2[Width - 1] THEN body + Pow2[Width - 1] ELSE body

\* Sign, exponent and significand side by side.  The exponent of a subnormal
\* is negative but for the largest of them, and fills the bits above it.
Pattern ==
  LET exp  == shift + Bias
      sig  == ((fnorm - One) * Hidden) \div One
      body == (exp * Hidden + sig) % Pow2[Width]
  IN  IF x < 0 /\ body < Pow2[Width - 1] THEN body + Pow2[Width - 1] ELSE body

Emit ==
  /\ pc = "normalise" /\ One <= fnorm /\ fnorm < 2 * One
  /\ pc' = "line" /\ stored' = Rounded(Pattern)
  /\ UNCHANGED <<x, fnorm, shift, y, last>>

-----------------------------------------------------------------------------
(***************************************************************************)
(* unpack754, and the cast of its long double to a double.                 *)
(***************************************************************************)
\* Mutant: the sign bit is left where it is.
UnpackedUnsigned(i) ==
  LET sig == i % Hidden
      exp == (i \div Hidden) % Pow2[ExpBits]
  IN  IF i = 0 THEN 0
      ELSE IF exp = 0 THEN (Hidden + sig) \div 2
      ELSE IF exp = Pow2[ExpBits] - 1 THEN Infinity
      ELSE Magnitude(exp, sig)

\* Every exponent is taken for that of a normal double: the lowest gives a
\* value between two units, the highest one that is too large.
Unpacked(i) ==
  LET sig == i % Hidden
      exp == (i \div Hidden) % Pow2[ExpBits]
      sign == IF i >= Pow2[Width - 1] THEN -1 ELSE 1
      half == (Hidden + sig) \div 2
  IN  IF i = 0 THEN 0
      ELSE IF exp = 0 THEN sign * (IF sig % 2 = 1 /\ half % 2 = 1 THEN half + 1 ELSE half)
      ELSE IF exp = Pow2[ExpBits] - 1 THEN sign * Infinity
      ELSE sign * Magnitude(exp, sig)

Receive ==
  /\ pc = "line"
  /\ pc' = "arrived"
  /\ \E i \in Converted(stored) : y' = Unpacked(i)
  /\ UNCHANGED <<x, fnorm, shift, stored, last>>

\* The next value is sent; only one before it is kept.
Again ==
  /\ pc = "arrived" /\ last = << >>
  /\ pc' = "idle" /\ last' = <<x, y>>
  /\ x' = 0 /\ fnorm' = 0 /\ shift' = 0 /\ stored' = 0 /\ y' = 0

Step == Halve \/ Double \/ Emit \/ Receive

Next == (\E v \in Doubles : Begin(v)) \/ Step \/ Again

Spec == Init /\ [][Next]_vars

\* Both conversions are loops of a thread that runs on.
FairSpec == Spec /\ WF_vars(Step)

-----------------------------------------------------------------------------
\* CodecTypeOK: what is on the line was a pattern of Width bits, perhaps rounded
\* up to the first one that is too long, and a double is received.
CodecTypeOK ==
  /\ pc \in {"idle", "normalise", "line", "arrived"}
  /\ x \in Doubles /\ y \in Doubles
  /\ shift \in -ShiftBound .. ShiftBound
  /\ stored \in 0 .. Pow2[Width]

\* The bits of a double that IEEE 754 prescribes, sign aside.
Encoding(v) ==
  IF v = 0 THEN 0
  ELSE IF Abs(v) = Infinity THEN (Pow2[ExpBits] - 1) * Hidden
  ELSE CHOOSE i \in 0 .. Pow2[Width - 1] - 1 :
         /\ i \div Hidden \in 1 .. Pow2[ExpBits] - 2
         /\ Magnitude(i \div Hidden, i % Hidden) = Abs(v)

Ordinary(v) == v = 0 \/ Abs(v) \in Normals

(***************************************************************************)
(* PacksIEEE: for a normal value the two loops end with the exponent and   *)
(* the significand that IEEE 754 gives it, so that any other               *)
(* implementation of the format could read them.                           *)
(***************************************************************************)
PacksIEEE ==
  (pc = "normalise" /\ Abs(x) \in Normals /\ One <= fnorm /\ fnorm < 2 * One) =>
     Pattern = Encoding(x) + (IF x < 0 THEN Pow2[Width - 1] ELSE 0)

(***************************************************************************)
(* ArrivesClose: a zero or normal value arrives with its sign, and at most *)
(* 2 ^ (ExpBits - 1) representable values away from what was sent: 1024    *)
(* for a double, the price of storing the 64 bits as a number.  The        *)
(* largest values may arrive as the infinity of their sign.                *)
(***************************************************************************)
ArrivesClose ==
  (pc = "arrived" /\ Ordinary(x)) =>
     /\ (x < 0) = (y < 0) /\ (x = 0) = (y = 0)
     /\ Abs(Encoding(x) - Encoding(y)) <= Pow2[ExpBits - 1]

(***************************************************************************)
(* OrderKept: of two zero or normal values the larger one does not arrive  *)
(* as the smaller: the rounding never makes a rising measurement fall.     *)
(***************************************************************************)
OrderKept ==
  (pc = "arrived" /\ last # << >> /\ Ordinary(x) /\ Ordinary(last[1])) =>
     (last[1] <= x => last[2] <= y)

(***************************************************************************)
(* ConversionEnds: every finite value, zero and the subnormals included,   *)
(* is packed and unpacked in the end; only an infinity is halved forever.  *)
(***************************************************************************)
ConversionEnds ==
  (pc = "normalise" /\ x \in Finite) ~> pc = "arrived"
=============================================================================
