------------------------------ MODULE HalfFloat ------------------------------
(***************************************************************************)
(* ane_compute_f16_to_f32 and ane_compute_f32_to_f16 of libane/ane_f16.h,  *)
(* which convert by floating point arithmetic on rearranged bits.  The     *)
(* arithmetic is modelled exactly, in integers: a float is its exponent    *)
(* field E and its mantissa field M, a half is its 15 low bits.  Both      *)
(* functions copy the sign bit, which is left out.                         *)
(***************************************************************************)
EXTENDS Integers

VARIABLES
  at,      \* "half", "float" or "done"
  half,    \* the half at the start
  place,   \* where the float is taken: at half, or about halfway to half + 1
  float,   \* the float
  back     \* the half it is converted to

halfVars == <<at, half, place, float, back>>

-----------------------------------------------------------------------------
Inf16 == 31 * 1024
NaN16 == 32256        \* 0x7E00
F16(e, m) == e * 1024 + m

(* The float with value n * 2^(E0 - 150), where 0 < n < 2^24: the leading  *)
(* bit goes to position 23.                                                *)
Normal(n, E0) ==
  LET k == CHOOSE k \in 0 .. 23 : 2^k <= n /\ n < 2^(k + 1)
  IN [E |-> E0 - 23 + k, M |-> (n - 2^k) * 2^(23 - k)]

(* Mutant: the smallest normal halves are taken for denormal ones. *)
F16ToF32Cutoff(w) ==
  LET e == w \div 1024
      m == w % 1024
  IN IF e <= 1 THEN IF m = 0 THEN [E |-> 0, M |-> 0] ELSE Normal(m, 126)
     ELSE [E |-> IF e = 31 THEN 255 ELSE e + 112, M |-> m * 2^13]

(* ane_compute_f16_to_f32.  Below denormalized_cutoff the exponent is      *)
(* zero, and 0.5 * (1 + m / 2^23) - 0.5 is m * 2^-24, exactly.  Otherwise  *)
(* the exponent field is e + 0xE0, which is that of infinities and NaNs    *)
(* for e = 31, and the product with 2^-112 is exact.                       *)
F16ToF32(w) ==
  LET e == w \div 1024
      m == w % 1024
  IN IF e = 0 THEN IF m = 0 THEN [E |-> 0, M |-> 0] ELSE Normal(m, 126)
     ELSE [E |-> IF e = 31 THEN 255 ELSE e + 112, M |-> m * 2^13]

(* n / 2^k rounded to the nearest integer, ties to even: the addition of   *)
(* two floats rounds this way.  Mutant: rounds up whenever half or more.   *)
RoundHalfUp(n, k) == IF k > 25 THEN 0 ELSE (n + 2^(k - 1)) \div 2^k

Round(n, k) ==
  IF k > 25 THEN 0
  ELSE LET q == n \div 2^k
           rest == 2 * (n % 2^k)
       IN IF rest > 2^k \/ (rest = 2^k /\ q % 2 = 1) THEN q + 1 ELSE q

Max2(a, b) == IF a > b THEN a ELSE b

(* ane_compute_f32_to_f16.  base is 4 * |f|, or infinite if the product    *)
(* with 2^112 is (E >= 143); bias is E, at least 0x71.  The float with     *)
(* exponent field bias + 15 has the unit 2^(bias - 135), so adding it to   *)
(* base leaves |f| / 2^(bias - 137), rounded, in the low bits, and its     *)
(* exponent modulo 32 above them.                                          *)
F32ToF16(f) ==
  LET bias == Max2(f.E, 113)
      n == IF f.E = 0 THEN f.M ELSE 2^23 + f.M
  IN IF f.E = 255 /\ f.M > 0 THEN NaN16
     ELSE IF f.E >= 143 THEN Inf16
     ELSE F16((bias + 15) % 32, Round(n, 13 + bias - Max2(f.E, 1)))

-----------------------------------------------------------------------------
(* The float halfway between the halves w and w + 1, and its neighbours. *)
Midpoint(w) ==
  IF w < 1024 THEN Normal(2 * w + 1, 125)
  ELSE LET f == F16ToF32(w) IN [f EXCEPT !.M = @ + 2^12]

Succ(f) == IF f.M = 2^23 - 1 THEN [E |-> f.E + 1, M |-> 0] ELSE [f EXCEPT !.M = @ + 1]
Pred(f) == IF f.M = 0 THEN [E |-> f.E - 1, M |-> 2^23 - 1] ELSE [f EXCEPT !.M = @ - 1]

Places == {"at", "below", "tie", "above"}

HalfInit ==
  /\ at = "half"
  /\ half \in 0 .. F16(31, 1023)
  /\ place \in IF half < Inf16 THEN Places ELSE {"at"}
  /\ float = [E |-> 0, M |-> 0] /\ back = 0

(* A float is made from the half ... *)
ToF32 ==
  /\ at = "half" /\ at' = "float"
  /\ float' = CASE place = "at" -> F16ToF32(half)
              [] place = "below" -> Pred(Midpoint(half))
              [] place = "tie" -> Midpoint(half)
              [] place = "above" -> Succ(Midpoint(half))
  /\ UNCHANGED <<half, place, back>>

(* ... and back. *)
ToF16 ==
  /\ at = "float" /\ at' = "done"
  /\ back' = F32ToF16(float)
  /\ UNCHANGED <<half, place, float>>

HalfNext == ToF32 \/ ToF16

HalfSpec == HalfInit /\ [][HalfNext]_halfVars

-----------------------------------------------------------------------------
(* Every half survives the way to a float and back, denormals, zero and    *)
(* infinity too; a NaN stays a NaN.                                        *)
HalfRoundTrip ==
  at = "done" /\ place = "at" => back = IF half > Inf16 THEN NaN16 ELSE half

(* A float between two halves becomes the nearer one, and a tie the even   *)
(* one, in every binade, from the first denormal to the step to infinity.  *)
Nearest ==
  /\ at = "done" /\ place = "below" => back = half
  /\ at = "done" /\ place = "above" => back = half + 1
  /\ at = "done" /\ place = "tie" => back = IF half % 2 = 0 THEN half ELSE half + 1
=============================================================================
