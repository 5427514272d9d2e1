--------------------------- MODULE NativeDivision ---------------------------
(***************************************************************************)
(* Division by a constant in the native back end (src/x86.c,               *)
(* gen_const_divmod() and signed_magic()): first the compiler looks for a  *)
(* shift or for a multiplier that stands for the divisor, then the code it *)
(* emits is run, on whatever is in rax.                                    *)
(*                                                                         *)
(* Registers hold the signed numbers -Half..Half-1 and wrap around; in the *)
(* code they have 64 bits and Half is 2^63.  The count `shift` is          *)
(* represented by its power of two.                                        *)
(***************************************************************************)
EXTENDS Integers

CONSTANTS
  Half,        \* 2^63
  MaxDivisor   \* the largest divisor with a short form (2^31 - 1)

ASSUME DivisionAssumption ==
  /\ Half \in Nat
  /\ MaxDivisor \in Nat
  /\ 2 * MaxDivisor <= Half

VARIABLES
  d, want_rem,  \* the request: `/` or `%` by the literal d
  power,        \* 2^shift
  magic,        \* the multiplier, 0 while there is none
  phase,        \* "search", "emitted", "quotient", "done", or "idiv" when
                \* the search has failed and a division is emitted
  n,            \* what rax held when the code was entered, kept in r8
  rax

vars == <<d, want_rem, power, magic, phase, n, rax>>

Word == -Half..(Half - 1)
Wrap(v) == ((v + Half) % (2 * Half)) - Half

dabs == IF d < 0 THEN -d ELSE d

\* dabs & (dabs - 1) = 0
IsPower(v) == \A c \in 1..v : v % c = 0 => c = 1 \/ c % 2 = 0

\* The search for a multiplier ends with a shift of 62.
LastShift == power >= Half \div 2

----------------------------------------------------------------------------
Init ==
  /\ d \in {v \in -MaxDivisor..MaxDivisor : v < -1 \/ v > 1}
  /\ want_rem \in BOOLEAN
  /\ power = 1
  /\ magic = 0
  /\ phase = "search"
  /\ n = 0
  /\ rax = 0

\* A power of two is shifted by its logarithm.
CountShift ==
  /\ phase = "search"
  /\ IsPower(dabs)
  /\ IF power < dabs
       THEN power' = 2 * power /\ UNCHANGED phase
       ELSE phase' = "emitted" /\ UNCHANGED power
  /\ UNCHANGED <<d, want_rem, magic, n, rax>>

\* signed_magic(): the multiplier for a shift, and how much it is too large.
Multiplier == (2 * Half * power) \div dabs + 1
Excess == Multiplier * dabs - 2 * Half * power

\* Mutated form: any multiplier that fits a register is taken.
AnyMultiplier == Multiplier < 2 * Half

\* Mutated form: the excess is compared with 2^s.
TightMultiplier == /\ Multiplier < 2 * Half
                   /\ Excess # 0
                   /\ Excess <= power

GoodMultiplier == /\ Multiplier < 2 * Half
                  /\ Excess # 0
                  /\ Excess <= 2 * power

FindMagic ==
  /\ phase = "search"
  /\ ~IsPower(dabs)
  /\ \/ /\ GoodMultiplier
        /\ magic' = Multiplier
        /\ phase' = "emitted"
        /\ UNCHANGED power
     \/ /\ ~GoodMultiplier
        /\ IF LastShift
             THEN phase' = "idiv" /\ UNCHANGED power
             ELSE power' = 2 * power /\ UNCHANGED phase
        /\ UNCHANGED magic
  /\ UNCHANGED <<d, want_rem, n, rax>>

----------------------------------------------------------------------------
\* The emitted code.

Enter(v) == phase = "emitted" /\ n' = v /\ phase' = "quotient"

\* r9: all ones when n is negative.
Sign(v) == IF v < 0 THEN -1 ELSE 0

\* r9 & (dabs - 1) is added before the shift.
ShiftDividend(v) ==
  /\ Enter(v)
  /\ magic = 0
  /\ LET bias == IF Sign(v) = -1 THEN dabs - 1 ELSE 0
     IN  rax' = Wrap(v + bias) \div power
  /\ UNCHANGED <<d, want_rem, power, magic>>

\* The high half of the product, the multiplier being taken as signed, with
\* n added again when that made it negative.
HighHalf(v) ==
  LET signed == IF magic >= Half THEN magic - 2 * Half ELSE magic
      high == (v * signed) \div (2 * Half)
  IN  IF magic >= Half THEN Wrap(high + v) ELSE high

MultiplyDividend(v) ==
  /\ Enter(v)
  /\ magic # 0
  /\ rax' = Wrap(HighHalf(v) \div power - Sign(v))
  /\ UNCHANGED <<d, want_rem, power, magic>>

\* The sign of the divisor, and the remainder from the quotient.
Finish ==
  /\ phase = "quotient"
  /\ phase' = "done"
  /\ LET q == IF d < 0 THEN Wrap(-rax) ELSE rax
     IN  rax' = IF want_rem THEN Wrap(n - Wrap(q * d)) ELSE q
  /\ UNCHANGED <<d, want_rem, power, magic, n>>

Next ==
  \/ CountShift \/ FindMagic
  \/ \E v \in Word : ShiftDividend(v) \/ MultiplyDividend(v)
  \/ Finish

Spec == Init /\ [][Next]_vars

----------------------------------------------------------------------------
TypeOK ==
  /\ d \in -MaxDivisor..MaxDivisor
  /\ want_rem \in BOOLEAN
  /\ power \in 1..dabs
  /\ magic \in 0..(2 * Half - 1)
  /\ phase \in {"search", "emitted", "quotient", "done", "idiv"}
  /\ n \in Word
  /\ rax \in Word

\* What `/` and `%` mean in Lu: they truncate toward zero, as idiv and C do.
Truncated(a, b) ==
  LET q == (IF a < 0 THEN -a ELSE a) \div (IF b < 0 THEN -b ELSE b)
  IN  IF (a < 0) = (b < 0) THEN q ELSE -q

\* The short forms give the quotient, or the remainder, of every number a
\* register can hold, for either sign of both operands (gen_const_divmod).
Exact ==
  phase = "done" =>
    rax = IF want_rem THEN n - Truncated(n, d) * d ELSE Truncated(n, d)

\* The search never runs out of shifts: `return false` at the end of
\* signed_magic() is not reached for a divisor that has come this far, and no
\* constant divisor but 1 and -1 is left to idiv.
NeverFails == phase # "idiv"
=============================================================================
