------------------------------- MODULE Base62 -------------------------------
(***************************************************************************)
(* EncodeBase62: the digits of a number are written, the last one first,   *)
(* into a buffer of fixed size that is filled from its end.                *)
(* Positions count from 1; a digit stands for its place in the alphabet.   *)
(***************************************************************************)
EXTENDS Integers, Sequences

CONSTANTS
  Base,    \* 62
  BufLen,  \* the length of the buffer, 11
  MaxUint, \* the largest uint64
  Power    \* Power[k] is Base to the k

ASSUME Base62Constants ==
  /\ Base \in Nat \ {0, 1} /\ BufLen \in Nat /\ MaxUint \in Nat
  /\ Power \in [0..BufLen -> Nat] /\ Power[0] = 1
  /\ \A k \in 1..BufLen : Power[k] = Base * Power[k - 1]
  /\ MaxUint < Power[BufLen]

VARIABLES
  arg,  \* the number to encode
  n,    \* what is left of it
  i,    \* how much of the buffer is unused
  buf   \* the buffer

vars == <<arg, n, i, buf>>

Digits == 0..(Base - 1)

\* The function is called with the number m.
Call(m) ==
  /\ arg' = m /\ n' = m /\ i' = BufLen
  /\ buf' = [k \in 1..BufLen |-> 0]

\* The loop's condition; a variant that makes a round too many.
MoreOrZero == n >= 0
More       == n > 0

\* The next digit; a variant that writes the digits from the left.
DigitLeft == buf' = [buf EXCEPT ![BufLen + 1 - i] = n % Base]
WriteDigit == buf' = [buf EXCEPT ![i] = n % Base]

\* One round of the loop.
Digit ==
  /\ More
  /\ WriteDigit
  /\ i' = i - 1 /\ n' = n \div Base
  /\ UNCHANGED arg

\* What is returned after the last round; zero is dealt with before the loop.
Result == IF arg = 0 THEN <<0>> ELSE SubSeq(buf, i + 1, BufLen)

Init ==
  /\ arg \in 0..MaxUint /\ n = arg /\ i = BufLen
  /\ buf = [k \in 1..BufLen |-> 0]

Spec == Init /\ [][Digit]_vars

-----------------------------------------------------------------------------
\* The number that a code spells; read[k] is what its first k digits spell.
Decode(c) ==
  LET read[k \in 0..Len(c)] == IF k = 0 THEN 0 ELSE read[k - 1] * Base + c[k]
  IN  read[Len(c)]

\* No round of the loop indexes the buffer out of its bounds, whatever the
\* number: the buffer has room for every uint64.
BufferSuffices == More => i \in 1..BufLen

\* The code of a number spells it, so no two numbers have the same code; and
\* every digit is one of the alphabet's.
Decodable ==
  n = 0 => Decode(Result) = arg /\ \A k \in DOMAIN Result : Result[k] \in Digits

=============================================================================
