-------------------------- MODULE CreateInputProofs --------------------------
(***************************************************************************)
(* Theorems about Base62 and CreateInput, for any base and width of the    *)
(* numbers, any limits, and any input.                                     *)
(***************************************************************************)
EXTENDS CreateInput, FiniteSetTheorems, WellFoundedInduction, TLAPS

(* The buffer of EncodeBase62 has room for every number: after BufLen - i  *)
(* rounds, what is left of the number is below Base to the i, so a round   *)
(* that still finds a digit finds a place for it.                          *)

\* The inductive invariant: what is left fits into the room that is left.
Fits ==
  /\ n \in Nat /\ i \in 0..BufLen
  /\ n < Power[i]

\* The quotient of a number below a multiple is below the factor.
LEMMA DivBelow ==
  ASSUME NEW m \in Nat, NEW q \in Nat, NEW b \in Nat \ {0}, m < b * q
  PROVE  m \div b \in Nat /\ m \div b < q
<1>1. /\ m \div b \in Int /\ m % b \in 0..(b - 1)
      /\ m = b * (m \div b) + (m % b)
  OBVIOUS
<1> DEFINE d == m \div b
<1> HIDE DEF d
<1>2. d \in Int /\ b * d <= m /\ m < b * d + b
  BY <1>1 DEF d
<1>3. d >= 0
  <2>1. SUFFICES ASSUME d <= -1 PROVE FALSE
    BY <1>2
  <2>2. b * d <= b * (-1)
    BY <1>2, <2>1
  <2> QED
    BY <1>2, <2>2
<1>4. d < q
  <2>1. SUFFICES ASSUME q <= d PROVE FALSE
    BY <1>2
  <2>2. b * q <= b * d
    BY <1>2, <2>1
  <2>3. b * q \in Int /\ b * d \in Int
    BY <1>2
  <2> QED
    BY <1>2, <2>2, <2>3
<1> QED
  BY <1>3, <1>4, <1>2 DEF d

\* A round does not make the number greater.
LEMMA DivAtMost ==
  ASSUME NEW m \in Nat
  PROVE  m \div Base \in Nat /\ m \div Base <= m
<1>1. Base \in Nat /\ Base >= 2
  BY Base62Constants
<1>2. Base * (m + 1) >= 2 * (m + 1)
  BY <1>1
<1>3. m + 1 \in Nat /\ m < Base * (m + 1)
  BY <1>1, <1>2
<1>4. m \div Base \in Nat /\ m \div Base < m + 1
  BY <1>1, <1>3, DivBelow
<1> QED
  BY <1>4

\* A call starts with the whole buffer, which is long enough.
LEMMA FitsInit == Init => Fits
<1>1. SUFFICES ASSUME Init PROVE Fits
  OBVIOUS
<1>2. n \in Nat /\ n <= MaxUint /\ i = BufLen
  BY <1>1, Base62Constants DEF Init
<1> QED
  BY <1>2, Base62Constants DEF Fits

\* A round divides what is left by the base and uses one place.
LEMMA FitsStep == Fits /\ [Digit]_vars => Fits'
<1>1. SUFFICES ASSUME Fits, [Digit]_vars PROVE Fits'
  OBVIOUS
<1>2. CASE Digit
  <2>1. n > 0 /\ i' = i - 1 /\ n' = n \div Base
    BY <1>2 DEF Digit, More
  <2>2. i # 0
    BY <1>1, <2>1, Base62Constants DEF Fits
  <2>3. i - 1 \in 0..BufLen /\ i \in 1..BufLen
    BY <1>1, <2>2, Base62Constants DEF Fits
  <2>4. Power[i] = Base * Power[i - 1] /\ Power[i - 1] \in Nat
    BY <2>3, Base62Constants
  <2>5. n \div Base \in Nat /\ n \div Base < Power[i - 1]
    BY <1>1, <2>4, Base62Constants, DivBelow DEF Fits
  <2> QED
    BY <2>1, <2>3, <2>5 DEF Fits
<1>3. CASE UNCHANGED vars
  BY <1>1, <1>3 DEF Fits, vars
<1> QED
  BY <1>1, <1>2, <1>3

\* What fits has a place for the next digit.
LEMMA FitsSuffices == Fits => BufferSuffices
<1> SUFFICES ASSUME Fits, More PROVE i \in 1..BufLen
  BY DEF BufferSuffices
<1> QED
  BY Base62Constants DEF Fits, More

\* No round of the loop indexes the buffer out of its bounds, for every base,
\* width and buffer long enough for the width.
THEOREM BufferNeverOverrun == Spec => []BufferSuffices
BY FitsInit, FitsStep, FitsSuffices, PTL DEF Spec

-----------------------------------------------------------------------------
(* What the digits spell.                                                  *)

\* The digits c spell the number x: there are numbers that are read digit by
\* digit as Decode reads them, and x is the last one.
Spells(c, x) ==
  \E v \in [0..Len(c) -> Nat] :
    /\ v[0] = 0 /\ v[Len(c)] = x
    /\ \A k \in 1..Len(c) : v[k] = v[k - 1] * Base + c[k]

\* The numbers that the rounds of the loop have divided: q[i] is what is left,
\* and each digit written is the remainder of the one before.
Quotients ==
  /\ Fits
  /\ arg \in Nat /\ buf \in [1..BufLen -> Digits]
  /\ \E q \in [0..BufLen -> Nat] :
       /\ q[BufLen] = arg /\ q[i] = n
       /\ \A k \in (i + 1)..BufLen : q[k] = q[k - 1] * Base + buf[k]

\* The loop at its start.
Called ==
  arg \in 0..MaxUint /\ n = arg /\ i = BufLen /\ buf = [k \in 1..BufLen |-> 0]

\* At the call nothing has been divided.
LEMMA QuotientsCall == Called => Quotients
<1> SUFFICES ASSUME Called PROVE Quotients
  OBVIOUS
<1>0. arg \in 0..MaxUint /\ n = arg /\ i = BufLen /\ buf = [k \in 1..BufLen |-> 0]
  BY DEF Called
<1>1. /\ MaxUint \in Nat /\ BufLen \in Nat /\ Base \in Nat /\ Base >= 2
      /\ arg \in Nat /\ arg <= MaxUint
  BY <1>0, Base62Constants
<1>2. Fits
  BY <1>0, <1>1, Base62Constants DEF Fits
<1>3. buf \in [1..BufLen -> Digits]
  BY <1>0, <1>1 DEF Digits
<1>4. \E q \in [0..BufLen -> Nat] :
        /\ q[BufLen] = arg /\ q[i] = n
        /\ \A k \in (i + 1)..BufLen : q[k] = q[k - 1] * Base + buf[k]
  <2> DEFINE q == [k \in 0..BufLen |-> arg]
  <2>1. q \in [0..BufLen -> Nat] /\ q[BufLen] = arg /\ q[i] = n
    BY <1>0, <1>1
  <2>2. \A k \in (i + 1)..BufLen : FALSE
    BY <1>0, <1>1
  <2> QED
    BY <2>1, <2>2
<1> QED
  BY <1>1, <1>2, <1>3, <1>4 DEF Quotients

\* A round divides once more, and writes the remainder.
LEMMA QuotientsDigit == Quotients /\ Digit => Quotients'
<1> SUFFICES ASSUME Quotients, Digit PROVE Quotients'
  OBVIOUS
<1>1. /\ n \in Nat /\ n > 0 /\ n' = n \div Base /\ i' = i - 1 /\ arg' = arg
      /\ buf' = [buf EXCEPT ![i] = n % Base]
      /\ Base \in Nat /\ Base >= 2 /\ BufLen \in Nat
      /\ buf \in [1..BufLen -> Digits]
  BY Base62Constants DEF Quotients, Fits, Digit, More, WriteDigit
<1>2. Fits'
  BY FitsStep DEF Quotients
<1>3. i \in 1..BufLen
  BY <1>1, Base62Constants DEF Quotients, Fits
<1>4. /\ n = (n \div Base) * Base + (n % Base)
      /\ n \div Base \in Nat /\ n % Base \in 0..(Base - 1)
  <2>1. n \div Base \in Nat
    BY <1>2, <1>1 DEF Fits
  <2> QED
    BY <1>1, <2>1
<1>5. buf' \in [1..BufLen -> Digits]
  BY <1>1, <1>4 DEF Digits
<1>6. PICK q \in [0..BufLen -> Nat] :
        /\ q[BufLen] = arg /\ q[i] = n
        /\ \A k \in (i + 1)..BufLen : q[k] = q[k - 1] * Base + buf[k]
  BY DEF Quotients
<1> DEFINE p == [q EXCEPT ![i - 1] = n \div Base]
<1>7. p \in [0..BufLen -> Nat] /\ p[BufLen] = arg /\ p[i - 1] = n \div Base /\ p[i] = n
  BY <1>3, <1>4, <1>6, <1>1
<1>8. \A k \in i..BufLen : p[k] = p[k - 1] * Base + buf'[k]
  <2>1. p[i] = p[i - 1] * Base + buf'[i]
    BY <1>1, <1>3, <1>4, <1>7
  <2>2. ASSUME NEW k \in (i + 1)..BufLen PROVE p[k] = p[k - 1] * Base + buf'[k]
    <3>1. p[k] = q[k] /\ p[k - 1] = q[k - 1] /\ buf'[k] = buf[k]
      BY <1>1, <1>3, <2>2, <1>6
    <3> QED
      BY <1>6, <3>1
  <2>3. \A k \in i..BufLen : k = i \/ k \in (i + 1)..BufLen
    BY <1>1, <1>3
  <2> QED
    BY <2>1, <2>2, <2>3
<1> HIDE DEF p
<1>9. (i - 1) + 1 = i
  BY <1>3
<1> QED
  BY <1>1, <1>2, <1>5, <1>7, <1>8, <1>9 DEF Quotients

\* A variable that the loop does not write keeps the quotients.
LEMMA QuotientsKept == Quotients /\ UNCHANGED vars => Quotients'
<1> SUFFICES ASSUME Quotients, UNCHANGED vars PROVE Quotients'
  OBVIOUS
<1>1. arg' = arg /\ n' = n /\ i' = i /\ buf' = buf
  BY DEF vars
<1> QED
  BY <1>1 DEF Quotients, Fits

\* When nothing is left, the digits in the buffer spell the number.
LEMMA QuotientsSpell ==
  ASSUME Quotients, n = 0
  PROVE  Spells(Result, arg) /\ \A k \in DOMAIN Result : Result[k] \in Digits
<1>1. /\ Base \in Nat /\ Base >= 2 /\ BufLen \in Nat /\ arg \in Nat
      /\ i \in 0..BufLen /\ buf \in [1..BufLen -> Digits] /\ 0 \in Digits
  <2>1. Base \in Nat /\ Base >= 2 /\ BufLen \in Nat
    BY Base62Constants
  <2>2. arg \in Nat /\ i \in 0..BufLen /\ buf \in [1..BufLen -> Digits]
    BY DEF Quotients, Fits
  <2>3. 0 \in Digits
    BY <2>1 DEF Digits
  <2> QED
    BY <2>1, <2>2, <2>3
<1>2. CASE arg = 0
  <2> DEFINE v == [k \in 0..1 |-> 0]
  <2>1. Result = <<0>>
    BY <1>2 DEF Result
  <2>2. Len(<<0>>) = 1 /\ DOMAIN <<0>> = 1..1 /\ <<0>>[1] = 0
    OBVIOUS
  <2>3. /\ v \in [0..1 -> Nat] /\ v[0] = 0 /\ v[1] = arg
        /\ \A k \in 1..1 : v[k] = v[k - 1] * Base + <<0>>[k]
    BY <1>1, <1>2
  <2> HIDE DEF v
  <2>4. Spells(<<0>>, arg)
    BY <2>2, <2>3 DEF Spells
  <2> QED
    BY <1>1, <2>1, <2>2, <2>4
<1>3. CASE arg # 0
  <2>1. PICK q \in [0..BufLen -> Nat] :
          /\ q[BufLen] = arg /\ q[i] = n
          /\ \A k \in (i + 1)..BufLen : q[k] = q[k - 1] * Base + buf[k]
    BY DEF Quotients
  <2> DEFINE c == SubSeq(buf, i + 1, BufLen)
             v == [k \in 0..(BufLen - i) |-> q[i + k]]
  <2>2. buf \in Seq(Digits) /\ Len(buf) = BufLen
    BY <1>1
  <2>3. /\ Len(c) = BufLen - i
        /\ DOMAIN c = 1..(BufLen - i)
        /\ \A k \in 1..(BufLen - i) : c[k] = buf[i + k]
    BY <1>1, <2>2
  <2>4. /\ v \in [0..(BufLen - i) -> Nat]
        /\ v[0] = 0 /\ v[BufLen - i] = arg
    BY <1>1, <2>1
  <2>5. ASSUME NEW k \in 1..(BufLen - i)
        PROVE  v[k] = v[k - 1] * Base + c[k] /\ c[k] \in Digits
    <3>1. i + k \in (i + 1)..BufLen /\ i + k \in 1..BufLen /\ (i + k) - 1 = i + (k - 1)
          /\ k \in 0..(BufLen - i) /\ k - 1 \in 0..(BufLen - i)
      BY <1>1, <2>5
    <3>2. v[k] = q[i + k] /\ v[k - 1] = q[i + (k - 1)] /\ c[k] = buf[i + k]
      BY <2>3, <3>1
    <3> QED
      BY <1>1, <2>1, <3>1, <3>2
  <2>6. Result = c
    BY <1>3 DEF Result
  <2> HIDE DEF c, v
  <2>7. Spells(c, arg)
    BY <2>3, <2>4, <2>5 DEF Spells
  <2> QED
    BY <2>3, <2>5, <2>6, <2>7
<1> QED
  BY <1>2, <1>3

\* A nonempty set of numbers up to m has a least element: of the sets of its
\* elements up to x, one is minimal.
LEMMA LeastElement ==
  ASSUME NEW m \in Nat, NEW S, S \subseteq 0..m, S # {}
  PROVE  \E x \in S : \A y \in S : x <= y
<1> DEFINE UpTo(x) == {y \in S : y <= x}
           Family  == {UpTo(x) : x \in S}
<1>1. IsFiniteSet(S)
  <2>1. IsFiniteSet(0..m)
    BY FS_Interval
  <2> QED
    BY <2>1, FS_Subset
<1>2. IsWellFoundedOn(StrictSubsetOrdering(S), SUBSET S)
  BY <1>1, FS_StrictSubsetOrderingWellFounded, FS_FiniteSubsetsOfFinite
<1>3. Family \subseteq SUBSET S /\ Family # {}
  OBVIOUS
<1>4. \E D \in Family : \A C \in Family : ~(<<C, D>> \in StrictSubsetOrdering(S))
  <2> HIDE DEF Family
  <2> QED
    BY <1>2, <1>3, WFMin
<1>5. PICK x \in S : \A y \in S : ~(<<UpTo(y), UpTo(x)>> \in StrictSubsetOrdering(S))
  BY <1>4
<1>6. ASSUME NEW y \in S, ~(x <= y) PROVE FALSE
  <2>1. y < x /\ \A z \in S : z \in Int
    BY <1>6
  <2>2. UpTo(y) \subseteq UpTo(x) /\ x \in UpTo(x) /\ x \notin UpTo(y)
    <3>1. \A z \in S : z <= y => z <= x
      BY <2>1
    <3>2. x \in UpTo(x) /\ x \notin UpTo(y)
      BY <2>1
    <3> QED
      BY <3>1, <3>2
  <2>3. UpTo(y) \in SUBSET S /\ UpTo(x) \in SUBSET S
    OBVIOUS
  <2> HIDE DEF UpTo
  <2>4. <<UpTo(y), UpTo(x)>> \in StrictSubsetOrdering(S)
    BY <2>2, <2>3 DEF StrictSubsetOrdering
  <2> QED
    BY <1>5, <2>4
<1> QED
  BY <1>6

\* Digits spell the number that Decode reads from them, and no other: where two
\* readings first differ they have read the same digits before.
LEMMA DecodeReads ==
  ASSUME NEW c, Len(c) \in Nat, NEW x, Spells(c, x)
  PROVE  Decode(c) = x
<1>1. PICK v \in [0..Len(c) -> Nat] :
        /\ v[0] = 0 /\ v[Len(c)] = x
        /\ \A k \in 1..Len(c) : v[k] = v[k - 1] * Base + c[k]
  BY DEF Spells
<1> DEFINE Reads(u) == u = [k \in 0..Len(c) |-> IF k = 0 THEN 0 ELSE u[k - 1] * Base + c[k]]
           read == CHOOSE u : Reads(u)
<1>2. Reads(v)
  <2>1. \A k \in 0..Len(c) : k = 0 \/ k \in 1..Len(c)
    OBVIOUS
  <2>2. \A k \in 0..Len(c) : v[k] = IF k = 0 THEN 0 ELSE v[k - 1] * Base + c[k]
    BY <1>1, <2>1
  <2> QED
    BY <2>2
<1>3. Decode(c) = read[Len(c)]
  BY DEF Decode
<1>4. Reads(read)
  <2> HIDE DEF Reads
  <2> QED
    BY <1>2
<1> HIDE DEF read
<1>5. /\ read[0] = 0
      /\ \A k \in 1..Len(c) : read[k] = read[k - 1] * Base + c[k]
  <2>1. 0 \in 0..Len(c) /\ \A k \in 1..Len(c) : k \in 0..Len(c) /\ k # 0
    OBVIOUS
  <2> QED
    BY <1>4, <2>1
<1> DEFINE Differ == {k \in 0..Len(c) : v[k] # read[k]}
<1>6. Differ = {}
  <2> SUFFICES ASSUME Differ # {} PROVE FALSE
    OBVIOUS
  <2>1. PICK k \in Differ : \A l \in Differ : k <= l
    <3> HIDE DEF Differ
    <3>1. Differ \subseteq 0..Len(c)
      BY DEF Differ
    <3> QED
      BY <3>1, LeastElement
  <2>2. k \in 1..Len(c) /\ k - 1 \in 0..Len(c) /\ ~(k <= k - 1)
    BY <1>1, <1>5
  <2>3. v[k - 1] = read[k - 1]
    BY <2>1, <2>2
  <2> QED
    BY <1>1, <1>5, <2>2, <2>3
<1>7. Len(c) \in 0..Len(c)
  OBVIOUS
<1> QED
  BY <1>1, <1>3, <1>6, <1>7

\* When nothing is left, the result is a code of the number.
LEMMA QuotientsDecode ==
  ASSUME Quotients
  PROVE  Decodable
<1> SUFFICES ASSUME n = 0
             PROVE  Decode(Result) = arg /\ \A k \in DOMAIN Result : Result[k] \in Digits
  BY DEF Decodable
<1>1. Len(Result) \in Nat
  <2>1. buf \in Seq(Digits) /\ i \in 0..BufLen /\ BufLen \in Nat /\ Len(buf) = BufLen
    <3>1. buf \in [1..BufLen -> Digits] /\ i \in 0..BufLen /\ BufLen \in Nat
      BY Base62Constants DEF Quotients, Fits
    <3> QED
      BY <3>1
  <2>2. Len(SubSeq(buf, i + 1, BufLen)) \in Nat /\ Len(<<0>>) \in Nat
    BY <2>1
  <2> QED
    BY <2>2 DEF Result
<1> HIDE DEF Result
<1> QED
  BY <1>1, QuotientsSpell, DecodeReads

\* The code of every number up to the largest decodes to the number, in digits
\* of the alphabet; so no two numbers have the same code.
THEOREM CodesDecode == Spec => []Decodable
<1>1. Init => Quotients
  BY QuotientsCall DEF Init, Called
<1>2. Quotients /\ [Digit]_vars => Quotients'
  BY QuotientsDigit, QuotientsKept
<1>3. Quotients => Decodable
  BY QuotientsDecode
<1> QED
  BY <1>1, <1>2, <1>3, PTL DEF Spec

-----------------------------------------------------------------------------
(* A request's input, from the body to the rows.                           *)

\* The steps before anything is known of the code, and before any row.
BeforeCode == {"body", "url", "expiry", "key", "code"}
BeforeRow  == BeforeCode \cup {"insert"}

\* Each part of the input is what its check let pass.
PartsInv ==
  /\ at \in Steps /\ stored \in Int /\ life \in 0..MaxExpiry
  /\ custom = NoCode \/ (custom \in CodeInputs /\ ValidCode(custom))
  /\ at \in BeforeCode => custom = NoCode

\* The loop is where its quotients say, and has ended when its result is used.
LoopInv ==
  /\ Quotients
  /\ arg \in 0..MaxUint /\ n <= arg
  /\ at = "name" => n = 0

\* At most one row, which has the custom code, or the generated one, or none
\* as long as there was no SetCode.
Named(r) ==
  \/ custom # NoCode /\ r = Row(custom.text, <<>>)
  \/ r = Row("", <<>>)
  \/ r = Row("", Result) /\ n = 0

RowsInv ==
  /\ at \in BeforeRow => rows = {}
  /\ at \in {"encode", "name"} => custom = NoCode /\ rows = {Row("", <<>>)}
  /\ rows = {} \/ \E r : rows = {r} /\ Named(r)

InputInv == PartsInv /\ LoopInv /\ RowsInv

\* The constants, and what is an accepted custom code.
LEMMA Bounds ==
  /\ Base \in Nat /\ Base >= 2 /\ MaxUint \in Nat /\ BufLen \in Nat
  /\ MaxURL \in Nat /\ Prefix \in Nat /\ MaxExpiry \in Nat
  /\ Half \in Nat /\ Half > 0
  /\ Growths \subseteq Int /\ Units \subseteq Nat
<1>1. Base \in Nat /\ Base >= 2 /\ MaxUint \in Nat /\ BufLen \in Nat
  BY Base62Constants
<1>2. /\ MaxURL \in Nat /\ Prefix \in Nat /\ MaxExpiry \in Nat
      /\ Half \in Nat /\ Half > 0
      /\ Growths \subseteq Int /\ Units \subseteq Nat
  BY InputConstants
<1> QED
  BY <1>1, <1>2

\* A product wraps to a machine integer.
LEMMA WrapInRange ==
  ASSUME NEW x \in Int
  PROVE  Wrap(x) \in (-Half)..(Half - 1)
<1>1. /\ (x + Half) \in Int /\ 2 * Half \in Nat /\ 2 * Half > 0 /\ Half \in Nat
  BY Bounds
<1>2. (x + Half) % (2 * Half) \in 0..(2 * Half - 1)
  <2> DEFINE y == x + Half
             b == 2 * Half
  <2> HIDE DEF y, b
  <2>1. y % b \in 0..(b - 1)
    BY <1>1 DEF y, b
  <2> QED
    BY <2>1 DEF y, b
<1> QED
  BY <1>1, <1>2 DEF Wrap

\* A step that only looks at the input leaves the rows and the loop alone.
LEMMA LoopKept ==
  ASSUME LoopInv, UNCHANGED vars, at' # "name"
  PROVE  LoopInv'
<1>1. arg' = arg /\ n' = n /\ i' = i /\ buf' = buf
  BY DEF vars
<1>2. Quotients'
  BY QuotientsKept DEF LoopInv
<1> QED
  BY <1>1, <1>2 DEF LoopInv

\* A step from a state without rows to one without rows keeps RowsInv.
LEMMA RowsKept ==
  ASSUME rows' = {}, at' \notin {"encode", "name"}
  PROVE  RowsInv'
BY DEF RowsInv

\* An error before the first row is inserted ends the request.
LEMMA AnswerStep ==
  ASSUME InputInv, at \in BeforeRow, NEW s, NEW e, Answer(s, e)
  PROVE  InputInv'
<1>1. /\ at' = "done" /\ stored' = stored /\ life' = life /\ custom' = custom
      /\ rows' = {} /\ UNCHANGED vars
  BY DEF Answer, InputInv, RowsInv
<1>2. PartsInv'
  BY <1>1 DEF InputInv, PartsInv, Steps, BeforeCode
<1>3. LoopInv'
  BY <1>1, LoopKept DEF InputInv
<1>4. RowsInv'
  BY <1>1, RowsKept
<1> QED
  BY <1>2, <1>3, <1>4 DEF InputInv

\* A step to the next check keeps the invariant when it keeps PartsInv.
LEMMA GotoStep ==
  ASSUME InputInv, at \in BeforeRow, NEW s, s \in BeforeRow, Goto(s), UNCHANGED vars,
         PartsInv'
  PROVE  InputInv'
<1>1. at' = s /\ rows' = {} /\ at' \notin {"encode", "name"}
  BY DEF Goto, InputInv, RowsInv, BeforeRow, BeforeCode
<1>2. LoopInv'
  BY <1>1, LoopKept DEF InputInv
<1>3. RowsInv'
  BY <1>1, RowsKept
<1> QED
  BY <1>2, <1>3 DEF InputInv

\* At the start nothing is known, and the loop has not run.
LEMMA InputInit == Start => InputInv
<1> SUFFICES ASSUME Start PROVE InputInv
  OBVIOUS
<1>1. /\ at = "body" /\ stored = 0 /\ life = 0 /\ custom = NoCode /\ rows = {}
      /\ arg = 0 /\ n = 0 /\ i = BufLen /\ buf = [k \in 1..BufLen |-> 0]
  BY DEF Start
<1>2. PartsInv
  BY <1>1, Bounds DEF PartsInv, Steps
<1>3. LoopInv
  BY <1>1, Bounds, QuotientsCall DEF LoopInv, Called
<1>4. RowsInv
  BY <1>1 DEF RowsInv
<1> QED
  BY <1>2, <1>3, <1>4 DEF InputInv

\* The body is only read.
LEMMA BodyStep == InputInv /\ Body => InputInv'
<1> SUFFICES ASSUME InputInv, Body PROVE InputInv'
  OBVIOUS
<1>1. at = "body" /\ at \in BeforeRow
  BY DEF Body, BeforeRow, BeforeCode
<1>2. CASE Answer(413, "body_too_large") \/ Answer(400, "invalid_json")
  BY <1>1, <1>2, AnswerStep
<1>3. CASE Goto("url") /\ UNCHANGED <<stored, life, custom, vars>>
  <2>1. PartsInv'
    BY <1>1, <1>3 DEF InputInv, PartsInv, Goto, Steps, BeforeCode
  <2> QED
    BY <1>1, <1>3, <2>1, GotoStep DEF BeforeRow, BeforeCode
<1> QED
  BY <1>2, <1>3 DEF Body

\* The length of the URL that is stored is a number, whatever was sent.
LEMMA ValidateURLStep == InputInv /\ ValidateURL => InputInv'
<1> SUFFICES ASSUME InputInv, ValidateURL PROVE InputInv'
  OBVIOUS
<1>1. at = "url" /\ at \in BeforeRow
  BY DEF ValidateURL, BeforeRow, BeforeCode
<1>2. PICK u \in RawURLs :
        \/ u.len = 0 /\ Answer(400, "url_invalid")
        \/ u.len > MaxURL /\ Answer(400, "url_too_long")
        \/ /\ u.len \in 1..MaxURL
           /\ \/ /\ ~u.parses \/ u.scheme = "other" \/ u.host = "none"
                 /\ Answer(400, "url_invalid")
              \/ /\ u.parses /\ u.scheme # "other"
                 /\ \/ u.host = "own" /\ Answer(400, "self_reference")
                    \/ /\ u.host = "else"
                       /\ \E g \in Growths :
                            stored' = u.len + g + IF u.scheme = "none" THEN Prefix ELSE 0
                       /\ Goto("expiry") /\ UNCHANGED <<life, custom, vars>>
  BY DEF ValidateURL
<1>3. CASE \E s, e : Answer(s, e)
  BY <1>1, <1>3, AnswerStep
<1>4. CASE /\ \E g \in Growths :
                stored' = u.len + g + IF u.scheme = "none" THEN Prefix ELSE 0
           /\ Goto("expiry") /\ UNCHANGED <<life, custom, vars>>
  <2>1. u.len \in Int
    BY Bounds DEF RawURLs
  <2>2. stored' \in Int
    BY <1>4, <2>1, Bounds
  <2>3. PartsInv'
    BY <1>1, <1>4, <2>2 DEF InputInv, PartsInv, Goto, Steps, BeforeCode
  <2> QED
    BY <1>1, <1>4, <2>3, GotoStep DEF BeforeRow, BeforeCode
<1> QED
  BY <1>2, <1>3, <1>4

\* Whatever the product has become, what is stored is in range.
LEMMA ParseExpiryStep == InputInv /\ ParseExpiry => InputInv'
<1> SUFFICES ASSUME InputInv, ParseExpiry PROVE InputInv'
  OBVIOUS
<1>1. at = "expiry" /\ at \in BeforeRow
  BY DEF ParseExpiry, BeforeRow, BeforeCode
<1>2. CASE \E s, e : Answer(s, e)
  BY <1>1, <1>2, AnswerStep
<1>3. CASE /\ life' \in 0..MaxExpiry
           /\ Goto("key") /\ UNCHANGED <<stored, custom, vars>>
  <2>1. PartsInv'
    BY <1>1, <1>3 DEF InputInv, PartsInv, Goto, Steps, BeforeCode
  <2> QED
    BY <1>1, <1>3, <2>1, GotoStep DEF BeforeRow, BeforeCode
<1>4. CASE life' = 0 /\ Goto("key") /\ UNCHANGED <<stored, custom, vars>>
  BY <1>3, <1>4, Bounds
<1>5. ASSUME NEW k \in 0..(Half - 1), NEW unit \in Units,
             InRange(Wrap(k * unit)), life' = Wrap(k * unit),
             Goto("key"), UNCHANGED <<stored, custom, vars>>
      PROVE  InputInv'
  <2>1. k * unit \in Int
    <3>1. k \in Int /\ unit \in Int
      BY Bounds
    <3> QED
      BY <3>1
  <2>2. life' \in Int
    BY <1>5, <2>1, WrapInRange, Bounds
  <2>3. life' \in 0..MaxExpiry
    BY <1>5, <2>2, Bounds DEF InRange
  <2> QED
    BY <1>3, <1>5, <2>3
<1> QED
  BY <1>2, <1>4, <1>5 DEF ParseExpiry

\* The key is only looked at.
LEMMA CheckKeyStep == InputInv /\ CheckKey => InputInv'
<1> SUFFICES ASSUME InputInv, CheckKey PROVE InputInv'
  OBVIOUS
<1>1. at = "key" /\ at \in BeforeRow
  BY DEF CheckKey, BeforeRow, BeforeCode
<1>2. CASE \E s, e : Answer(s, e)
  BY <1>1, <1>2, AnswerStep
<1>3. CASE Goto("code") /\ UNCHANGED <<stored, life, custom, vars>>
  <2>1. PartsInv'
    BY <1>1, <1>3 DEF InputInv, PartsInv, Goto, Steps, BeforeCode
  <2> QED
    BY <1>1, <1>3, <2>1, GotoStep DEF BeforeRow, BeforeCode
<1> QED
  BY <1>2, <1>3 DEF CheckKey

\* A custom code is kept when it is valid.
LEMMA CheckCodeStep == InputInv /\ CheckCode => InputInv'
<1> SUFFICES ASSUME InputInv, CheckCode PROVE InputInv'
  OBVIOUS
<1>1. at = "code" /\ at \in BeforeRow /\ custom = NoCode
  BY DEF CheckCode, BeforeRow, BeforeCode, InputInv, PartsInv
<1>2. CASE \E s, e : Answer(s, e)
  BY <1>1, <1>2, AnswerStep
<1>3. CASE /\ custom' = NoCode \/ (custom' \in CodeInputs /\ ValidCode(custom'))
           /\ Goto("insert") /\ UNCHANGED <<stored, life, vars>>
  <2>1. ValidCode(custom)' <=> ValidCode(custom')
    BY DEF ValidCode
  <2>2. PartsInv'
    BY <1>1, <1>3, <2>1 DEF InputInv, PartsInv, Goto, Steps, BeforeCode
  <2> QED
    BY <1>1, <1>3, <2>2, GotoStep DEF BeforeRow, BeforeCode
<1>4. CASE Goto("insert") /\ UNCHANGED <<stored, life, custom, vars>>
  BY <1>1, <1>3, <1>4
<1>5. ASSUME NEW w \in CodeInputs, ValidCode(w), custom' = w, Goto("insert"),
             UNCHANGED <<stored, life, vars>>
      PROVE  InputInv'
  BY <1>3, <1>5
<1> QED
  BY <1>2, <1>4, <1>5 DEF CheckCode

\* The row is inserted, with its custom code or with none yet.
LEMMA InsertStep == InputInv /\ Insert => InputInv'
<1> SUFFICES ASSUME InputInv, Insert PROVE InputInv'
  OBVIOUS
<1>1. at = "insert" /\ at \in BeforeRow /\ rows = {}
  BY DEF Insert, BeforeRow, BeforeCode, InputInv, RowsInv
<1>2. CASE \E s, e : Answer(s, e)
  BY <1>1, <1>2, AnswerStep
<1>3. CASE /\ custom # NoCode /\ rows' = rows \cup {Row(custom.text, <<>>)}
           /\ at' = "done" /\ UNCHANGED <<stored, life, custom, vars>>
  <2>1. PartsInv'
    BY <1>1, <1>3 DEF InputInv, PartsInv, Steps, BeforeCode
  <2>2. LoopInv'
    BY <1>3, LoopKept DEF InputInv
  <2>3. /\ rows' = {Row(custom.text, <<>>)} /\ custom' = custom
        /\ Row(custom.text, <<>>)' = Row(custom.text, <<>>)
    BY <1>1, <1>3 DEF Row
  <2>4. RowsInv'
    BY <1>3, <2>3 DEF RowsInv, Named, BeforeRow, BeforeCode
  <2> QED
    BY <2>1, <2>2, <2>4 DEF InputInv
<1>4. ASSUME NEW id \in 1..MaxUint, Call(id), custom = NoCode,
             rows' = rows \cup {Row("", <<>>)}, at' = "encode",
             UNCHANGED <<stored, life, custom, status>>
      PROVE  InputInv'
  <2>1. PartsInv'
    BY <1>1, <1>4 DEF InputInv, PartsInv, Steps, BeforeCode
  <2>2. /\ arg' = id /\ n' = id /\ i' = BufLen /\ buf' = [k \in 1..BufLen |-> 0]
        /\ id \in 0..MaxUint /\ id \in Nat
    <3>1. id \in 0..MaxUint /\ id \in Nat
      BY Bounds
    <3>2. arg' = id /\ n' = id /\ i' = BufLen /\ buf' = [k \in 1..BufLen |-> 0]
      BY <1>4 DEF Call
    <3> QED
      BY <3>1, <3>2
  <2>3. Quotients'
    <3>1. Called'
      BY <2>2 DEF Called
    <3>2. (Called => Quotients)'
      BY QuotientsCall, PTL
    <3> QED
      BY <3>1, <3>2
  <2>4. LoopInv'
    <3>1. at' # "name"
      BY <1>4
    <3>2. n' <= arg'
      <4>1. arg' = id /\ n' = id /\ id \in Nat
        BY <2>2
      <4> QED
        BY <4>1
    <3> QED
      BY <2>2, <2>3, <3>1, <3>2 DEF LoopInv
  <2>5. rows' = {Row("", <<>>)} /\ Row("", <<>>)' = Row("", <<>>) /\ custom' = NoCode
    BY <1>1, <1>4 DEF Row
  <2>6. RowsInv'
    BY <1>4, <2>5 DEF RowsInv, Named, BeforeRow, BeforeCode
  <2> QED
    BY <2>1, <2>4, <2>6 DEF InputInv
<1> QED
  BY <1>2, <1>3, <1>4 DEF Insert

\* A round of the loop, or its end.
LEMMA EncodeStep == InputInv /\ Encode => InputInv'
<1> SUFFICES ASSUME InputInv, Encode PROVE InputInv'
  OBVIOUS
<1>1. /\ at = "encode" /\ custom = NoCode /\ rows = {Row("", <<>>)}
      /\ n \in Nat /\ arg \in 0..MaxUint /\ n <= arg /\ Quotients
  BY DEF Encode, InputInv, RowsInv, LoopInv, Quotients, Fits
<1>2. CASE Digit /\ UNCHANGED <<input, rows, status>>
  <2>1. /\ at' = at /\ stored' = stored /\ life' = life /\ custom' = custom
        /\ rows' = rows
    BY <1>2 DEF input
  <2>2. PartsInv'
    BY <2>1 DEF InputInv, PartsInv, ValidCode
  <2>3. arg' = arg /\ n' = n \div Base /\ Quotients'
    BY <1>1, <1>2, QuotientsDigit DEF Digit
  <2>4. n' \in Nat /\ n' <= n
    <3>1. n \in Nat
      BY <1>1
    <3>2. n \div Base \in Nat /\ n \div Base <= n
      BY <3>1, DivAtMost
    <3> QED
      BY <2>3, <3>2
  <2>5. LoopInv'
    <3>1. n \in Nat /\ n <= arg /\ arg \in 0..MaxUint
      BY <1>1
    <3>2. n' <= arg' /\ arg' \in 0..MaxUint
      <4>1. arg' = arg /\ n' \in Nat /\ n' <= n /\ arg \in Nat
        BY <2>3, <2>4, <3>1, Bounds
      <4> QED
        BY <3>1, <4>1
    <3>3. at' # "name"
      BY <1>1, <2>1
    <3> QED
      BY <2>3, <3>2, <3>3 DEF LoopInv
  <2>6. rows' = {Row("", <<>>)} /\ Row("", <<>>)' = Row("", <<>>)
    BY <1>1, <2>1 DEF Row
  <2>7. RowsInv'
    BY <1>1, <2>1, <2>6 DEF RowsInv, Named, BeforeRow, BeforeCode
  <2> QED
    BY <2>2, <2>5, <2>7 DEF InputInv
<1>3. CASE ~More /\ Goto("name") /\ UNCHANGED <<stored, life, custom, vars>>
  <2>1. /\ at' = "name" /\ rows' = rows /\ custom' = custom /\ life' = life
        /\ stored' = stored /\ n' = n /\ arg' = arg
    BY <1>3 DEF Goto, vars
  <2>2. PartsInv'
    BY <2>1 DEF InputInv, PartsInv, ValidCode, Steps, BeforeCode
  <2>3. n = 0
    <3>1. n \in Nat /\ ~(n > 0)
      BY <1>1, <1>3 DEF More
    <3> QED
      BY <3>1
  <2>4. Quotients'
    BY <1>1, <1>3, QuotientsKept
  <2>5. LoopInv'
    BY <1>1, <2>1, <2>3, <2>4 DEF LoopInv
  <2>6. rows' = {Row("", <<>>)} /\ Row("", <<>>)' = Row("", <<>>)
    BY <1>1, <2>1 DEF Row
  <2>7. RowsInv'
    BY <1>1, <2>1, <2>6 DEF RowsInv, Named, BeforeRow, BeforeCode
  <2> QED
    BY <2>2, <2>5, <2>7 DEF InputInv
<1> QED
  BY <1>2, <1>3 DEF Encode

\* What a row is made of.
LEMMA RowFields ==
  ASSUME NEW t, NEW d
  PROVE  Row(t, d).text = t /\ Row(t, d).digits = d /\ Row(t, d).life = life
BY DEF Row

\* The rows that RowsInv allows: what is said of them follows from their fields.
LEMMA NamedFields ==
  ASSUME NEW r, Named(r)
  PROVE  /\ r.life = life
         /\ r.text = "" \/ (custom # NoCode /\ r.text = custom.text)
         /\ r.digits = <<>> \/ (r.digits = Result /\ n = 0)
<1>1. CASE custom # NoCode /\ r = Row(custom.text, <<>>)
  BY <1>1, RowFields
<1>2. CASE r = Row("", <<>>)
  BY <1>2, RowFields
<1>3. CASE r = Row("", Result) /\ n = 0
  BY <1>3, RowFields
<1> QED
  BY <1>1, <1>2, <1>3 DEF Named

\* The row gets its generated code, unless SetCode fails.
LEMMA NameStep == InputInv /\ Name => InputInv'
<1> SUFFICES ASSUME InputInv, Name PROVE InputInv'
  OBVIOUS
<1>1. /\ at = "name" /\ custom = NoCode /\ rows = {Row("", <<>>)} /\ n = 0
      /\ at' = "done" /\ stored' = stored /\ life' = life /\ custom' = custom
      /\ UNCHANGED vars
  BY DEF Name, InputInv, RowsInv, LoopInv
<1>2. PartsInv'
  BY <1>1 DEF InputInv, PartsInv, ValidCode, Steps, BeforeCode
<1>3. LoopInv'
  BY <1>1, LoopKept DEF InputInv
<1>4. n' = 0 /\ Result' = Result /\ \A d : Row("", d)' = Row("", d')
  <2>1. arg' = arg /\ n' = n /\ i' = i /\ buf' = buf
    BY <1>1 DEF vars
  <2> QED
    BY <1>1, <2>1 DEF Result, Row
<1>5. rows' = rows \/ rows' = {Row("", Result)}
  <2>1. CASE rows' = {[r EXCEPT !.digits = Result] : r \in rows}
    <3>1. ASSUME NEW r, r = Row("", <<>>)
          PROVE  [r EXCEPT !.digits = Result] = Row("", Result)
      <4> DEFINE t == ""
                 c == <<>>
                 d == Result
      <4>1. r = Row(t, c)
        BY <3>1
      <4> HIDE DEF t, c, d
      <4>2. [r EXCEPT !.digits = d] = Row(t, d)
        BY <4>1 DEF Row
      <4> QED
        BY <4>2 DEF t, d
    <3>2. {[r EXCEPT !.digits = Result] : r \in {Row("", <<>>)}} = {Row("", Result)}
      BY <3>1
    <3> QED
      BY <1>1, <2>1, <3>2
  <2> QED
    BY <2>1 DEF Name
<1>6. RowsInv'
  BY <1>1, <1>4, <1>5 DEF RowsInv, Named, BeforeRow, BeforeCode
<1> QED
  BY <1>2, <1>3, <1>6 DEF InputInv

\* Every step of a request keeps the invariant.
LEMMA InputStep == InputInv /\ [Next]_all => InputInv'
<1> SUFFICES ASSUME InputInv, [Next]_all PROVE InputInv'
  OBVIOUS
<1>1. CASE Next
  BY <1>1, BodyStep, ValidateURLStep, ParseExpiryStep, CheckKeyStep, CheckCodeStep,
     InsertStep, EncodeStep, NameStep DEF Next
<1>2. CASE UNCHANGED all
  <2>1. /\ at' = at /\ stored' = stored /\ life' = life /\ custom' = custom
        /\ rows' = rows /\ UNCHANGED vars
    BY <1>2 DEF all, input
  <2>2. arg' = arg /\ n' = n /\ i' = i /\ buf' = buf
    BY <2>1 DEF vars
  <2>3. Quotients'
    BY <2>1, QuotientsKept DEF InputInv, LoopInv
  <2>4. LoopInv'
    BY <2>1, <2>2, <2>3 DEF InputInv, LoopInv
  <2>5. PartsInv'
    BY <2>1 DEF InputInv, PartsInv, ValidCode
  <2>6. RowsInv'
    BY <2>1, <2>2 DEF InputInv, RowsInv, Named, Row, Result
  <2> QED
    BY <2>4, <2>5, <2>6 DEF InputInv
<1> QED
  BY <1>1, <1>2

\* The invariant holds of every request.
LEMMA InputInvHolds == InputSpec => []InputInv
<1> QED
  BY InputInit, InputStep, PTL DEF InputSpec

\* Type correctness; above all, an expiry that is stored is positive and not
\* above the maximum, for every number and every width of the integers.
THEOREM TypeCorrect == InputSpec => []TypeOK
<1>1. InputInv => TypeOK
  <2> SUFFICES ASSUME InputInv PROVE TypeOK
    OBVIOUS
  <2>1. /\ at \in Steps /\ stored \in Int /\ life \in 0..MaxExpiry
        /\ custom \in CodeInputs \cup {NoCode}
    BY DEF InputInv, PartsInv
  <2>2. /\ arg \in 0..MaxUint /\ n \in Nat /\ n <= arg /\ i \in 0..BufLen
        /\ buf \in [1..BufLen -> Digits]
    BY DEF InputInv, LoopInv, Quotients, Fits
  <2>3. n \in 0..arg
    BY <2>2, Bounds
  <2>4. rows = {} \/ \E r : rows = {r} /\ r.life = life
    <3>1. \A r : Named(r) => r.life = life
      BY NamedFields
    <3> QED
      BY <3>1 DEF InputInv, RowsInv
  <2>5. Cardinality(rows) <= 1 /\ \A r \in rows : r.life = life
    <3>1. CASE rows = {}
      BY <3>1, FS_EmptySet
    <3>2. ASSUME NEW r, rows = {r}, r.life = life
          PROVE  Cardinality(rows) <= 1 /\ \A s \in rows : s.life = life
      <4>1. Cardinality({r}) = 1
        BY FS_Singleton
      <4> QED
        BY <3>2, <4>1
    <3> QED
      BY <2>4, <3>1, <3>2
  <2> QED
    BY <2>1, <2>2, <2>3, <2>5 DEF TypeOK
<1> QED
  BY InputInvHolds, <1>1, PTL

\* No accepted custom code is hidden but nginx_status, since the lower-case form
\* of every other hiding path is reserved.
THEOREM HiddenCodesAreRefused == InputSpec => []HiddenCodesRefused
<1>1. InputInv => HiddenCodesRefused
  <2> SUFFICES ASSUME InputInv, NEW r \in rows
               PROVE  r.text \notin Hidden \ {"nginx_status"}
    BY DEF HiddenCodesRefused
  <2> USE DEF Hidden, StaticRoutes, ProxyPaths
  <2>1. Named(r)
    BY DEF InputInv, RowsInv
  <2>2. r.text = "" \/ (custom # NoCode /\ r.text = custom.text)
    BY <2>1, NamedFields
  <2>3. CASE r.text = ""
    BY <2>3
  <2>4. CASE custom # NoCode /\ r.text = custom.text
    <3>1. custom \in CodeInputs /\ custom.lower \notin Reserved
      BY <2>4 DEF InputInv, PartsInv, ValidCode
    <3>2. custom.text \in Hidden \ {"nginx_status"} => custom.text \in Reserved
      BY DEF Reserved
    <3>3. custom.text \in Hidden => custom.lower = custom.text
      BY <3>1, LowerCase
    <3> QED
      BY <2>4, <3>1, <3>2, <3>3
  <2> QED
    BY <2>2, <2>3, <2>4
<1> QED
  BY InputInvHolds, <1>1, PTL

\* The loop that a create runs keeps to its buffer, too.
THEOREM CreateNeverOverrunsBuffer == InputSpec => []BufferSuffices
<1>1. InputInv => BufferSuffices
  BY FitsSuffices DEF InputInv, LoopInv, Quotients
<1> QED
  BY InputInvHolds, <1>1, PTL

\* The code that a create generates decodes to the id.
THEOREM CreateEncodes == InputSpec => []Decodable
<1>1. InputInv => Decodable
  BY QuotientsDecode DEF InputInv, LoopInv
<1> QED
  BY InputInvHolds, <1>1, PTL

\* A row with a generated code has that of its own id.
THEOREM RowsBearTheirCode ==
  InputSpec => [](\A r \in rows : r.digits # <<>> => Decode(r.digits) = arg)
<1>1. InputInv => \A r \in rows : r.digits # <<>> => Decode(r.digits) = arg
  <2> SUFFICES ASSUME InputInv, NEW r \in rows, r.digits # <<>>
               PROVE  Decode(r.digits) = arg
    OBVIOUS
  <2>1. Named(r)
    BY DEF InputInv, RowsInv
  <2>2. r.digits = Result /\ n = 0
    BY <2>1, NamedFields
  <2>3. Decodable
    BY QuotientsDecode DEF InputInv, LoopInv
  <2> QED
    BY <2>2, <2>3 DEF Decodable
<1> QED
  BY InputInvHolds, <1>1, PTL

=============================================================================
