------------------------------ MODULE Decimals ------------------------------
(***************************************************************************)
(* The exact base-10 amounts of src/sdk/chains/base/src/decimal.rs: their  *)
(* normal form, order and arithmetic, their text, their binary parts, and  *)
(* their conversion to the atomic units of an asset.  Texts are sequences  *)
(* of characters, binary integers are sequences of bytes in base ByteBase  *)
(* (256 in the code).                                                      *)
(***************************************************************************)
EXTENDS Integers, Sequences, FiniteSets, FiniteSetsExt, SequencesExt

CONSTANTS
    Error,       \* the answer of a refused conversion
    ByteBase,    \* the number of values of a byte
    MaxWidth     \* bound: the longest number, in digits of any base

DigitChars == <<"0", "1", "2", "3", "4", "5", "6", "7", "8", "9">>
Digit == ToSet(DigitChars)

Abs(n) == IF n < 0 THEN -n ELSE n

\* The least number of digits, at least one, that writes n in base b.
Width(n, b) == Min({k \in 1..MaxWidth : n < b ^ k})

\* The digits of n in base b, the most significant first.
InBase(n, b) == [i \in 1..Width(n, b) |-> (n \div b ^ (Width(n, b) - i)) % b]

\* The integer a sequence of digits in base b writes.
FromBase(s, b) == FoldLeft(LAMBDA n, d : n * b + d, 0, s)

-----------------------------------------------------------------------------
\* Normal form: zero has scale 0, and no scaled number ends in a zero.

Normalize(c, s) ==
    LET k == Max({j \in 0..s : c % 10 ^ j = 0})
    IN  [coefficient |-> c \div 10 ^ k, scale |-> IF c = 0 THEN 0 ELSE s - k]

-----------------------------------------------------------------------------
\* Order and arithmetic.

\* The power of ten that bounds the magnitude from above.
Exponent(d) == Width(Abs(d.coefficient), 10) - d.scale

Sign(n) == IF n < 0 THEN -1 ELSE IF n = 0 THEN 0 ELSE 1

\* -1, 0 or 1: zeros first, then the exponents, then the coefficients at one scale.
CompareMagnitude(a, b) ==
    LET s == Max({a.scale, b.scale})
        At(d) == Abs(d.coefficient) * 10 ^ (s - d.scale)
    IN  IF a.coefficient = 0 \/ b.coefficient = 0
        THEN Sign(Abs(a.coefficient) - Abs(b.coefficient))
        ELSE IF Exponent(a) # Exponent(b) THEN Sign(Exponent(a) - Exponent(b))
        ELSE Sign(At(a) - At(b))

Compare(a, b) ==
    IF a.coefficient < 0
    THEN IF b.coefficient < 0 THEN CompareMagnitude(b, a) ELSE -1
    ELSE IF b.coefficient < 0 THEN 1 ELSE CompareMagnitude(a, b)

ScaledCoefficient(d, s) == d.coefficient * 10 ^ (s - d.scale)

CheckedAdd(a, b) ==
    LET s == Max({a.scale, b.scale})
    IN  Normalize(ScaledCoefficient(a, s) + ScaledCoefficient(b, s), s)

CheckedSub(a, b) ==
    LET s == Max({a.scale, b.scale})
    IN  Normalize(ScaledCoefficient(a, s) - ScaledCoefficient(b, s), s)

-----------------------------------------------------------------------------
\* Atomic units.

ValidateAmount(d) == d.coefficient >= 0

\* The amount in units of 10^-decimals: never rounded, never negative.
ToAtomic(d, decimals) ==
    IF ~ValidateAmount(d) THEN Error
    ELSE IF d.scale <= decimals THEN d.coefficient * 10 ^ (decimals - d.scale)
    ELSE LET divisor == 10 ^ (d.scale - decimals)
         IN  IF d.coefficient % divisor # 0 THEN Error ELSE d.coefficient \div divisor

FromAtomic(units, decimals) == Normalize(units, decimals)

\* The big-endian bytes in a field of width bytes (u64: 8, uint256: 32).
ToAtomicBytes(d, decimals, width) ==
    LET units == ToAtomic(d, decimals)
        bytes == InBase(units, ByteBase)
    IN  IF units = Error \/ Len(bytes) > width THEN Error
        ELSE [i \in 1..(width - Len(bytes)) |-> 0] \o bytes

-----------------------------------------------------------------------------
\* Parts, for storage without text.

Parts(d) ==
    [negative |-> d.coefficient < 0,
     magnitude |-> IF d.coefficient = 0 THEN <<>> ELSE InBase(Abs(d.coefficient), ByteBase),
     scale |-> d.scale]

\* Variant of FromParts that reads a negative zero.
FromAnyParts(p) ==
    IF p.magnitude # <<>> /\ Head(p.magnitude) = 0
    THEN Error
    ELSE LET n == FromBase(p.magnitude, ByteBase)
         IN  Normalize(IF p.negative THEN -n ELSE n, p.scale)

\* The bytes must be minimal, and zero must not be negative.
FromParts(p) ==
    IF (p.magnitude # <<>> /\ Head(p.magnitude) = 0) \/ (p.magnitude = <<>> /\ p.negative)
    THEN Error
    ELSE LET n == FromBase(p.magnitude, ByteBase)
         IN  Normalize(IF p.negative THEN -n ELSE n, p.scale)

-----------------------------------------------------------------------------
\* Text.

\* An optional sign, digits, and optionally a point and more digits; nothing else.
Parse(text) ==
    LET signed == text # <<>> /\ Head(text) \in {"-", "+"}
        unsigned == IF signed THEN Tail(text) ELSE text
        dots == {i \in DOMAIN unsigned : unsigned[i] = "."}
        digits == SelectSeq(unsigned, LAMBDA ch : ch # ".")
        n == FromBase([i \in DOMAIN digits |-> CHOOSE v \in 0..9 : DigitChars[v + 1] = digits[i]], 10)
        scale == IF dots = {} THEN 0 ELSE Len(unsigned) - Max(dots)
    IN  IF \/ Cardinality(dots) > 1
           \/ unsigned = <<>>
           \/ 1 \in dots \/ Len(unsigned) \in dots
           \/ ~(ToSet(digits) \subseteq Digit)
        THEN Error
        ELSE Normalize(IF Head(text) = "-" THEN -n ELSE n, scale)

\* The digits with a point before the last `scale` of them, padded with zeros so
\* that one digit is left of the point.
Display(d) ==
    LET n == InBase(Abs(d.coefficient), 10)
        digits == [i \in DOMAIN n |-> DigitChars[n[i] + 1]]
        padded == [i \in 1..(d.scale + 1 - Len(digits)) |-> "0"] \o digits
        whole == Len(padded) - d.scale
    IN  (IF d.coefficient < 0 THEN <<"-">> ELSE <<>>)
        \o SubSeq(padded, 1, whole)
        \o (IF d.scale = 0 THEN <<>> ELSE <<".">> \o SubSeq(padded, whole + 1, Len(padded)))

\* What a repository accepts as a stored amount: canonical text, and not negative
\* in the redb records.
DecodeStored(text) ==
    LET d == Parse(text)
    IN  IF d = Error \/ Display(d) # text \/ ~ValidateAmount(d) THEN Error ELSE d

-----------------------------------------------------------------------------
\* Requests to the operations, what they answer, and what the answers are
\* compared with: the rational numbers the texts and parts stand for.

DecimalRequests(chars, length, coefficients, scales) ==
    LET number == [coefficient : coefficients, scale : scales]
    IN  [what : {"text"}, text : SeqOf(chars, length)]
        \cup [what : {"pair"}, a : number, b : number]
        \cup [what : {"atomic"}, a : number, decimals : scales, width : 1..3]
        \cup [what : {"parts"},
              parts : [negative : BOOLEAN, magnitude : SeqOf(0..(ByteBase - 1), 2), scale : scales]]

CanonicalOf(d) == Normalize(d.coefficient, d.scale)

DecimalReply(request) ==
    CASE request.what = "text" -> <<Parse(request.text), DecodeStored(request.text)>>
      [] request.what = "pair" ->
           LET a == CanonicalOf(request.a)
               b == CanonicalOf(request.b)
           IN  <<Compare(a, b), CheckedAdd(a, b), CheckedSub(a, b), a, b, Parse(Display(a))>>
      [] request.what = "atomic" ->
           LET a == CanonicalOf(request.a)
           IN  <<ToAtomic(a, request.decimals), ToAtomicBytes(a, request.decimals, request.width)>>
      [] request.what = "parts" -> <<FromParts(request.parts)>>

\* Raw numbers compared as rationals.
LessThan(a, b) == a.coefficient * 10 ^ b.scale < b.coefficient * 10 ^ a.scale
SameValue(a, b) == a.coefficient * 10 ^ b.scale = b.coefficient * 10 ^ a.scale
Combined(a, b, s) ==
    [coefficient |-> a.coefficient * 10 ^ b.scale + s * b.coefficient * 10 ^ a.scale,
     scale |-> a.scale + b.scale]

\* Decimal::cmp orders by value and the derived equality is equality of value:
\* numbers that differ only in trailing zeros, or in the sign of zero, are one
\* Decimal; sums and differences are exact; and what is displayed parses back to
\* the same Decimal.
ArithmeticIsExact(request, reply) ==
    request.what = "pair" =>
        LET a == request.a
            b == request.b
        IN  /\ reply[1] = IF LessThan(a, b) THEN -1 ELSE IF SameValue(a, b) THEN 0 ELSE 1
            /\ reply[4] = reply[5] <=> SameValue(a, b)
            /\ SameValue(reply[2], Combined(a, b, 1)) /\ reply[2] = CanonicalOf(reply[2])
            /\ SameValue(reply[3], Combined(a, b, -1)) /\ reply[3] = CanonicalOf(reply[3])
            /\ reply[6] = reply[4]

\* The amount written by the digits of a text, from the weights of their places.
WrittenValue(text) ==
    LET digits == SelectSeq(text, LAMBDA ch : ch \in Digit)
        point == SelectInSeq(text, LAMBDA ch : ch = ".")
    IN  [coefficient |->
            (IF text[1] = "-" THEN -1 ELSE 1) *
            MapThenSumSet(LAMBDA i : (CHOOSE v \in 0..9 : DigitChars[v + 1] = digits[i])
                                     * 10 ^ (Len(digits) - i), DOMAIN digits),
         scale |-> IF point = 0 THEN 0 ELSE Len(text) - point]

\* A text is accepted exactly when it is a sign, digits and perhaps a point
\* between digits, and then it has the value its places give it.  Of the accepted
\* texts a repository stores exactly one for each amount: two stored texts of equal
\* value are the same text, and no other text is read back.
TextIsExact(request, reply) ==
    request.what = "text" =>
        LET t == request.text
            body == IF t # <<>> /\ t[1] \in {"+", "-"} THEN Tail(t) ELSE t
        IN  /\ reply[1] # Error <=>
                  \E k \in 1..Len(body) :
                      /\ \A i \in 1..k : body[i] \in Digit
                      /\ k = Len(body) \/ (/\ body[k + 1] = "."
                                           /\ k + 1 < Len(body)
                                           /\ \A i \in (k + 2)..Len(body) : body[i] \in Digit)
            /\ reply[1] # Error => SameValue(reply[1], WrittenValue(t))
            /\ reply[2] # Error <=>
                  /\ reply[1] # Error
                  /\ body = t
                  /\ Len(t) > 1 /\ t[1] = "0" => t[2] = "."
                  /\ Len(t) > 1 /\ Last(t) = "0" => \A i \in DOMAIN t : t[i] # "."

\* An amount converts to the atomic units of an asset exactly when it is a
\* non-negative whole number of them, converts back to itself, and fits a field of
\* the given width exactly when its value does: it is never rounded, truncated or
\* wrapped.
AtomicIsExact(request, reply) ==
    request.what = "atomic" =>
        LET a == request.a
            units == reply[1]
            whole == (a.coefficient * 10 ^ request.decimals) % 10 ^ a.scale = 0
        IN  /\ units # Error <=> (a.coefficient >= 0 /\ whole)
            /\ units # Error =>
                  /\ units * 10 ^ a.scale = a.coefficient * 10 ^ request.decimals
                  /\ FromAtomic(units, request.decimals) = CanonicalOf(a)
                  /\ reply[2] # Error <=> units < ByteBase ^ request.width
            /\ reply[2] # Error =>
                  /\ Len(reply[2]) = request.width
                  /\ FromBase(reply[2], ByteBase) = units

\* Stored parts are refused when they are not the minimal bytes of a number or are
\* a negative zero, and parts that are accepted stand for one Decimal, whose own
\* parts read back as itself.
PartsAreExact(request, reply) ==
    request.what = "parts" =>
        LET p == request.parts
            d == reply[1]
        IN  /\ d = Error <=> \/ p.magnitude # <<>> /\ p.magnitude[1] = 0
                             \/ p.magnitude = <<>> /\ p.negative
            /\ d # Error =>
                  /\ SameValue(d, [coefficient |-> (IF p.negative THEN -1 ELSE 1)
                                               * FromBase(p.magnitude, ByteBase),
                               scale |-> p.scale])
                  /\ FromParts(Parts(d)) = d
=============================================================================
