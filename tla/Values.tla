------------------------------- MODULE Values -------------------------------
(***************************************************************************)
(* The value-level arithmetic of the evaluator                             *)
(* (src/src/compiler/Evaluator.rs): i32 arithmetic at a configurable width *)
(* IntBits, the overflow behaviour of the build, and the conversions       *)
(* between Int32 and String values.                                        *)
(***************************************************************************)
EXTENDS Integers, Sequences, BoundTree
LOCAL INSTANCE Bitwise

CONSTANTS
    IntBits,        \* width of the model's i32 (32 in the code)
    OverflowChecks  \* TRUE: overflowing + - * and unary - panic (debug build)
                    \* FALSE: they wrap (release build)

MinInt   == -(2 ^ (IntBits - 1))
MaxInt   == 2 ^ (IntBits - 1) - 1
IntRange == MinInt .. MaxInt

\* Results of an operation: a value, Err(()), or a Rust panic.
Ok(v)    == [res |-> "ok", val |-> v]
ErrR     == [res |-> "err", val |-> NullV]
PanicR   == [res |-> "panic", val |-> NullV]

\* Two's complement reinterpretation, as `as i32` / `as u32` do.
ToUnsigned(x) == x % (2 ^ IntBits)
ToSigned(u)   == IF u > MaxInt THEN u - 2 ^ IntBits ELSE u
WrapInt(x)    == ToSigned(ToUnsigned(x))

\* An exact result that overflows i32 panics or wraps, by build profile.
Checked(exact) ==
    IF exact \in IntRange THEN Ok(Int32(exact))
    ELSE IF OverflowChecks THEN PanicR ELSE Ok(Int32(WrapInt(exact)))

AbsInt(x) == IF x < 0 THEN -x ELSE x

\* Rust `/` on i32 rounds toward zero; a zero divisor and MIN / -1 always panic.
Quotient(l, r) ==
    IF (l >= 0) = (r > 0) THEN AbsInt(l) \div AbsInt(r)
    ELSE -(AbsInt(l) \div AbsInt(r))
DivideInt(l, r) ==
    IF r = 0 \/ (l = MinInt /\ r = -1) THEN PanicR ELSE Ok(Int32(Quotient(l, r)))

\* The Int32 arms of EvaluateBinaryExpression that produce an Int32.
IntArithmetic(op, l, r) ==
    CASE op = "Addition"       -> Checked(l + r)
      [] op = "Subtraction"    -> Checked(l - r)
      [] op = "Multiplication" -> Checked(l * r)
      [] op = "Division"       -> DivideInt(l, r)
      [] op = "BitwiseAnd"     -> Ok(Int32(ToSigned(ToUnsigned(l) & ToUnsigned(r))))
      [] op = "BitwiseOr"      -> Ok(Int32(ToSigned(ToUnsigned(l) | ToUnsigned(r))))
      [] op = "BitwiseXor"     -> Ok(Int32(ToSigned(ToUnsigned(l) ^^ ToUnsigned(r))))

IntArithmeticOps ==
    {"Addition", "Subtraction", "Multiplication", "Division",
     "BitwiseAnd", "BitwiseOr", "BitwiseXor"}

\* EvaluateUnaryExpression on an Int32 operand: Identity, Negation (-i), OnesComplement (!i).
IntUnary(op, i) ==
    CASE op = "Identity"       -> Ok(Int32(i))
      [] op = "Negation"       -> Checked(-i)
      [] op = "OnesComplement" -> Ok(Int32(-i - 1))

(***************************************************************************)
(* i.to_string(): the decimal text of an i32, as byte codes.               *)
(***************************************************************************)
RECURSIVE Digits(_)
Digits(n) == IF n < 10 THEN << 48 + n >> ELSE Digits(n \div 10) \o << 48 + (n % 10) >>
DecimalText(n) == IF n < 0 THEN << 45 >> \o Digits(-n) ELSE Digits(n)

TrueText  == << 116, 114, 117, 101 >>          \* "true"
FalseText == << 102, 97, 108, 115, 101 >>      \* "false"

(***************************************************************************)
(* String -> Int in EvaluateConversionExpression: Err unless every byte is *)
(* a digit; the u64 sum of digit * 10^(len-i-1); then `sum as i32`, which *)
(* keeps the low IntBits bits.  The empty string converts to 0.            *)
(***************************************************************************)
RECURSIVE DigitSum(_)
DigitSum(s) == IF s = << >> THEN 0
               ELSE (Head(s) - 48) * 10 ^ (Len(s) - 1) + DigitSum(Tail(s))
ParseDecimal(s) ==
    IF \E i \in 1 .. Len(s) : s[i] < 48 \/ s[i] > 57 THEN ErrR
    ELSE Ok(Int32(WrapInt(DigitSum(s))))

\* EvaluateUnaryExpression once the operand is unwrapped.
UnaryValue(op, v) ==
    CASE v.t = "Int32" /\ op # "LogicalNegation" -> IntUnary(op, v.v)
      [] v.t = "Bool" /\ op = "LogicalNegation"  -> Ok(BoolV(~v.v))
      [] OTHER -> ErrR

\* EvaluateConversionExpression once the operand is unwrapped.
ConversionValue(type, v) ==
    CASE type = "Bool" /\ v.t = "Bool"     -> Ok(v)
      [] type = "Bool" /\ v.t = "String"   -> Ok(BoolV(v.v = TrueText))
      [] type = "Int" /\ v.t = "Int32"     -> Ok(v)
      [] type = "Int" /\ v.t = "String"    -> ParseDecimal(v.v)
      [] type = "String" /\ v.t = "Int32"  -> Ok(Str(DecimalText(v.v)))
      [] type = "String" /\ v.t = "Bool"   -> Ok(Str(IF v.v THEN TrueText ELSE FalseText))
      [] type = "String" /\ v.t = "String" -> Ok(v)
      [] OTHER -> ErrR

====
