----------------------------- MODULE DecimalText -----------------------------
(***************************************************************************)
(* PostgreSQL NUMERIC columns reach the services as JavaScript strings (no *)
(* entity or view column declares a transformer), so `>=` between two such *)
(* values compares characters, not amounts.  Amounts here are whole units: *)
(* every stored value ends in the same ".00", and "." sorts before digits. *)
(***************************************************************************)
EXTENDS Integers

\* Bound: the longest amount an instance may use has MaxDigits digits.
MaxDigits == 4

\* How many digits the text of the natural number n has.
Digits(n) == CHOOSE d \in 1..MaxDigits :
                /\ n < 10^d \/ d = MaxDigits
                /\ d = 1 \/ n >= 10^(d - 1)

\* n with its first digit moved to the leftmost of MaxDigits columns.
LeftAligned(n) == n * 10^(MaxDigits - Digits(n))

(***************************************************************************)
(* JavaScript's  x >= y  when both operands are decimal text.  A negative  *)
(* x starts with "-", which sorts before every digit.                      *)
(***************************************************************************)
TextGeq(x, y) ==
    /\ x >= 0
    /\ \/ LeftAligned(x) > LeftAligned(y)
       \/ LeftAligned(x) = LeftAligned(y) /\ Digits(x) >= Digits(y)

=============================================================================
