------------------------------ MODULE TokenDates ------------------------------
(***************************************************************************)
(* The time checks of core/src/jwt.rs: numeric_date and                    *)
(* check_validity_dates, over signed integers of any width.                *)
(*                                                                         *)
(* A JSON number is the double of its value (halves are all the rounding   *)
(* can tell apart) and the form serde_json gives it: an integer that fits  *)
(* i64 or u64, or a float.                                                 *)
(***************************************************************************)
EXTENDS Integers

CONSTANTS
    I64_MAX,    \* the largest i64
    Absent,     \* a claim that is not in the token
    Invalid     \* Err(ClaimExpired) of numeric_date

ASSUME I64Assumption == I64_MAX \in Nat \ {0}

I64_MIN == -I64_MAX - 1
I64     == I64_MIN .. I64_MAX

Integer == [form: {"integer"}, double: {2 * v : v \in I64_MIN .. 2 * I64_MAX + 1}]
Float   == [form: {"float"}, double: Int]
Other   == [form: {"other"}, double: {0}]    \* a string, an array, ...
Claim   == Integer \cup Float \cup Other

ASSUME AbsentAssumption == Absent \notin Claim \cup Int
ASSUME InvalidAssumption == Invalid \notin Int \cup {Absent}

\* `as i64` of a float saturates.
Saturate(v) == IF v > I64_MAX THEN I64_MAX ELSE IF v < I64_MIN THEN I64_MIN ELSE v

wrapping_add(a, b) == ((a + b - I64_MIN) % (2 * (I64_MAX + 1))) + I64_MIN

saturating_add(a, b) == Saturate(a + b)
saturating_sub(a, b) == Saturate(a - b)

\* f64::round of half the double: half-way cases go away from zero.
Round(double) == IF double >= 0 THEN (double + 1) \div 2 ELSE -((1 - double) \div 2)

\* `i64::MAX as f64` is one more than i64::MAX.
FloatInRange(double) == 2 * I64_MIN <= double /\ double <= 2 * (I64_MAX + 1)

\* Absent, Invalid or an i64.
numeric_date(value) ==
    IF value = Absent THEN Absent
    ELSE CASE value.form = "integer" -> IF value.double <= 2 * I64_MAX
                                        THEN value.double \div 2 ELSE Invalid
           [] value.form = "float"   -> IF FloatInRange(value.double)
                                        THEN Saturate(Round(value.double)) ELSE Invalid
           [] value.form = "other"   -> Invalid

Grace(grace) == IF grace > 0 THEN grace ELSE 0

InFuture(date, now, grace) ==
    date # Absent /\ date > saturating_add(now, Grace(grace))

Expired(exp, now, grace) == exp < saturating_sub(now, Grace(grace))

\* check_validity_dates at a time and with the configured grace.
check_validity_dates(claims, now, grace) ==
    LET exp == numeric_date(claims.exp)
        nbf == numeric_date(claims.nbf)
        iat == numeric_date(claims.iat)
    IN  IF exp \in {Absent, Invalid} THEN "MissingExpiration"
        ELSE IF \/ Invalid \in {nbf, iat}
                \/ Expired(exp, now, grace)
                \/ InFuture(nbf, now, grace)
                \/ InFuture(iat, now, grace)
             THEN "ClaimExpired"
             ELSE "Ok"

==============================================================================
