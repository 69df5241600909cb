---------------------------- MODULE FixedPoint ----------------------------
(***************************************************************************)
(* The fixed point arithmetic of primitives/prediction-market/src/math,    *)
(* which every trading pallet computes amounts and prices with.  A number  *)
(* n stands for n / BASE.  A result is a natural number, or Err where the  *)
(* code returns a DispatchError; MaxBalance is the largest value of the    *)
(* balance type, so that a checked operation errs where the code errs.     *)
(***************************************************************************)
EXTENDS Integers

CONSTANTS
  BASE,        \* one unit, primitives/common/src/constants.rs
  MaxBalance   \* the largest value of the balance type

ASSUME FixedPointConstants ==
  /\ BASE \in Nat \ {0}
  /\ MaxBalance \in Nat
  /\ BASE <= MaxBalance

\* The DispatchError of an overflow, an underflow or a division by zero.
Err == -1

checked_add_res(x, y) ==
  IF x = Err \/ y = Err \/ x + y > MaxBalance THEN Err ELSE x + y

checked_sub_res(x, y) ==
  IF x = Err \/ y = Err \/ y > x THEN Err ELSE x - y

checked_mul_res(x, y) ==
  IF x = Err \/ y = Err \/ x * y > MaxBalance THEN Err ELSE x * y

checked_div_res(x, y) ==
  IF x = Err \/ y = Err \/ y = 0 THEN Err ELSE x \div y

\* Products rounded to the nearest number, down and up.
bmul(x, y) ==
  checked_div_res(checked_add_res(checked_mul_res(x, y), BASE \div 2), BASE)

bmul_floor(x, y) == checked_div_res(checked_mul_res(x, y), BASE)

bmul_ceil(x, y) ==
  checked_div_res(checked_add_res(checked_mul_res(x, y), BASE - 1), BASE)

\* Quotients rounded to the nearest number, down and up.
bdiv(x, y) ==
  checked_div_res(checked_add_res(checked_mul_res(x, BASE), y \div 2), y)

bdiv_floor(x, y) == checked_div_res(checked_mul_res(x, BASE), y)

bdiv_ceil(x, y) ==
  IF y = 0 THEN Err
  ELSE checked_div_res(checked_add_res(checked_mul_res(x, BASE), y - 1), y)

\* self * multiplier / divisor.  The product is taken first; when it
\* overflows, the larger factor is divided first.
bmul_bdiv_common(x, multiplier, divisor, adjustment) ==
  LET scaled   == checked_mul_res(checked_mul_res(x, multiplier), BASE)
      smallest == IF x <= multiplier THEN x ELSE multiplier
      largest  == IF x <= multiplier THEN multiplier ELSE x
  IN  IF scaled # Err
      THEN checked_div_res(
             checked_add_res(checked_div_res(scaled, divisor), adjustment), BASE)
      ELSE checked_div_res(
             checked_add_res(
               checked_mul_res(
                 checked_div_res(checked_mul_res(largest, BASE), divisor),
                 smallest),
               adjustment),
             BASE)

bmul_bdiv(x, multiplier, divisor) ==
  bmul_bdiv_common(x, multiplier, divisor, BASE \div 2)

bmul_bdiv_floor(x, multiplier, divisor) ==
  bmul_bdiv_common(x, multiplier, divisor, 0)

bmul_bdiv_ceil(x, multiplier, divisor) ==
  bmul_bdiv_common(x, multiplier, divisor, BASE - 1)
===========================================================================
