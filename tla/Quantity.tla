------------------------------ MODULE Quantity ------------------------------
(***************************************************************************)
(* Length of src/CMake/CMakeDemo/case2/quantity: an amount of a unit, kept *)
(* as an unsigned number of inches.  The product of the constructor wraps  *)
(* at two to the power of the width of unsigned int.                       *)
(***************************************************************************)
EXTENDS Integers

INCH == 1
FEET == 12 * INCH

LengthUnit == {INCH, FEET}

Modulus == 2^32

Amount == 0..Modulus - 1

(* amountInBaseUnit; operator== compares nothing else. *)
Length(amount, unit) == (unit * amount) % Modulus

SameLength(a, u, b, v) == Length(a, u) = Length(b, v)
=============================================================================
