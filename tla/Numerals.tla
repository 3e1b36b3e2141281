------------------------------ MODULE Numerals ------------------------------
(***************************************************************************)
(* Numbers and their digits to a base, the most significant one first, and *)
(* sums.  The definitions recurse over functions, so that they can be      *)
(* proved about.                                                           *)
(***************************************************************************)
EXTENDS Integers, Sequences

(* How many numbers can be written with so many digits.                     *)
Power(base) ==
  LET power[k \in Nat] == IF k = 0 THEN 1 ELSE base * power[k - 1]
  IN  power

(* The last digits of n, as many as the width.                              *)
Digits(n, base, width) ==
  [i \in 1 .. width |-> (n \div Power(base)[width - i]) % base]

(* The number that digits stand for.                                        *)
Number(digits, base) ==
  LET value[i \in 0 .. Len(digits)] ==
        IF i = 0 THEN 0 ELSE value[i - 1] * base + digits[i]
  IN  value[Len(digits)]

(* The sums of the first elements of a sequence, by their number.           *)
Sums(s) ==
  LET sum[i \in 0 .. Len(s)] == IF i = 0 THEN 0 ELSE sum[i - 1] + s[i]
  IN  sum
=============================================================================
