-------------------------- MODULE MCCaptureSender --------------------------
(* The capture path for TLC: what the devices deliver.                      *)
EXTENDS CaptureSender

(* A float device: silence, fractions of a 16-bit step, full scale, beyond  *)
(* it, and NaN.                                                             *)
Floats == <<0, 1, -1, One, -One, One + 1, -One - 30, NaN, 43, -43, 7>>
MCSound == [s \in Samples |-> Floats[(s % Len(Floats)) + 1]]

=============================================================================
