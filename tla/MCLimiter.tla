------------------------------ MODULE MCLimiter ------------------------------
(* Instances of LoginLimiter for TLC: a window of two ticks, as long as a     *)
(* block, a sweep after four, as 15, 15 and 30 minutes.                       *)
EXTENDS LoginLimiter, TLC

Interchangeable == Permutations(Ips) \cup Permutations(Workers)
=============================================================================
