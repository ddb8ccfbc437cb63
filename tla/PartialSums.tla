---------------------------- MODULE PartialSums ----------------------------
(***************************************************************************)
(* Running totals, which the code keeps in loops: of the bytes that        *)
(* fill_payload() reserves and writes, and of the payloads a script sends. *)
(***************************************************************************)
EXTENDS Integers, Sequences

\* The sums of the first n numbers, for every n.
Sums(numbers) ==
    LET sum[n \in 0 .. Len(numbers)] == IF n = 0 THEN 0 ELSE sum[n - 1] + numbers[n]
    IN  sum
Total(numbers) == Sums(numbers)[Len(numbers)]
=============================================================================
