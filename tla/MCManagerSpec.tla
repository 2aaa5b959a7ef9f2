---------------------------- MODULE MCManagerSpec ---------------------------
(* TLC instances of ManagerSpec. *)
EXTENDS ManagerSpec, TLC

\* Numbers are written in base 2, so that two small ports of different width
\* are enough for two ids to collide.
RECURSIVE BinaryDigits(_)
BinaryDigits(n) ==
    IF n < 2 THEN <<n>> ELSE Append(BinaryDigits(n \div 2), n % 2)

ConnSymmetry == Permutations(Conn)
=============================================================================
