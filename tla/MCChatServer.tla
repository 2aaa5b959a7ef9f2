---------------------------- MODULE MCChatServer ----------------------------
(* TLC instances of ChatServer. *)
EXTENDS ChatServer, TLC

RECURSIVE BinaryDigits(_)
BinaryDigits(n) ==
    IF n < 2 THEN <<n>> ELSE Append(BinaryDigits(n \div 2), n % 2)

ConnSymmetry == Permutations(Conn)
=============================================================================
