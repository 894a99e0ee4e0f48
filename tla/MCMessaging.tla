---------------------------- MODULE MCMessaging ----------------------------
(* Small instances of Messaging for TLC. *)
EXTENDS MessagingInv, TLC, FiniteSets

\* Two people who write to each other: one letter each way.
Exchange(a, b) == {[from |-> a, to |-> b], [from |-> b, to |-> a]}

OneLetter(a, b) == {[from |-> a, to |-> b]}

CONSTANTS a, b

MCUsers == {a, b}
LettersExchange == Exchange(a, b)
LettersOne == OneLetter(a, b)

ConnSymmetry == Permutations(Conns)
=============================================================================
