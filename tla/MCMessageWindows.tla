------------------------- MODULE MCMessageWindows -------------------------
(* Small instances of MessageWindows for TLC. *)
EXTENDS MessageWindows, TLC

CONSTANTS k1, k2, m1, m2, m3

MCContacts == {k1, k2}
MCMessages == {m1, m2, m3}
MCSender == (m1 :> k1) @@ (m2 :> k1) @@ (m3 :> k2)

\* One contact who writes twice.
OneContact == {k1}
TwoMessages == {m1, m2}
OneSender == [m \in TwoMessages |-> k1]
===========================================================================
