----------------------------- MODULE MCPresence -----------------------------
(* Small instances of Presence for TLC. *)
EXTENDS Presence, TLC

CONSTANTS a, b, a1, a2, b1, ONLINE

MCUsers == {a, b}
MCStatuses == {OFFLINE, ONLINE}

\* Two people who are signed in, and an older program of one of them that has
\* remembered its id and may choose a status once; b watches a, and nobody b.
TwoPeople == {a1, a2, b1}
TwoPeopleOwner == (a1 :> a) @@ (a2 :> a) @@ (b1 :> b)
TwoPeopleWatched == (a1 :> {}) @@ (a2 :> {}) @@ (b1 :> {a})
TwoPeopleStart == (a1 :> MCStatuses) @@ (a2 :> {}) @@ (b1 :> {ONLINE})
TwoPeopleChanges == (a1 :> 0) @@ (a2 :> 1) @@ (b1 :> 0)
OldProgram == {a2}
=============================================================================
