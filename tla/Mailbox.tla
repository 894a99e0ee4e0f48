------------------------------ MODULE Mailbox ------------------------------
(***************************************************************************)
(* What the messenger promises to the writer of a letter, whatever happens *)
(* to programs and connections: a letter the server has accepted stays     *)
(* pending until its addressee has seen it, and may be seen more than once.*)
(* There is no action by which an accepted letter is lost.                 *)
(***************************************************************************)
CONSTANT Letters

VARIABLES
    accepted,   \* letters the server has stored
    pending,    \* accepted letters that a later session would be offered
    seen        \* letters displayed to the one they are addressed to

vars == <<accepted, pending, seen>>

Init ==
    /\ accepted = {}
    /\ pending = {}
    /\ seen = {}

Accept(l) ==
    /\ l \notin accepted
    /\ accepted' = accepted \cup {l}
    /\ pending' = pending \cup {l}
    /\ UNCHANGED seen

See(l) ==
    /\ l \in accepted
    /\ seen' = seen \cup {l}
    /\ UNCHANGED <<accepted, pending>>

Retire(l) ==
    /\ l \in pending
    /\ l \in seen
    /\ pending' = pending \ {l}
    /\ UNCHANGED <<accepted, seen>>

Next == \E l \in Letters : Accept(l) \/ See(l) \/ Retire(l)

Spec == Init /\ [][Next]_vars
=============================================================================
