--------------------------- MODULE AssessmentPromise ---------------------------
(***************************************************************************)
(* What an assessment session promises a candidate and a recruiter: an     *)
(* attempt is begun once, answers given are kept, the invitation may be    *)
(* withdrawn and issued again, and the session is scored once, for good,   *)
(* over every answer it kept.                                              *)
(***************************************************************************)
CONSTANTS Items, None

VARIABLES
    phase,      \* "invited", "working", "withdrawn" or "scored"
    begun,      \* whether the attempt was ever begun
    answered,   \* items with a saved answer
    score       \* the items the score was computed over, or None

vars == <<phase, begun, answered, score>>

Init ==
    /\ phase = "invited"
    /\ begun = FALSE
    /\ answered = {}
    /\ score = None

BeginAttempt ==
    /\ phase = "invited"
    /\ phase' = "working" /\ begun' = TRUE
    /\ UNCHANGED <<answered, score>>

SaveAnswer ==
    /\ phase = "working"
    /\ \E i \in Items : answered' = answered \cup {i}
    /\ UNCHANGED <<phase, begun, score>>

Withdraw ==
    /\ phase \in {"invited", "working"}
    /\ phase' = "withdrawn"
    /\ UNCHANGED <<begun, answered, score>>

\* An attempt that was begun is resumed, not begun again.
Reissue ==
    /\ phase = "withdrawn"
    /\ phase' = IF begun THEN "working" ELSE "invited"
    /\ UNCHANGED <<begun, answered, score>>

Score ==
    /\ phase = "working"
    /\ phase' = "scored" /\ score' = answered
    /\ UNCHANGED <<begun, answered>>

Next == BeginAttempt \/ SaveAnswer \/ Withdraw \/ Reissue \/ Score

Spec == Init /\ [][Next]_vars

=============================================================================
