-------------------------- MODULE PromisedVerdict --------------------------
(***************************************************************************)
(* What one `proof-check check` promises, with no word of how the evidence *)
(* is collected (docs/contract/verdicts-and-reason-codes.md and            *)
(* subject-semantics.md): it binds one subject at one instant, and answers *)
(* once.  A PASS or a FAIL is the truth about the bound subject, unless    *)
(* the pull request was disturbed in a way the tool does not look for.     *)
(***************************************************************************)
CONSTANTS
    Subjects,       \* what a verdict can be bound to
    Truth(_),       \* Truth(s): the PASS or FAIL that holds of subject s
    Undecided,      \* answers that claim nothing about the subject
    Nothing         \* no subject bound, no answer given

VARIABLES
    bound,          \* the subject the run is bound to
    disturbed,      \* the subject changed in a way the tool does not see
    answer          \* the outcome the run ends with

vars == <<bound, disturbed, answer>>

Init ==
    /\ bound = Nothing
    /\ disturbed = FALSE
    /\ answer = Nothing

Bind ==
    /\ bound = Nothing /\ answer = Nothing
    /\ bound' \in Subjects
    /\ UNCHANGED <<disturbed, answer>>

Disturb ==
    /\ bound # Nothing /\ answer = Nothing
    /\ disturbed' = TRUE
    /\ UNCHANGED <<bound, answer>>

\* An answer without a claim is always allowed, also with nothing bound.
Abstain ==
    /\ answer = Nothing
    /\ answer' \in Undecided
    /\ UNCHANGED <<bound, disturbed>>

Decide ==
    /\ bound # Nothing /\ answer = Nothing
    /\ answer' = Truth(bound)
    /\ UNCHANGED <<bound, disturbed>>

\* Nothing is promised of a disturbed subject but that an answer is given.
Guess ==
    /\ disturbed /\ answer = Nothing
    /\ answer' # Nothing
    /\ UNCHANGED <<bound, disturbed>>

Next == Bind \/ Disturb \/ Abstain \/ Decide \/ Guess

Spec == Init /\ [][Next]_vars
=============================================================================
