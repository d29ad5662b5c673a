---------------------------- MODULE Publication ----------------------------
(***************************************************************************)
(* What tools/review_bridge.py promises the workflows that call it, with   *)
(* no word of its requests and their answers: an invocation is cleared     *)
(* while its head is the one under review, publishes in one step, and      *)
(* succeeds or refuses.  Its review is put on the list unless the list has *)
(* it; a list that has another one for this run and head is left alone.    *)
(*                                                                         *)
(* Looking and posting are two requests.  That they act as one step is     *)
(* promised until two invocations overlap or a request outlives its        *)
(* sender; from then on a review is posted without regard to the list.     *)
(***************************************************************************)
EXTENDS Integers, Sequences

CONSTANTS
    Publishers,    \* invocations of the bridge
    Heads,         \* head commits
    Bodies         \* reviews an invocation may want to publish

VARIABLES
    targets,       \* heads a review may be published for: at most the branch's
    reviews,       \* the published reviews, oldest first
    wanted,        \* wanted[i]: the review invocation i is to publish
    stage,         \* stage[i]: how far it is
    disturbed      \* two invocations overlapped or a request came late

vars == <<targets, reviews, wanted, stage, disturbed>>

AtWork == {"accepted", "cleared", "published"}

Like(list, body) ==
    {k \in 1 .. Len(list) : list[k].head = body.head /\ list[k].run = body.run}

\* The lists that publishing a review may leave; none if it has to be refused.
After(list, body) ==
    IF Like(list, body) = {}
    THEN {Append(list, body)}
    ELSE {l \in {list} : \E k \in 1 .. Len(list) :
                            Like(list, body) = {k} /\ list[k] = body}

Init ==
    /\ targets \in SUBSET Heads
    /\ reviews = <<>>
    /\ wanted \in [Publishers -> Bodies]
    /\ stage = [i \in Publishers |-> "idle"]
    /\ disturbed = FALSE

Become(i, new) == stage' = [stage EXCEPT ![i] = new]

\* A document that contradicts itself is refused before anything is asked.
Accept(i, body) ==
    /\ stage[i] = "idle"
    /\ wanted' = [wanted EXCEPT ![i] = body]
    /\ Become(i, "accepted") \/ Become(i, "refused")
    /\ disturbed' = (disturbed \/ \E j \in Publishers : stage[j] \in AtWork)
    /\ UNCHANGED <<targets, reviews>>

Clear(i) ==
    /\ stage[i] = "accepted"
    /\ wanted[i].head \in targets
    /\ Become(i, "cleared")
    /\ UNCHANGED <<targets, reviews, wanted, disturbed>>

\* The invocation may still end without learning that it has published.
Publish(i) ==
    /\ stage[i] = "cleared"
    /\ \/ reviews' \in After(reviews, wanted[i])
       \/ disturbed /\ reviews' = Append(reviews, wanted[i])
    /\ Become(i, "published") \/ Become(i, "refused")
    /\ UNCHANGED <<targets, wanted, disturbed>>

Succeed(i) ==
    /\ stage[i] = "published"
    /\ Become(i, "success")
    /\ UNCHANGED <<targets, reviews, wanted, disturbed>>

Refuse(i) ==
    /\ stage[i] \in AtWork
    /\ Become(i, "refused")
    /\ UNCHANGED <<targets, reviews, wanted, disturbed>>

\* The invocation gives up a request that GitHub may still apply.
Outlive(i) ==
    /\ stage[i] = "cleared"
    /\ Become(i, "refused")
    /\ disturbed' = TRUE
    /\ UNCHANGED <<targets, reviews, wanted>>

Arrive(i) ==
    /\ disturbed /\ stage[i] = "refused"
    /\ reviews' = Append(reviews, wanted[i])
    /\ UNCHANGED <<targets, wanted, stage, disturbed>>

\* Pushes, closing and reopening.
Move ==
    /\ targets' \in SUBSET Heads
    /\ UNCHANGED <<reviews, wanted, stage, disturbed>>

Next ==
    \/ \E i \in Publishers, body \in Bodies : Accept(i, body)
    \/ \E i \in Publishers : \/ Clear(i) \/ Publish(i) \/ Succeed(i)
                             \/ Refuse(i) \/ Outlive(i) \/ Arrive(i)
    \/ Move

Spec == Init /\ [][Next]_vars
=============================================================================
