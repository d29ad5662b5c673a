---------------------------- MODULE ReviewBridge ----------------------------
(***************************************************************************)
(* tools/review_bridge.py: publish posts the automated review of one       *)
(* reviewer run on one pull request.  It reads the pull request, reads the *)
(* reviews already there, posts its own if the run has none, and reads the *)
(* new review back.  GitHub offers no "create unless there" and an answer  *)
(* may get lost, so a run that is repeated has to find what it did before. *)
(*                                                                         *)
(* One action is one request.  The pages of pulls/N/reviews are one read:  *)
(* reviews are listed oldest first and never removed, so what the pages    *)
(* yield together is what GitHub held when it answered the last of them.   *)
(*                                                                         *)
(* A summary comment is what its marker says; a review is the fields of    *)
(* its body, and its id is its place in the listing.                       *)
(***************************************************************************)
EXTENDS Integers, Sequences, FiniteSets

CONSTANTS
    Heads,         \* head commits the branch may point to
    Runs,          \* ids of reviewer runs
    Sources,       \* ids of summary comments
    Summary,       \* Summary[s]: the summary comment with id s
    Calls,         \* the arguments the bridge is started with
    Invocations    \* processes that run the bridge, each once

VARIABLES
    pull,          \* the pull request: [head, open, producer]
    reviews,       \* the App's reviews on it, oldest first
    delayed,       \* reviews whose request was given up but may yet arrive
    pc,            \* pc[i]: the request invocation i makes next
    args,          \* args[i]: its arguments
    found,         \* found[i]: id of the review it posted or reconciled
    refusal,       \* refusal[i]: why it was refused
    disturbed      \* history: two invocations overlapped, or a request was
                   \* applied after its sender had given up

github == <<pull, reviews, delayed>>
vars == <<github, pc, args, found, refusal, disturbed>>

-----------------------------------------------------------------------------
(* Seeded faults: wrong versions of definitions below, used by no behaviour *)

FaultAnyVerdict(a) ==
    LET s == Summary[a.source]
    IN  s.markers # 1 \/ s.head # a.head \/ s.run # a.run

FaultMatchSource(a) ==
    {k \in 1 .. Len(reviews) :
        /\ reviews[k].head = a.head /\ reviews[k].run = a.run
        /\ reviews[k].source = a.source}

FaultTakeAny(k, a) == TRUE

FaultTakeNone(k, a) == FALSE

FaultStartOver(i, why) == /\ pc' = [pc EXCEPT ![i] = "pull"]
                          /\ UNCHANGED refusal

FaultAnyHead(i) == /\ pc[i] = "pull"
                   /\ pc' = [pc EXCEPT ![i] = "list"]
                   /\ UNCHANGED <<github, args, found, refusal, disturbed>>

-----------------------------------------------------------------------------
(* Documents *)

Verdicts == {"CLEAN", "ADVISORY", "REPAIR_REQUIRED"}

\* The closed marker of a summary: how many lines claim to be one, what the
\* one says, and whether the text has a numbered finding.  A file that cannot
\* be read is a summary without a marker.
SummaryDocument ==
    [markers: Nat, head: Heads, run: Runs, verdict: Verdicts \cup {"UNKNOWN"},
     findings: Nat, numbered: BOOLEAN]

Producers == {"author", "owner", "app", "claude"}
Distrusted == {"owner", "app", "claude"}

PullDocument == [head: Heads, open: BOOLEAN, producer: Producers]

\* --head, --run and --summary-id.
Arguments == [head: Heads, run: Runs, source: Sources]

Review == [head: Heads, run: Runs, source: Sources, verdict: Verdicts,
           findings: Nat]

ASSUME SummaryAssumption == Summary \in [Sources -> SummaryDocument]

ASSUME CallAssumption == Calls # {} /\ Calls \subseteq Arguments

\* `marker`: not one well-formed marker of this head and run, or a verdict and
\* a number of findings that contradict each other.
MarkerRefused(a) ==
    LET s == Summary[a.source]
    IN  \/ s.markers # 1 \/ s.verdict \notin Verdicts
        \/ s.head # a.head \/ s.run # a.run
        \/ s.verdict = "CLEAN" /\ s.findings # 0
        \/ s.verdict = "REPAIR_REQUIRED" /\ (s.findings = 0 \/ ~s.numbered)

\* review_body
ReviewBody(a) ==
    [head |-> a.head, run |-> a.run, source |-> a.source,
     verdict |-> Summary[a.source].verdict,
     findings |-> Summary[a.source].findings]

\* The reviews a listing yields for this head and run.
Matches(a) ==
    {k \in 1 .. Len(reviews) :
        reviews[k].head = a.head /\ reviews[k].run = a.run}

-----------------------------------------------------------------------------
(* The tool *)

\* The review found for this run is the one this invocation would post.
Reconcilable(k, a) == reviews[k] = ReviewBody(a)

Working == {"pull", "list", "post", "readback", "record"}

Places == Working \cup {"idle", "done", "refused"}

Active(i) == pc[i] \in Working

Reasons == {"INVALID_SUMMARY", "GITHUB_API_FAILURE", "PR_HEAD_CHANGED",
            "UNTRUSTED_PRODUCER", "DUPLICATE_REVIEW", "CONFLICTING_REVIEW",
            "READBACK_MISMATCH", "RECORD_NOT_WRITTEN", "KILLED"}

\* Exit 10, or death: whatever was posted stays.
Refuse(i, why) ==
    /\ pc' = [pc EXCEPT ![i] = "refused"]
    /\ refusal' = [refusal EXCEPT ![i] = why]

Goto(i, where) == pc' = [pc EXCEPT ![i] = where] /\ UNCHANGED refusal

Init ==
    /\ pull \in [head: Heads, open: {TRUE}, producer: Producers]
    /\ reviews = <<>>
    /\ delayed = {}
    /\ pc = [i \in Invocations |-> "idle"]
    /\ args = [i \in Invocations |-> CHOOSE a \in Calls : TRUE]
    /\ found = [i \in Invocations |-> 0]
    /\ refusal = [i \in Invocations |-> "none"]
    /\ disturbed = FALSE

\* The arguments and the summary are looked at before any request is made.
Begin(i, a) ==
    /\ pc[i] = "idle"
    /\ args' = [args EXCEPT ![i] = a]
    /\ IF MarkerRefused(a) THEN Refuse(i, "INVALID_SUMMARY") ELSE Goto(i, "pull")
    /\ disturbed' = (disturbed \/ \E j \in Invocations : Active(j))
    /\ UNCHANGED <<github, found>>

\* A request is refused, times out or returns something else than asked for.
Fail(i) ==
    /\ pc[i] \in {"pull", "list", "readback"}
    /\ Refuse(i, "GITHUB_API_FAILURE")
    /\ UNCHANGED <<github, args, found, disturbed>>

ReadPull(i) ==
    /\ pc[i] = "pull"
    /\ CASE ~pull.open \/ pull.head # args[i].head ->
               Refuse(i, "PR_HEAD_CHANGED")
         [] pull.open /\ pull.head = args[i].head
               /\ pull.producer \in Distrusted ->
               Refuse(i, "UNTRUSTED_PRODUCER")
         [] OTHER -> Goto(i, "list")
    /\ UNCHANGED <<github, args, found, disturbed>>

\* One review of this run and head is reconciled if it is the same to the
\* letter; two are never right.
ListReviews(i) ==
    /\ pc[i] = "list"
    /\ LET matches == Matches(args[i])
       IN  \/ /\ matches = {}
              /\ Goto(i, "post") /\ UNCHANGED found
           \/ \E k \in matches :
                 /\ matches = {k}
                 /\ IF Reconcilable(k, args[i])
                    THEN /\ found' = [found EXCEPT ![i] = k]
                         /\ Goto(i, "record")
                    ELSE Refuse(i, "CONFLICTING_REVIEW") /\ UNCHANGED found
           \/ /\ Cardinality(matches) > 1
              /\ Refuse(i, "DUPLICATE_REVIEW") /\ UNCHANGED found
    /\ UNCHANGED <<github, args, disturbed>>

\* GitHub creates the review and answers, or creates it and the answer is
\* lost, or creates nothing, or creates it after the tool has given up.
Post(i) ==
    /\ pc[i] = "post"
    /\ \/ /\ reviews' = Append(reviews, ReviewBody(args[i]))
          /\ \/ /\ found' = [found EXCEPT ![i] = Len(reviews')]
                /\ Goto(i, "readback")
             \/ Refuse(i, "GITHUB_API_FAILURE") /\ UNCHANGED found
          /\ UNCHANGED <<delayed, disturbed>>
       \/ /\ Refuse(i, "GITHUB_API_FAILURE")
          /\ UNCHANGED <<reviews, delayed, found, disturbed>>
       \/ /\ delayed' = delayed \cup {ReviewBody(args[i])}
          /\ disturbed' = TRUE
          /\ Refuse(i, "GITHUB_API_FAILURE")
          /\ UNCHANGED <<reviews, found>>
    /\ UNCHANGED <<pull, args>>

ReadBack(i) ==
    /\ pc[i] = "readback"
    /\ IF reviews[found[i]] = ReviewBody(args[i])
       THEN Goto(i, "record") ELSE Refuse(i, "READBACK_MISMATCH")
    /\ UNCHANGED <<github, args, found, disturbed>>

\* The record is a new file; if it cannot be written the tool exits 10.
WriteRecord(i) ==
    /\ pc[i] = "record"
    /\ \/ Goto(i, "done")
       \/ Refuse(i, "RECORD_NOT_WRITTEN")
    /\ UNCHANGED <<github, args, found, disturbed>>

Step(i) ==
    Fail(i) \/ ReadPull(i) \/ ListReviews(i) \/ Post(i) \/ ReadBack(i)
        \/ WriteRecord(i)

-----------------------------------------------------------------------------
(* GitHub and the runner *)

\* A newer event cancels the job, or the runner is lost.
Kill(i) ==
    /\ Active(i)
    /\ Refuse(i, "KILLED")
    /\ UNCHANGED <<github, args, found, disturbed>>

Push(h) ==
    /\ h # pull.head
    /\ pull' = [pull EXCEPT !.head = h]
    /\ UNCHANGED <<reviews, delayed, pc, args, found, refusal, disturbed>>

CloseOrReopen ==
    /\ pull' = [pull EXCEPT !.open = ~pull.open]
    /\ UNCHANGED <<reviews, delayed, pc, args, found, refusal, disturbed>>

Arrive(r) ==
    /\ r \in delayed
    /\ delayed' = delayed \ {r}
    /\ reviews' = Append(reviews, r)
    /\ UNCHANGED <<pull, pc, args, found, refusal, disturbed>>

Environment ==
    \/ \E i \in Invocations, a \in Calls : Begin(i, a)
    \/ \E i \in Invocations : Kill(i)
    \/ \E h \in Heads : Push(h)
    \/ CloseOrReopen
    \/ \E r \in delayed : Arrive(r)

Next == (\E i \in Invocations : Step(i)) \/ Environment

SafetySpec == Init /\ [][Next]_vars

\* A started invocation is one thread that waits for one request at a time,
\* each with a time-out of thirty seconds.  Nobody has to start one.
Spec == SafetySpec /\ \A i \in Invocations : WF_vars(Step(i))

-----------------------------------------------------------------------------
(* Properties *)

\* Type invariant: what is on GitHub has one of the three verdicts.
TypeOK ==
    /\ pull \in PullDocument
    /\ reviews \in Seq(Review)
    /\ delayed \in SUBSET Review
    /\ pc \in [Invocations -> Places]
    /\ args \in [Invocations -> Arguments]
    /\ found \in [Invocations -> Nat]
    /\ refusal \in [Invocations -> Reasons \cup {"none"}]
    /\ disturbed \in BOOLEAN

\* A run has at most one review of a head, however often the bridge is started
\* for it, wherever it was stopped and whichever answer was lost - unless two
\* invocations overlap or a request outlives its sender, which `publish` cannot
\* tell: it lists and posts in two requests.
AtMostOneReview ==
    ~disturbed =>
        \A j, k \in 1 .. Len(reviews) :
            /\ reviews[j].head = reviews[k].head
            /\ reviews[j].run = reviews[k].run
            => j = k

\* Exit 0 means that the review is on GitHub to the letter under the recorded
\* id, and (with the same proviso) that it is the only one of its run and head,
\* so two invocations that end well for one run have recorded one review.
SuccessIsOnGitHub ==
    \A i \in Invocations : pc[i] = "done" =>
        /\ found[i] \in 1 .. Len(reviews)
        /\ reviews[found[i]] = ReviewBody(args[i])
        /\ ~disturbed => Matches(args[i]) = {found[i]}

\* Repeating an invocation with the same arguments never meets its own review
\* as a conflict: a conflict takes a second summary of the same run, and a
\* duplicate takes an overlap or a late request.
RefusalsHaveCause ==
    \A i \in Invocations :
        /\ refusal[i] = "CONFLICTING_REVIEW" =>
              \E j \in Invocations :
                  /\ pc[j] # "idle"
                  /\ args[j].head = args[i].head /\ args[j].run = args[i].run
                  /\ args[j].source # args[i].source
        /\ refusal[i] = "DUPLICATE_REVIEW" => disturbed

Reached == [idle |-> "idle", pull |-> "accepted",
            list |-> "cleared", post |-> "cleared",
            readback |-> "published", record |-> "published",
            done |-> "success", refused |-> "refused"]

Promise == INSTANCE Publication WITH
    Publishers <- Invocations,
    Bodies <- {ReviewBody(a) : a \in Arguments},
    targets <- IF pull.open /\ pull.producer \notin Distrusted
               THEN {pull.head} ELSE {},
    wanted <- [i \in Invocations |-> ReviewBody(args[i])],
    stage <- [i \in Invocations |-> Reached[pc[i]]]

\* Listing and posting act as one step: a review appears only of an invocation
\* that is at work and found its head open since it began, at most once, and
\* only on a list that holds none of its run and head - until two invocations
\* overlap or a request outlives its sender.
PublishesAtomically == Promise!Spec

\* Every started invocation ends.
Terminates == \A i \in Invocations : Active(i) ~> ~Active(i)
=============================================================================
