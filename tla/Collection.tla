----------------------------- MODULE Collection -----------------------------
(***************************************************************************)
(* src/proof_check/github_read.py: collect_evidence reads one pull request *)
(* through the GitHub REST API, a page at a time, while its authors and    *)
(* its CI keep changing it; evaluate then judges the bundle.               *)
(*                                                                         *)
(* Each request is one action, so the pull request may change between any  *)
(* two of them.  Every request may fail: a refused or timed-out request, a *)
(* status other than 200, a document that is not the JSON asked for, an    *)
(* item with a missing field.                                              *)
(***************************************************************************)
EXTENDS Rules, Paging, FiniteSets

CONSTANTS
    Heads,         \* head commits the branch may point to
    Bases,         \* base commits the pull request may be compared with
    Merges,        \* test-merge commits GitHub may report
    Files,         \* Files[h][b]: the files GitHub lists for head h, base b
    Manifest,      \* Manifest[b]: the scope manifest in commit b, or NoText
    Requests,      \* the invocations: [policy, target, pinned]
    Bodies,        \* the bodies the author may give the pull request
    StartRuns,     \* numbers of check runs when the coordinates are read
    MaxRuns,       \* bound on the check runs of one commit, replaced or not
    StartReviews,  \* numbers of reviews when the coordinates are read
    MaxReviews     \* bound on the reviews

VARIABLES
    \* GitHub
    pr,            \* the pull request now: [head, base, body]
    runs,          \* ids of the bound head's check runs, in listing order
    superseded,    \* how many of its check runs newer ones have replaced
    reviewed,      \* number of reviews; their ids are 1 .. reviewed
    \* the command
    request,       \* its arguments
    pc,            \* the request it makes next
    pull,          \* the pull request as it first read it
    page,          \* page of the listing being read
    records,       \* changed-file records received
    truncated,     \* the changed-path observation is marked incomplete
    checks,        \* check-run ids received
    total,         \* total_count of the first check-run page
    reviews,       \* review ids received
    errors,        \* the stages that reported an error
    text,          \* the declaration's text
    observed,      \* the head read back at the end
    result,        \* what evaluate returned
    \* history, read by the properties only
    atBind,        \* how many check runs and reviews there were at the start
    blind          \* the pull request moved in a way the read-back cannot see

checkRuns == <<runs, superseded>>
github == <<pr, runs, superseded, reviewed>>
files == <<records, truncated>>
listing == <<checks, total>>
history == <<atBind, blind>>
vars == <<github, request, pc, pull, page, files, listing, reviews, errors,
          text, observed, result, history>>

-----------------------------------------------------------------------------
(* Constants *)

FileRecord == [filename: Paths, previous: Paths \cup {NoPath}]

PageCeiling == Ceiling \div PageSize

Request == [policy: PolicyDocument, target: {"head", "test_merge"},
            pinned: Texts \cup {NoText}]

\* GitHub lists each path of a comparison once.
ASSUME FilesAssumption ==
    /\ Files \in [Heads -> [Bases -> Seq(FileRecord)]]
    /\ \A h \in Heads, b \in Bases :
          \A i, j \in 1 .. Len(Files[h][b]) :
             Files[h][b][i].filename = Files[h][b][j].filename => i = j

ASSUME FirstPageAssumption == PageSize <= Ceiling

ASSUME RequestAssumption == Requests \subseteq Request

ASSUME CommitAssumption == NoSha \notin Heads \cup Bases \cup Merges

ASSUME TextAssumption ==
    /\ NoText \notin Texts
    /\ Bodies \subseteq Texts \cup {NoText}
    /\ Manifest \in [Bases -> Texts \cup {NoText}]

ASSUME CountAssumption ==
    /\ StartRuns \subseteq Nat /\ MaxRuns \in Nat
    /\ StartReviews \subseteq Nat /\ MaxReviews \in Nat

-----------------------------------------------------------------------------
(* Seeded faults: wrong versions of definitions below, used by no behaviour *)

FaultTryAgain(stage, next) == UNCHANGED <<errors, page, pc>>

FaultIgnoreLink(link, more) == ~link

FaultForgetListings == {"count"}
FaultForgetChecks == {"count", "reviews"}
FaultForgetCount == {"checks", "reviews"}

-----------------------------------------------------------------------------
(* Listings *)

Names(list) == [i \in 1 .. Len(list) |-> list[i].filename]

\* A listing that fails is not read again: the next stage begins.
GiveUp(stage, next) ==
    /\ errors' = errors \cup {stage}
    /\ page' = 1
    /\ pc' = next

NoResult == [verdict |-> "none", reasons |-> {}, details |-> {},
             outside |-> {}]

NoPull == [head |-> NoSha, base |-> NoSha, merge |-> NoSha, body |-> NoText,
           changed_files |-> 0]

Init ==
    /\ \E h \in Heads, b \in Bases, t \in Bodies :
          pr = [head |-> h, base |-> b, body |-> t]
    /\ \E n \in StartRuns : runs = [i \in 1 .. n |-> i]
    /\ superseded = 0
    /\ reviewed \in StartReviews
    /\ request \in Requests
    /\ pc = "pull"
    /\ pull = NoPull
    /\ page = 1
    /\ records = <<>> /\ truncated = FALSE
    /\ checks = <<>> /\ total = 0
    /\ reviews = <<>>
    /\ errors = {}
    /\ text = NoText
    /\ observed = NoSha
    /\ result = NoResult
    /\ atBind = [runs |-> 0, reviews |-> 0]
    /\ blind = FALSE

-----------------------------------------------------------------------------
(* The pull request moves on while it is being read *)

Reading == pc \in {"files", "checks", "reviews", "declaration", "readback"}

\* A push or a force-push; coming back to the bound head hides the move.
Push(h) ==
    /\ Reading
    /\ h # pr.head
    /\ pr' = [pr EXCEPT !.head = h]
    /\ blind' = (blind \/ h = pull.head)
    /\ UNCHANGED <<checkRuns, reviewed, request, pc, pull, page, files,
                   listing, reviews, errors, text, observed, result, atBind>>

\* The pull request is retargeted, or its base moves: nothing reads it back.
Retarget(b) ==
    /\ Reading
    /\ b # pr.base
    /\ pr' = [pr EXCEPT !.base = b]
    /\ blind' = TRUE
    /\ UNCHANGED <<checkRuns, reviewed, request, pc, pull, page, files,
                   listing, reviews, errors, text, observed, result, atBind>>

EditBody(t) ==
    /\ Reading
    /\ t # pr.body
    /\ pr' = [pr EXCEPT !.body = t]
    /\ UNCHANGED <<checkRuns, reviewed, request, pc, pull, page, files,
                   listing, reviews, errors, text, observed, result, history>>

\* A check run is created and put in a list; its place is GitHub's choice.
Created(list) ==
    LET id == Len(runs) + superseded + 1
    IN  /\ id <= MaxRuns
        /\ runs' \in {<<id>> \o list, list \o <<id>>}

AddRun ==
    /\ Reading
    /\ Created(runs)
    /\ UNCHANGED <<pr, superseded, reviewed, request, pc, pull, page, files,
                   listing, reviews, errors, text, observed, result, history>>

\* A check is run again: the request names no filter, so that GitHub lists
\* the latest run of each check, and the new one takes the old one's place.
Supersede(k) ==
    /\ Reading
    /\ Created(Without(runs, k))
    /\ superseded' = superseded + 1
    /\ UNCHANGED <<pr, reviewed, request, pc, pull, page, files, listing,
                   reviews, errors, text, observed, result, history>>

\* Reviews are listed in the order they were submitted.
AddReview ==
    /\ Reading
    /\ reviewed < MaxReviews
    /\ reviewed' = reviewed + 1
    /\ UNCHANGED <<pr, checkRuns, request, pc, pull, page, files, listing,
                   reviews, errors, text, observed, result, history>>

Environment ==
    \/ \E h \in Heads : Push(h)
    \/ \E b \in Bases : Retarget(b)
    \/ \E t \in Bodies : EditBody(t)
    \/ AddRun
    \/ \E k \in 1 .. Len(runs) : Supersede(k)
    \/ AddReview

-----------------------------------------------------------------------------
(* The command *)

\* The first read fixes the subject; without it no receipt can be built.
ReadPull ==
    /\ pc = "pull"
    /\ \/ /\ \E m \in Merges \cup {NoSha} :
                pull' = [head |-> pr.head, base |-> pr.base, merge |-> m,
                         body |-> pr.body,
                         changed_files |-> Len(Files[pr.head][pr.base])]
          /\ pc' = "files"
          /\ atBind' = [runs |-> Len(runs), reviews |-> reviewed]
       \/ /\ pc' = "unavailable"
          /\ UNCHANGED <<pull, atBind>>
    /\ UNCHANGED <<github, request, page, files, listing, reviews, errors,
                   text, observed, result, blind>>

\* One page of pulls/N/files.  It is listed for the head and the base the
\* pull request has now, not for those it was bound to.
ReadFiles ==
    LET items == PageOf(Files[pr.head][pr.base], page)
        taken == FirstOf(items, Ceiling - Len(records))
    IN  /\ pc = "files"
        /\ \/ /\ NoRepeat(Names(records), Names(taken))
              /\ records' = records \o taken
              /\ IF Len(records') >= Ceiling \/ Len(items) < PageSize
                 THEN /\ truncated' = \/ Len(records') >= Ceiling
                                      \/ Len(records') # pull.changed_files
                      /\ page' = 1
                      /\ pc' = "checks"
                 ELSE /\ page' = page + 1
                      /\ UNCHANGED <<truncated, pc>>
              /\ UNCHANGED errors
           \/ \E k \in KeptBeforeFailure(Len(taken)) :
                 /\ NoRepeat(Names(records), Names(FirstOf(taken, k)))
                 /\ records' = records \o FirstOf(taken, k)
                 /\ truncated' = TRUE
                 /\ GiveUp("files", "checks")
        /\ UNCHANGED <<github, request, pull, listing, reviews, text,
                       observed, result, history>>

\* One page of commits/SHA/check-runs for the bound head.  total_count is
\* pinned by the first page; a page that reports another is an error.
ReadChecks ==
    LET items == PageOf(runs, page)
    IN  /\ pc = "checks"
        /\ \/ /\ total' = IF page = 1 THEN Len(runs) ELSE total
              /\ Len(runs) = total'
              /\ NoRepeat(checks, items)
              /\ checks' = checks \o items
              /\ IF \/ Len(items) < PageSize
                    \/ Len(checks') >= total'
                    \/ page = PageCeiling
                 THEN /\ errors' = IF Len(checks') # total'
                                   THEN errors \cup {"checks"} ELSE errors
                      /\ page' = 1
                      /\ pc' = "reviews"
                 ELSE /\ page' = page + 1
                      /\ UNCHANGED <<errors, pc>>
           \/ \E k \in KeptBeforeFailure(Len(items)) :
                 /\ NoRepeat(checks, FirstOf(items, k))
                 /\ checks' = checks \o FirstOf(items, k)
                 /\ GiveUp("checks", "reviews")
                 /\ UNCHANGED total
        /\ UNCHANGED <<github, request, pull, files, reviews, text,
                       observed, result, history>>

\* At the page ceiling the listing is complete only if the response carried a
\* Link header and that names no next page.
CutShort(link, more) == ~link \/ more

\* One page of pulls/N/reviews.  There is no count: the listing ends at a
\* short page, or at the page ceiling when the Link header names no next page.
ReadReviews ==
    LET items == PageOf([i \in 1 .. reviewed |-> i], page)
        more == reviewed > page * PageSize
    IN  /\ pc = "reviews"
        /\ \/ /\ NoRepeat(reviews, items)
              /\ reviews' = reviews \o items
              /\ \/ /\ Len(items) < PageSize
                    /\ page' = 1 /\ pc' = "declaration" /\ UNCHANGED errors
                 \/ /\ Len(items) = PageSize /\ page = PageCeiling
                    /\ \E link \in BOOLEAN :
                          errors' = IF CutShort(link, more)
                                    THEN errors \cup {"reviews"} ELSE errors
                    /\ page' = 1 /\ pc' = "declaration"
                 \/ /\ Len(items) = PageSize /\ page < PageCeiling
                    /\ page' = page + 1 /\ UNCHANGED <<errors, pc>>
           \/ \E k \in KeptBeforeFailure(Len(items)) :
                 /\ NoRepeat(reviews, FirstOf(items, k))
                 /\ reviews' = reviews \o FirstOf(items, k)
                 /\ GiveUp("reviews", "declaration")
        /\ UNCHANGED <<github, request, pull, files, listing, text, observed,
                       result, history>>

\* An unknown policy version is collected under an inert inline policy.
CollectedInline == ~request.policy.known \/ Inline(request.policy)

\* `_declaration`: inline entries need no text, the body is the one first
\* read, a manifest is read from the bound base commit.
ReadDeclaration ==
    LET source == request.policy.source
    IN  /\ pc = "declaration"
        /\ \/ /\ text' = CASE CollectedInline -> NoText
                           [] ~CollectedInline /\ source = "pr_body_allowlist" ->
                                 pull.body
                           [] ~CollectedInline /\ source = "pinned" ->
                                 request.pinned
                           [] OTHER -> Manifest[pull.base]
              /\ errors' = IF /\ ~CollectedInline /\ source = "file"
                              /\ Manifest[pull.base] = NoText
                           THEN errors \cup {"declaration"} ELSE errors
           \/ /\ ~CollectedInline /\ source # "pinned"
              /\ text' = NoText
              /\ errors' = errors \cup {"declaration"}
        /\ pc' = "readback"
        /\ UNCHANGED <<github, request, pull, page, files, listing, reviews,
                       observed, result, history>>

\* The errors that mark the changed-path observation incomplete at the end.
IncompleteStages == {"count", "checks", "reviews"}

\* The pull request is read again: its head and its file count only.  A
\* test-merge target without a test-merge commit counts as no read-back, and
\* a failed check-run or review listing marks the changed paths incomplete.
ReadBack ==
    LET count == Len(Files[pr.head][pr.base])
        unmerged == request.target = "test_merge" /\ pull.merge = NoSha
    IN  /\ pc = "readback"
        /\ \E ok \in BOOLEAN :
              /\ observed' = IF ok /\ ~unmerged THEN pr.head ELSE NoSha
              /\ errors' = errors \cup (IF ok THEN {} ELSE {"readback"})
                     \cup (IF ok /\ count # pull.changed_files
                           THEN {"count"} ELSE {})
                     \cup (IF unmerged THEN {"merge"} ELSE {})
              /\ truncated' = \/ truncated
                              \/ IncompleteStages \cap errors' # {}
        /\ pc' = "evaluate"
        /\ UNCHANGED <<github, request, pull, page, records, listing, reviews,
                       text, result, history>>

Subject ==
    [target |-> request.target, head |-> pull.head, base |-> pull.base,
     merge |-> pull.merge,
     evaluated |-> IF request.target = "head" \/ pull.merge = NoSha
                   THEN pull.head ELSE pull.merge]

Evidence ==
    [subject |-> Subject,
     changed |-> [expected |-> pull.changed_files, records |-> records,
                  truncated |-> truncated],
     text |-> text,
     bound |-> IF ~CollectedInline /\ request.policy.source = "file"
               THEN pull.base ELSE NoSha,
     observed |-> observed]

\* evaluate, or the ConfigurationError it raises: exit 2 and no receipt.
Judge ==
    /\ pc = "evaluate"
    /\ IF ConfigurationRefused(request.policy)
       THEN pc' = "refused" /\ UNCHANGED result
       ELSE pc' = "done" /\ result' = Evaluate(request.policy, Evidence)
    /\ UNCHANGED <<github, request, pull, page, files, listing, reviews,
                   errors, text, observed, history>>

Command ==
    ReadPull \/ ReadFiles \/ ReadChecks \/ ReadReviews \/ ReadDeclaration
        \/ ReadBack \/ Judge

Next == Command \/ Environment

SafetySpec == Init /\ [][Next]_vars

\* Each request ends in an answer or a time-out; GitHub's users owe nothing.
Spec == SafetySpec /\ WF_vars(Command)

-----------------------------------------------------------------------------
(* Properties *)

Ended == pc \in {"done", "refused", "unavailable"}

Decided == result.verdict \in {"PASS", "FAIL"}

PullDocument ==
    [head: Heads \cup {NoSha}, base: Bases \cup {NoSha},
     merge: Merges \cup {NoSha}, body: Texts \cup {NoText},
     changed_files: Nat]

Stages == {"files", "checks", "reviews", "declaration", "count", "readback",
           "merge"}

Reasons == {"SCOPE_ESCAPE", "EVIDENCE_MISSING", "EVIDENCE_AMBIGUOUS",
            "STALE_HEAD"}

Details == {"PATH_OUTSIDE_DECLARED_SCOPE",
            "ALL_CHANGED_PATHS_WITHIN_DECLARED_SCOPE",
            "CHANGED_PATH_SET_INCOMPLETE", "COORDINATE_DRIFT",
            "MERGE_GROUP_COORDINATES_COHERENT"}

Result == [verdict: {"none", "PASS", "FAIL", "INDETERMINATE"},
           reasons: SUBSET Reasons, details: SUBSET Details,
           outside: SUBSET Paths]

\* Type invariant of collect_evidence's variables and of the receipt's codes:
\* never more than Ceiling records, never a code outside the closed vocabulary.
TypeOK ==
    /\ pr \in [head: Heads, base: Bases, body: Texts \cup {NoText}]
    /\ runs \in Seq(Nat) /\ superseded \in Nat /\ reviewed \in Nat
    /\ request \in Requests
    /\ pc \in {"pull", "files", "checks", "reviews", "declaration",
               "readback", "evaluate", "done", "refused", "unavailable"}
    /\ pull \in PullDocument
    /\ pc \notin {"pull", "unavailable"} =>
          pull.head \in Heads /\ pull.base \in Bases
    /\ page \in Nat \ {0}
    /\ records \in Seq(FileRecord) /\ Len(records) <= Ceiling
    /\ truncated \in BOOLEAN
    /\ checks \in Seq(Nat) /\ total \in Nat
    /\ reviews \in Seq(Nat)
    /\ errors \in SUBSET Stages
    /\ text \in Texts \cup {NoText}
    /\ observed \in Heads \cup {NoSha}
    /\ result \in Result
    /\ atBind \in [runs: Nat, reviews: Nat]
    /\ blind \in BOOLEAN

\* The entries the policy's scope source declares for a bound subject.
DeclaredScope(policy, base, body) ==
    CASE Inline(policy) -> policy.entries
      [] ~Inline(policy) /\ policy.source = "pr_body_allowlist" ->
            BodyEntries[body]
      [] ~Inline(policy) /\ policy.source = "file" ->
            ManifestEntries[Manifest[base]]
      [] OTHER -> ManifestEntries[policy.pin]

\* Every path a comparison removes, adds or changes: both names of a rename.
ChangedPaths(list) ==
    {p \in Paths : \E r \in Range(list) :
        p = r.filename \/ (r.previous # NoPath /\ p = r.previous)}

\* What holds of a subject, read off the repository instead of the listing.
TrueOutcome(s) ==
    LET outside == OutsidePaths(DeclaredScope(s.policy, s.base, s.body),
                                ChangedPaths(Files[s.head][s.base]))
    IN  [verdict |-> IF outside = {} THEN "PASS" ELSE "FAIL",
         outside |-> outside]

BoundSubject == [policy |-> request.policy, head |-> pull.head,
                 base |-> pull.base, body |-> pull.body]

Outcome == [verdict |-> result.verdict, outside |-> result.outside]

\* A PASS or a FAIL is the truth about the whole file list of the bound head
\* and base under the bound declaration, whatever was pushed and whatever
\* failed between the pages, when no move was invisible to the read-back.
DecidedIsTrue == Decided /\ ~blind => Outcome = TrueOutcome(BoundSubject)

\* The same without the proviso, as docs/contract/subject-semantics.md has it:
\* the rule evaluates the changed-path set at the bound head/base tuple only.
DecidedAtBoundTuple == Decided => Outcome = TrueOutcome(BoundSubject)

\* A verdict is given only for a scope somebody may declare and the grammar
\* admits, over paths that can be matched: never under trust none, never on a
\* blocking policy whose scope the author wrote, never with an empty or a
\* refused entry, never over a refused or colliding path.
DecidedScopeIsAdmissible ==
    LET policy == request.policy
        scope == DeclaredScope(policy, pull.base, pull.body)
    IN  Decided =>
          /\ policy.known /\ policy.trust # "none"
          /\ policy.source = "pr_body_allowlist" /\ ~Inline(policy) =>
                policy.trust = "advisory"
          /\ scope # {} /\ scope \cap RefusedEntries = {}
          /\ ChangedPaths(records) \cap RefusedPaths = {}
          /\ \A pair \in Collisions : ~(pair \subseteq ChangedPaths(records))

\* collect_evidence's docstring: once the coordinates are known, any missing
\* page or malformed secondary response leads to INDETERMINATE.
PartialNeverDecides == errors # {} => ~Decided

\* A decided receipt misses no more of the check runs there were when the
\* head was read than newer runs have replaced since, however the pages shift;
\* which ones it misses is another matter.  With none replaced its list is the
\* one of an instant: all the runs of the start, and no gap among the others.
ChecksAreAccountedFor ==
    Decided =>
        /\ Cardinality((1 .. atBind.runs) \ Range(checks)) <= superseded
        /\ superseded = 0 =>
              \E i \in 1 .. Len(runs) + 1 :
                 checks = SubSeq(runs, i, i + Len(checks) - 1)

\* A decided receipt misses no review submitted before the head was read.
ReviewsAreComplete == Decided => 1 .. atBind.reviews \subseteq Range(reviews)

\* The command ends, whatever is pushed, created or lost while it reads.
Terminates == <>Ended

-----------------------------------------------------------------------------
(* collect_evidence and evaluate implement the promise *)

NoClaim(word) == [verdict |-> word, outside |-> {}]

Answer ==
    IF pc \in {"refused", "unavailable"} THEN NoClaim(pc) ELSE Outcome

Promise == INSTANCE PromisedVerdict WITH
    Subjects <- [policy: PolicyDocument, head: Heads, base: Bases,
                 body: Texts \cup {NoText}],
    Truth <- TrueOutcome,
    Undecided <- {NoClaim("INDETERMINATE"), NoClaim("refused"),
                  NoClaim("unavailable")},
    Nothing <- NoClaim("none"),
    bound <- IF pc \in {"pull", "unavailable"} THEN NoClaim("none")
                                               ELSE BoundSubject,
    disturbed <- blind,
    answer <- Answer

\* One subject is bound, once; one answer is given, once, and it is the truth
\* about that subject or claims nothing.
KeepsPromise == Promise!Spec
=============================================================================
