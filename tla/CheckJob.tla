------------------------------ MODULE CheckJob ------------------------------
(***************************************************************************)
(* The job of .github/workflows/proof-check.yml and its pinned variant,    *)
(* one for each event of the pull request: it prepares a bundle from the    *)
(* event, runs the action, which reads the pull request itself, and then    *)
(* verifies the receipt offline against the bundle.  The two descriptions   *)
(* of the pull request are of different moments; jobs of several events     *)
(* run at once, and a re-run replays the event of its first attempt.        *)
(*                                                                         *)
(* Collection has the requests of the action in detail; here it reads the   *)
(* pull request, the files and the head once more.  ActionRun has the exit  *)
(* statuses; here the command's own is always the one of its verdict.       *)
(***************************************************************************)
EXTENDS Receipts, FiniteSets

CONSTANTS
    Heads,         \* head commits
    Base,          \* the base commit
    Bodies,        \* bodies: texts, or NoText for a null body
    EmptyText,     \* the text ''
    Manifest,      \* the text a file: source names, at Base
    Files,         \* Files[h]: the records of the comparison of h
    Policies,      \* policies the bundle may hold
    MaxEvents,     \* bound on the events
    MaxAttempts    \* bound on the attempts of one job

ASSUME TextAssumption ==
    EmptyText \in Texts /\ NoText \notin Texts /\ Bodies \subseteq Texts \cup {NoText}

ASSUME FilesAssumption ==
    Files \in [Heads -> Seq([filename : Paths, previous : Paths \cup {NoPath}])]

ASSUME PolicyAssumption == Policies \subseteq PolicyDocument

ASSUME NoneAssumption ==
    /\ NoSha \notin Heads \cup {Base}
    /\ \A entries \in SUBSET Entries : NoText # entries

ASSUME BoundAssumption ==
    MaxEvents \in Nat \ {0} /\ MaxAttempts \in Nat \ {0}

VARIABLES
    policy,        \* policy.json of the bundle
    pull,          \* the pull request now: [head, body]
    events,        \* the events so far, each with the pull request of its time
    jobs           \* jobs[i]: the job of events[i]

vars == <<policy, pull, events, jobs>>

-----------------------------------------------------------------------------
(* Seeded faults: wrong versions of definitions below, used by no behaviour *)

FaultNoDefault(i) == events[i].body

FaultAnyHead(i, receipt) ==
    CASE receipt.body.verdict = "PASS" -> 0
      [] receipt.body.verdict = "FAIL" -> 10
      [] OTHER -> 20

-----------------------------------------------------------------------------
(* Initial state *)

Pull == [head : Heads, body : Bodies]

\* The status of a step that has not run.
Untold == -1

\* No receipt file: nothing with a body and a seal.
NoReceipt == [missing |-> TRUE]

\* Nothing has happened in the job yet.
Idle == [pc |-> "idle", attempt |-> 0, bundle |-> NoText,
         seen |-> [head |-> NoSha, body |-> NoText],
         changed |-> [records |-> <<>>, expected |-> 0, truncated |-> TRUE],
         receipt |-> NoReceipt, action |-> Untold, verify |-> Untold,
         failed |-> FALSE]

\* The event is the opening of the pull request.
Init ==
    /\ policy \in Policies
    /\ pull \in Pull
    /\ events = <<pull>>
    /\ jobs = [i \in 1 .. MaxEvents |-> Idle]

-----------------------------------------------------------------------------
(* The pull request: a push or an edit is an event of the workflow *)

Change(pr) ==
    /\ pr # pull /\ Len(events) < MaxEvents
    /\ pull' = pr
    /\ events' = Append(events, pr)
    /\ UNCHANGED <<policy, jobs>>

Push == \E h \in Heads : Change([pull EXCEPT !.head = h])

EditBody == \E t \in Bodies : Change([pull EXCEPT !.body = t])

-----------------------------------------------------------------------------
(* The steps of job i *)

Step(i, job) ==
    /\ jobs' = [jobs EXCEPT ![i] = job]
    /\ UNCHANGED <<policy, pull, events>>

\* declaration.txt: (event['pull_request']['body'] or '').
DeclarationFile(i) ==
    IF events[i].body = NoText THEN EmptyText ELSE events[i].body

Prepare(i) ==
    /\ i \leq Len(events) /\ jobs[i].pc = "idle"
    /\ Step(i, [jobs[i] EXCEPT !.pc = "pull", !.attempt = @ + 1,
                               !.bundle = DeclarationFile(i)])

\* ObservationUnavailable: no receipt is written, the action ends with 20.
ReadPull(i) ==
    /\ jobs[i].pc = "pull"
    /\ \/ Step(i, [jobs[i] EXCEPT !.pc = "files", !.seen = pull])
       \/ Step(i, [jobs[i] EXCEPT !.pc = "verify", !.action = 20,
                                  !.failed = TRUE])

\* The count is of the pull request as first read, the files are of now.
ReadFiles(i) ==
    LET expected == Len(Files[jobs[i].seen.head])
        Observed(records, truncated) ==
            [records |-> records, expected |-> expected,
             truncated |-> truncated]
    IN  /\ jobs[i].pc = "files"
        /\ \/ Step(i, [jobs[i] EXCEPT
                 !.pc = "readback",
                 !.changed = Observed(Files[pull.head], FALSE)])
           \/ Step(i, [jobs[i] EXCEPT
                 !.pc = "readback", !.failed = TRUE,
                 !.changed = Observed(<<>>, TRUE)])

\* What _declaration reads.  `declaration` is an input of the action in the
\* pinned workflow only, and no other source than pinned: looks at it.  For a
\* policy of an unknown version the collector is given inline entries.
NeedsText == policy.known /\ ~Inline(policy)

JudgedText(i) ==
    IF ~NeedsText THEN NoText
    ELSE [pr_body_allowlist |-> jobs[i].seen.body, pinned |-> jobs[i].bundle,
          file |-> Manifest][policy.source]

BoundSha == IF NeedsText /\ policy.source = "file" THEN Base ELSE NoSha

\* A count that differs at the read-back makes the listing incomplete.
Evidence(i, observed) ==
    LET job == jobs[i]
        moved == observed # NoSha /\ Len(Files[observed]) # job.changed.expected
    IN  [subject |-> [target |-> "head", head |-> job.seen.head, base |-> Base,
                      merge |-> NoSha, evaluated |-> job.seen.head],
         observed |-> observed,
         text |-> JudgedText(i),
         bound |-> BoundSha,
         changed |-> [job.changed EXCEPT !.truncated = @ \/ moved]]

\* A receipt of another head than the event's makes the action red.
ActionStatus(i, receipt) ==
    IF receipt.body.subject.head # events[i].head THEN 20
    ELSE CASE receipt.body.verdict = "PASS" -> 0
           [] receipt.body.verdict = "FAIL" -> 10
           [] OTHER -> 20

\* evaluate raises, so the command exits 2 with no receipt; the script then
\* misses the event's head.
Refuse(i) ==
    /\ jobs[i].pc = "readback" /\ ConfigurationRefused(policy)
    /\ Step(i, [jobs[i] EXCEPT !.pc = "verify", !.action = 20,
                               !.failed = TRUE])

\* The read-back, evaluate, build_receipt, and the script's report.
Report(i) ==
    \E observed \in {pull.head, NoSha} :
        LET receipt == BuildReceipt(policy, Evidence(i, observed))
        IN  /\ jobs[i].pc = "readback" /\ ~ConfigurationRefused(policy)
            /\ Step(i, [jobs[i] EXCEPT
                  !.pc = "verify", !.receipt = receipt,
                  !.action = ActionStatus(i, receipt),
                  !.failed = @ \/ observed = NoSha])

Bundle(i) == [policy |-> policy, declaration |-> jobs[i].bundle]

\* `if: always() && hashFiles(...) != ''`
Verify(i) ==
    /\ jobs[i].pc = "verify"
    /\ IF jobs[i].receipt = NoReceipt
       THEN Step(i, [jobs[i] EXCEPT !.pc = "done"])
       ELSE Step(i, [jobs[i] EXCEPT !.pc = "done",
                       !.verify = VerifyStatus(jobs[i].receipt, Bundle(i))])

\* A step of the job fails for a reason of its own, or the job is cancelled.
Break(i) ==
    /\ jobs[i].pc \notin {"idle", "done"}
    /\ Step(i, [jobs[i] EXCEPT !.pc = "done", !.failed = TRUE,
                               !.action = IF @ = Untold THEN 1 ELSE @,
                               !.verify = 1])

\* A fresh workspace and the same event.
Rerun(i) ==
    /\ jobs[i].pc = "done" /\ jobs[i].attempt < MaxAttempts
    /\ Step(i, [Idle EXCEPT !.attempt = jobs[i].attempt])

Next ==
    \/ Push \/ EditBody
    \/ \E i \in 1 .. MaxEvents :
          \/ Prepare(i) \/ ReadPull(i) \/ ReadFiles(i) \/ Refuse(i)
          \/ Report(i) \/ Verify(i) \/ Break(i) \/ Rerun(i)

Spec == Init /\ [][Next]_vars

-----------------------------------------------------------------------------
(* Properties *)

Phase == {"idle", "pull", "files", "readback", "verify", "done"}

Attempt == 0 .. MaxAttempts

Text == Texts \cup {NoText}

Seen == [head : Heads \cup {NoSha}, body : Text]

Listing ==
    [records : {Files[h] : h \in Heads} \cup {<<>>}, expected : Nat,
     truncated : BOOLEAN]

Status == {Untold, 0, 1, 2, 10, 20}

Job(receipt) ==
    [pc : Phase, attempt : Attempt, bundle : Text, seen : Seen,
     changed : Listing, receipt : {receipt}, action : Status,
     verify : Status, failed : BOOLEAN]

\* Every started job has written a declaration.txt, whatever body the event
\* has (proof-check.yml:31), besides what the variables hold.
TypeOK ==
    /\ policy \in Policies
    /\ pull \in Pull
    /\ events \in Seq(Pull) /\ Len(events) \in 1 .. MaxEvents
    /\ jobs = [i \in 1 .. MaxEvents |-> jobs[i]]
    /\ \A i \in 1 .. MaxEvents :
          /\ jobs[i] \in Job(jobs[i].receipt)
          /\ jobs[i].pc # "idle" =>
                i \leq Len(events) /\ jobs[i].bundle \in Texts
          /\ jobs[i].receipt # NoReceipt =>
                jobs[i].pc \in {"verify", "done"} /\ jobs[i].action # Untold

\* The bundle README.md asks for: the policy, and the text that was judged.
ProperBundle(i) ==
    [policy |-> policy,
     declaration |-> IF policy.trust = "none" THEN NoText ELSE JudgedText(i)]

Genuine(i) == jobs[i].receipt # NoReceipt

\* Every receipt the command can write, of any verdict, after any failure or
\* change of the pull request, verifies offline with its policy and the
\* declaration it was judged by: build_receipt never records what
\* verify_receipt or _verify_bundle derive otherwise.  The one exception is a
\* policy without a canonical form.  Only one of an unknown version gets a
\* receipt then, with a digest that verify_receipt never computes: it is
\* unverifiable, neither verified nor malformed.
GenuineVerifies ==
    \A i \in DOMAIN jobs : Genuine(i) =>
        LET status == VerifyStatus(jobs[i].receipt, ProperBundle(i))
        IN  IF policy.canonical THEN status = 0 ELSE ~policy.known /\ status = 20

Green(i) == jobs[i].pc = "done" /\ jobs[i].action = 0 /\ jobs[i].verify = 0

\* A green job has judged the head of its event by the body of its event,
\* although the action read both later and a re-run much later: the receipt
\* is of that head, and every path it records is one that body allows.
GreenJobIsCoherent ==
    \A i \in DOMAIN jobs :
        Green(i) =>
            LET body == jobs[i].receipt.body
                entries == ParsedEntries(policy, DeclarationFile(i))
            IN  /\ body.verdict = "PASS"
                /\ body.subject.head = events[i].head
                /\ ~CompileRefused(entries)
                /\ OutsidePaths(entries, Touched(body.changed.records)) = {}

\* One field of a receipt rewritten, as tests/test_receipt.py:83 and
\* tests/test_cli.py:589 do.
Rewritten(body, verdict, reasons, details, outside) ==
    [body EXCEPT !.verdict = verdict, !.reasons = reasons,
                 !.details = details, !.outside = outside]

Widened(body) ==
    {body} \cup {[body EXCEPT !.policy.entries = @ \cup {e}] : e \in Entries}

Reworded(body) ==
    {Rewritten(body, "PASS", {}, {Within}, {}),
     Rewritten(body, "INDETERMINATE", {"MIXED_HEAD_EVIDENCE"}, {}, {})}
    \cup {Rewritten(body, "FAIL", {"SCOPE_ESCAPE"}, {Outside}, {p}) :
             p \in Touched(body.changed.records)}

EditedCopies(receipt) ==
    {Seal(body) : body \in UNION {Reworded(wide) : wide \in Widened(receipt.body)}}

\* A copy of a receipt whose verdict or entries were rewritten and whose
\* digest was made to fit again verifies against the bundle only if evaluate
\* gives its verdict for the evidence the copy records, or if it claims
\* nothing; and no copy with a reserved reason verifies.
EditedCopyIsSupported ==
    \A i \in DOMAIN jobs : jobs[i].pc = "verify" /\ Genuine(i) =>
        \A copy \in EditedCopies(jobs[i].receipt) :
            VerifyStatus(copy, ProperBundle(i)) = 0 =>
                LET body == copy.body
                    ev == [Evidence(i, body.subject.head) EXCEPT
                             !.changed.truncated = ~body.changed.complete]
                IN  /\ body.verdict \in Decided
                    /\ Evaluate(policy, ev).verdict = body.verdict
                    /\ Evaluate(policy, ev).outside = body.outside

\* The policies whose declaration the bundle's declaration.txt is.
DeclaresBody ==
    policy.trust # "none" /\ NeedsText
        /\ policy.source \in {"pr_body_allowlist", "pinned"}

\* The status the action owes the pull request as the event describes it.
Owed(pr, text) ==
    LET entries == ParsedEntries(policy, text)
        records == Files[pr.head]
    IN  IF \/ CompileRefused(entries) \/ DigestDiffers(policy, text)
           \/ PathsRefused(records) \/ Len(records) \geq Ceiling
        THEN 20
        ELSE IF OutsidePaths(entries, Touched(records)) = {} THEN 0 ELSE 10

\* The job of the newest event, when none of its requests and steps failed,
\* verifies its receipt, and its action has the status that the pull request
\* as it is now deserves; with several jobs running and older ones re-run.
LatestJobDecides ==
    LET i == Len(events)
    IN  /\ DeclaresBody /\ events[i].body # NoText
        /\ jobs[i].pc = "done" /\ ~jobs[i].failed
        => /\ jobs[i].verify = 0
           /\ jobs[i].action = Owed(pull, pull.body)

\* README.md:116, "the workflow also uploads the policy and PR declaration
\* for offline verification", and tests/test_cli.py:615, which is named
\* test_offline_bundle_accepts_genuine_indeterminate_receipts: the job's own
\* verification accepts its receipt when nobody edited the body.
BundleVerifies ==
    \A i \in DOMAIN jobs :
        /\ DeclaresBody
        /\ jobs[i].pc = "done" /\ ~jobs[i].failed
        /\ jobs[i].seen.body = events[i].body
        => jobs[i].verify = 0
=============================================================================
