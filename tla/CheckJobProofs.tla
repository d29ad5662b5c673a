--------------------------- MODULE CheckJobProofs ---------------------------
(***************************************************************************)
(* Proofs about CheckJob: a receipt that was built verifies with its       *)
(* bundle if the policy has a canonical form, whatever the evidence, and a *)
(* green job has judged its event.  The first is a fact about the          *)
(* operators of Receipts and Rules; it becomes an invariant because a      *)
(* job's evidence does not change once its receipt is built.               *)
(***************************************************************************)
EXTENDS CheckJob, TLAPS

-----------------------------------------------------------------------------
(* build_receipt and verify_receipt *)

\* What evaluate answers is one of three kinds of records.
LEMMA EvaluateCases ==
    ASSUME NEW p \in PolicyDocument, NEW ev
    PROVE  \/ ~p.known /\ Evaluate(p, ev) =
                             Indeterminate({"EVIDENCE_AMBIGUOUS"}, {})
           \/ /\ p.known /\ ProblemReasons(p, ev) # {}
              /\ Evaluate(p, ev) =
                    Indeterminate(ProblemReasons(p, ev), ProblemDetails(ev))
           \/ /\ p.known /\ ProblemReasons(p, ev) = {}
              /\ LET outside == OutsidePaths(ParsedEntries(p, ev.text),
                                             Touched(ev.changed.records))
                 IN  \/ outside # {} /\ Evaluate(p, ev) = Fails(outside)
                     \/ outside = {} /\ Evaluate(p, ev) = Passes(ev.subject)
<1>0. p.known \in BOOLEAN  BY DEF PolicyDocument
<1>1. CASE ~p.known  BY <1>1 DEF Evaluate
<1>2. CASE p.known /\ ProblemReasons(p, ev) # {}  BY <1>2 DEF Evaluate
<1>3. CASE p.known /\ ProblemReasons(p, ev) = {}  BY <1>3 DEF Evaluate
<1>. QED  BY <1>0, <1>1, <1>2, <1>3

\* Whatever the problems are, they are reasons an INDETERMINATE may have.
LEMMA ProblemsAreReasons ==
    ASSUME NEW p \in PolicyDocument, NEW ev
    PROVE  ProblemReasons(p, ev) \subseteq
               {"EVIDENCE_MISSING", "EVIDENCE_AMBIGUOUS", "STALE_HEAD"}
BY DEF ProblemReasons, CoordinateReasons, DeclarationReasons, DriftReasons,
       PathReasons

\* Without a problem the declaration was resolved: what the receipt records
\* is what was parsed, and compile_scope accepts it.
LEMMA ResolvedDeclaration ==
    ASSUME NEW p \in PolicyDocument, NEW ev, p.known,
           DeclarationReasons(p, ev) = {}
    PROVE  /\ p.trust # "none"
           /\ RecordedEntries(p, ev) = ParsedEntries(p, ev.text)
           /\ ~CompileRefused(ParsedEntries(p, ev.text))
           /\ SourceType(p) # "none"
           /\ RecordedRaw(p, ev) = IF Inline(p) THEN p.entries ELSE ev.text
<1>0. p.known \in BOOLEAN /\ p.source \in Sources /\ p.trust \in Trusts
  BY DEF PolicyDocument
<1>1. /\ ~MissingDeclaration(p, ev.subject.base, ev.text, ev.bound)
      /\ ~AmbiguousDeclaration(p, ev.text, ev.bound)
  BY DEF DeclarationReasons
<1>2. p.trust # "none"  BY <1>1 DEF MissingDeclaration
<1>3. CASE Inline(p)
  <2>1. ParsedEntries(p, ev.text) = p.entries  BY <1>3 DEF ParsedEntries
  <2>2. RecordedEntries(p, ev) = ParsedEntries(p, ev.text)
    BY <1>1, <1>3 DEF RecordedEntries
  <2>3. ~CompileRefused(p.entries)  BY <1>1, <1>3 DEF AmbiguousDeclaration
  <2>4. SourceType(p) = "owner_pinned_input"  BY <1>2, <1>3 DEF SourceType
  <2>5. RecordedRaw(p, ev) = p.entries  BY <1>2, <1>3 DEF RecordedRaw
  <2>. QED  BY <1>2, <1>3, <2>1, <2>2, <2>3, <2>4, <2>5
<1>4. CASE ~Inline(p)
  <2>1. /\ ~(p.source = "file" /\ ev.bound = NoSha)
        /\ ~DigestDiffers(p, ev.text)
        /\ ~CompileRefused(ParsedEntries(p, ev.text))
    BY <1>1, <1>4 DEF AmbiguousDeclaration
  <2>2. RecordedEntries(p, ev) = ParsedEntries(p, ev.text)
    BY <1>1, <2>1 DEF RecordedEntries
  <2>3. SourceType(p) =
           [pr_body_allowlist |-> "author_pr_body",
            file |-> "trusted_base_manifest",
            pinned |-> "owner_pinned_input"][p.source]
    BY <1>2, <1>4 DEF SourceType
  <2>4. SourceType(p) # "none"  BY <1>0, <2>3 DEF Sources
  <2>5. RecordedRaw(p, ev) = ev.text  BY <1>2, <1>4 DEF RecordedRaw
  <2>. QED  BY <1>2, <1>4, <2>1, <2>2, <2>4, <2>5
<1>. QED  BY <1>3, <1>4

\* Every receipt that is built satisfies the conditions of the schema.
LEMMA BuiltIsClosed ==
    ASSUME NEW p \in PolicyDocument, NEW ev
    PROVE  SchemaClosed(Body(p, ev))
<1>. DEFINE e == Evaluate(p, ev)
            b == Body(p, ev)
<1>1. /\ b.verdict = e.verdict /\ b.reasons = e.reasons
      /\ b.details = e.details /\ b.outside = e.outside
  BY DEF Body
<1>2. CASE e.verdict = "PASS"
  <2>1. e = Passes(ev.subject)
    BY <1>2, EvaluateCases DEF Indeterminate, Fails
  <2>. QED  BY <1>1, <1>2, <2>1 DEF SchemaClosed, Passes, Within
<1>3. CASE e.verdict = "FAIL"
  <2>1. e.reasons = {"SCOPE_ESCAPE"} /\ e.outside # {}
    BY <1>3, EvaluateCases DEF Indeterminate, Fails, Passes
  <2>. QED  BY <1>1, <1>3, <2>1 DEF SchemaClosed
<1>4. CASE e.verdict \notin {"PASS", "FAIL"}
  <2>1. /\ e.reasons # {} /\ e.outside = {}
        /\ e.reasons \subseteq
              {"EVIDENCE_MISSING", "EVIDENCE_AMBIGUOUS", "STALE_HEAD"}
    BY <1>4, EvaluateCases, ProblemsAreReasons DEF Indeterminate, Fails, Passes
  <2>. QED  BY <1>1, <1>4, <2>1 DEF SchemaClosed
<1>. QED  BY <1>2, <1>3, <1>4

\* A verdict that claims something follows from what the receipt records.
LEMMA BuiltFollows ==
    ASSUME NEW p \in PolicyDocument, NEW ev
    PROVE  VerdictFollows(Body(p, ev))
<1>. DEFINE e == Evaluate(p, ev)
            b == Body(p, ev)
            outside == OutsidePaths(ParsedEntries(p, ev.text),
                                    Touched(ev.changed.records))
<1>1. /\ b.verdict = e.verdict /\ b.outside = e.outside
      /\ b.details = e.details /\ b.subject = ev.subject
      /\ b.changed.records = ev.changed.records
      /\ b.changed.complete = ChangedSetComplete(ev.changed)
      /\ b.policy = PolicyRecord(p, ev)
  BY DEF Body, ChangedPaths
<1>. SUFFICES ASSUME b.verdict # "INDETERMINATE"
              PROVE  Decidable(b) /\ OutcomeFollows(b)
  BY DEF VerdictFollows
<1>2. /\ p.known /\ ProblemReasons(p, ev) = {}
      /\ \/ outside # {} /\ e = Fails(outside)
         \/ outside = {} /\ e = Passes(ev.subject)
  BY <1>1, EvaluateCases DEF Indeterminate
<1>3. /\ CoordinateReasons(ev.subject) = {} /\ DeclarationReasons(p, ev) = {}
      /\ PathReasons(ev.changed) = {}
  BY <1>2 DEF ProblemReasons
<1>4. /\ b.policy.entries = ParsedEntries(p, ev.text)
      /\ ~CompileRefused(b.policy.entries)
      /\ b.policy.source # "none" /\ b.policy.trust # "none"
  BY <1>1, <1>2, <1>3, ResolvedDeclaration DEF PolicyRecord
<1>5. ChangedSetComplete(ev.changed) /\ ~PathsRefused(ev.changed.records)
  BY <1>3 DEF PathReasons
<1>6. Coherent(ev.subject)  BY <1>3 DEF CoordinateReasons, Coherent
<1>7. Decidable(b)  BY <1>1, <1>4, <1>5, <1>6 DEF Decidable
<1>8. OutcomeFollows(b)
  <2>1. OutsidePaths(b.policy.entries, Touched(b.changed.records)) = outside
    BY <1>1, <1>4
  <2>2. CASE outside # {} /\ e = Fails(outside)
    BY <1>1, <2>1, <2>2 DEF OutcomeFollows, Fails, Outside
  <2>3. CASE outside = {} /\ e = Passes(ev.subject)
    BY <1>1, <2>1, <2>3 DEF OutcomeFollows, Passes, Within
  <2>. QED  BY <1>2, <2>2, <2>3
<1>. QED  BY <1>7, <1>8

LEMMA BuiltVerifies ==
    ASSUME NEW p \in PolicyDocument, NEW ev
    PROVE  ReceiptVerifies(BuildReceipt(p, ev))
<1>. DEFINE b == Body(p, ev)
<1>1. BuildReceipt(p, ev).body = b /\ BuildReceipt(p, ev).seal = b
  BY DEF BuildReceipt, Seal
<1>2. b.changed = ChangedPaths(ev.changed) /\ b.ordered  BY DEF Body
<1>3. /\ Touched(b.changed.records) = b.changed.paths
      /\ b.changed.received = Len(b.changed.records)
  BY <1>2 DEF ChangedPaths
<1>4. HonestComplete(b.changed)
  BY <1>2 DEF ChangedPaths, HonestComplete, ChangedSetComplete
<1>5. b.reasons \cap Reserved = {}
  <2>1. b.reasons = Evaluate(p, ev).reasons  BY DEF Body
  <2>2. Evaluate(p, ev).reasons \subseteq
           {"EVIDENCE_MISSING", "EVIDENCE_AMBIGUOUS", "STALE_HEAD",
            "SCOPE_ESCAPE"}
    BY EvaluateCases, ProblemsAreReasons DEF Indeterminate, Fails, Passes
  <2>. QED  BY <2>1, <2>2 DEF Reserved
<1>6. VerdictFollows(b)  BY BuiltFollows
<1>. QED  BY <1>1, <1>2, <1>3, <1>4, <1>5, <1>6 DEF ReceiptVerifies

\* The bundle that holds the policy and the text that was judged, or no text
\* when the policy asks for none.
Judged(p, ev) ==
    [policy |-> p,
     declaration |-> IF ~p.known \/ p.trust = "none" \/ Inline(p)
                     THEN NoText ELSE ev.text]

\* A declaration that was judged is derived again, whatever became of it; a
\* file: source is read at the bound base.
LEMMA BundleDerives ==
    ASSUME NEW p \in PolicyDocument, NEW ev,
           p.source = "file" =>
              ev.bound = ev.subject.base /\ ev.bound # NoSha,
           p.canonical, p.known, p.trust # "none", ~Inline(p)
    PROVE  BundleMatches(PolicyRecord(p, ev), Judged(p, ev))
<1>. DEFINE r == PolicyRecord(p, ev)
            b == Judged(p, ev)
<1>0. p.known \in BOOLEAN /\ p.source \in Sources /\ p.trust \in Trusts
  BY DEF PolicyDocument
<1>1. PolicyMatches(r, b) /\ b.policy = p /\ b.declaration = ev.text
  BY DEF PolicyMatches, PolicyRecord, PolicyDigest, Judged
<1>2. r.raw = ev.text  BY DEF PolicyRecord, RecordedRaw
<1>3. r.source = [pr_body_allowlist |-> "author_pr_body",
                  file |-> "trusted_base_manifest",
                  pinned |-> "owner_pinned_input"][p.source]
  BY DEF PolicyRecord, SourceType
<1>4. /\ p.source = "pr_body_allowlist" => r.source = "author_pr_body"
      /\ p.source = "file" => r.source = "trusted_base_manifest"
      /\ p.source = "pinned" => r.source = "owner_pinned_input"
  BY <1>3
<1>5. r.entries = RecordedEntries(p, ev)  BY DEF PolicyRecord
<1>6. CASE ev.text = NoText
  <2>1. r.entries = {}
    BY <1>5, <1>6 DEF RecordedEntries, MissingDeclaration
  <2>2. ~NeedsDeclaration(r, b)  BY <1>2, <1>6 DEF NeedsDeclaration
  <2>3. ExpectedEntries(r, b) = {}
    BY <1>2, <1>6, <2>2 DEF ExpectedEntries
  <2>. QED  BY <1>1, <1>6, <2>1, <2>2, <2>3
            DEF BundleMatches, DeclarationMatches
<1>7. CASE ev.text # NoText
  <2>1. NeedsDeclaration(r, b)
    BY <1>0, <1>1, <1>2, <1>4, <1>7 DEF NeedsDeclaration, Sources
  <2>2. ~MissingDeclaration(p, ev.subject.base, ev.text, ev.bound)
    BY <1>7 DEF MissingDeclaration
  <2>3. r.entries = IF DigestDiffers(p, ev.text) THEN {}
                    ELSE ParsedEntries(p, ev.text)
    BY <1>5, <2>2 DEF RecordedEntries
  <2>4. DeclaredEntries(r, b) = r.entries
    <3>1. CASE p.source = "pr_body_allowlist"
      BY <1>1, <1>4, <2>3, <3>1 DEF DeclaredEntries, DigestDiffers, ParsedEntries
    <3>2. CASE p.source = "file"
      BY <1>1, <1>4, <2>3, <3>2 DEF DeclaredEntries, DigestDiffers, ParsedEntries
    <3>3. CASE p.source = "pinned"
      BY <1>1, <1>4, <2>3, <3>3 DEF DeclaredEntries, DigestDiffers, ParsedEntries
    <3>. QED  BY <1>0, <3>1, <3>2, <3>3 DEF Sources
  <2>5. ExpectedEntries(r, b) = r.entries
    BY <2>1, <2>4 DEF ExpectedEntries
  <2>. QED  BY <1>1, <1>2, <1>7, <2>5 DEF BundleMatches, DeclarationMatches
<1>. QED  BY <1>6, <1>7

\* Nor does a bundle without a text miss one when none was judged.
LEMMA BundleWithoutText ==
    ASSUME NEW p \in PolicyDocument, NEW ev,
           p.canonical, ~p.known \/ p.trust = "none" \/ Inline(p)
    PROVE  BundleMatches(PolicyRecord(p, ev), Judged(p, ev))
<1>. DEFINE r == PolicyRecord(p, ev)
            b == Judged(p, ev)
<1>0. p.known \in BOOLEAN  BY DEF PolicyDocument
<1>1. PolicyMatches(r, b) /\ b.policy = p /\ b.declaration = NoText
  BY DEF PolicyMatches, PolicyRecord, PolicyDigest, Judged
<1>2. CASE ~p.known \/ p.trust = "none"
  <2>1. r.raw = NoText  BY <1>2 DEF PolicyRecord, RecordedRaw
  <2>2. r.entries = {}
    BY <1>2 DEF PolicyRecord, RecordedEntries, MissingDeclaration
  <2>3. ~NeedsDeclaration(r, b)  BY <2>1 DEF NeedsDeclaration
  <2>4. ExpectedEntries(r, b) = {}  BY <2>1, <2>3 DEF ExpectedEntries
  <2>. QED  BY <1>1, <2>2, <2>3, <2>4 DEF BundleMatches, DeclarationMatches
<1>3. CASE p.known /\ p.trust # "none" /\ Inline(p)
  <2>1. r.raw = p.entries  BY <1>3 DEF PolicyRecord, RecordedRaw
  <2>2. r.source = "owner_pinned_input"
    BY <1>3 DEF PolicyRecord, SourceType
  <2>3. r.entries = p.entries
    BY <1>3 DEF PolicyRecord, RecordedEntries, MissingDeclaration, ParsedEntries
  <2>4. p.entries # NoText
    BY <1>3, NoneAssumption DEF Inline, PolicyDocument
  <2>5. ~NeedsDeclaration(r, b)
    BY <1>1, <1>3, <2>2 DEF NeedsDeclaration
  <2>6. ExpectedEntries(r, b) = p.entries
    BY <1>1, <2>1, <2>2, <2>4, <2>5 DEF ExpectedEntries
  <2>. QED  BY <1>1, <2>3, <2>5, <2>6 DEF BundleMatches, DeclarationMatches
<1>. QED  BY <1>0, <1>2, <1>3

\* A policy without a canonical form matches no record: it is unverifiable.
LEMMA BuiltVerifiesInBundle ==
    ASSUME NEW p \in PolicyDocument, NEW ev,
           p.known /\ ~Inline(p) =>
              (p.source = "file" =>
                  ev.bound = ev.subject.base /\ ev.bound # NoSha)
    PROVE  VerifyStatus(BuildReceipt(p, ev), Judged(p, ev)) =
               IF p.canonical THEN 0 ELSE 20
<1>1. BuildReceipt(p, ev).body = Body(p, ev)  BY DEF BuildReceipt, Seal
<1>2. Body(p, ev).policy = PolicyRecord(p, ev)  BY DEF Body
<1>3. CASE p.canonical
  <2>1. BundleMatches(PolicyRecord(p, ev), Judged(p, ev))
    BY <1>3, BundleDerives, BundleWithoutText
  <2>. QED
    BY <1>1, <1>2, <1>3, <2>1, BuiltIsClosed, BuiltVerifies DEF VerifyStatus
<1>4. CASE ~p.canonical
  <2>1. ~BundleMatches(PolicyRecord(p, ev), Judged(p, ev))
    BY <1>4 DEF BundleMatches, PolicyMatches, Judged
  <2>. QED  BY <1>1, <1>2, <1>4, <2>1, BuiltIsClosed DEF VerifyStatus
<1>. QED  BY <1>3, <1>4

-----------------------------------------------------------------------------
(* Types *)

Reached(i) ==
    /\ jobs[i].pc = "idle" => jobs[i].attempt < MaxAttempts
    /\ jobs[i].pc \in {"files", "readback"} => jobs[i].seen.head \in Heads

TInv == TypeOK /\ \A i \in 1 .. MaxEvents : Reached(i)

LEMMA ActionStatuses ==
    ASSUME NEW i, NEW receipt PROVE ActionStatus(i, receipt) \in {0, 10, 20}
BY DEF ActionStatus

LEMMA VerifyStatuses ==
    ASSUME NEW receipt, NEW bundle PROVE VerifyStatus(receipt, bundle) \in {0, 2, 20}
BY DEF VerifyStatus

\* A step of one job keeps the types if the job it leaves has them.
LEMMA StepTypes ==
    ASSUME TInv, NEW i \in 1 .. MaxEvents, NEW job, Step(i, job),
           job \in Job(job.receipt),
           job.pc # "idle" => i \leq Len(events) /\ job.bundle \in Texts,
           job.receipt # NoReceipt =>
              job.pc \in {"verify", "done"} /\ job.action # Untold,
           job.pc = "idle" => job.attempt < MaxAttempts,
           job.pc \in {"files", "readback"} => job.seen.head \in Heads
    PROVE  TInv'
<1>1. /\ policy' = policy /\ pull' = pull /\ events' = events
      /\ jobs' = [jobs EXCEPT ![i] = job]
  BY DEF Step
<1>2. jobs = [k \in 1 .. MaxEvents |-> jobs[k]]  BY DEF TInv, TypeOK
<1>3. /\ jobs' = [k \in 1 .. MaxEvents |-> jobs'[k]]
      /\ jobs'[i] = job
      /\ \A k \in 1 .. MaxEvents : k # i => jobs'[k] = jobs[k]
  BY <1>1, <1>2
<1>4. ASSUME NEW k \in 1 .. MaxEvents
      PROVE  /\ jobs'[k] \in Job(jobs'[k].receipt)
             /\ jobs'[k].pc # "idle" =>
                   k \leq Len(events) /\ jobs'[k].bundle \in Texts
             /\ jobs'[k].receipt # NoReceipt =>
                   jobs'[k].pc \in {"verify", "done"}
                      /\ jobs'[k].action # Untold
             /\ jobs'[k].pc = "idle" => jobs'[k].attempt < MaxAttempts
             /\ jobs'[k].pc \in {"files", "readback"} =>
                   jobs'[k].seen.head \in Heads
  <2>1. CASE k = i  BY <1>3, <2>1
  <2>2. CASE k # i  BY <1>3, <2>2 DEF TInv, TypeOK, Reached
  <2>. QED  BY <2>1, <2>2
<1>6. TypeOK'  BY <1>1, <1>3, <1>4 DEF TInv, TypeOK
<1>7. \A k \in 1 .. MaxEvents : Reached(k)'  BY <1>4 DEF Reached
<1>. QED  BY <1>6, <1>7 DEF TInv

LEMMA IdleTypes == Idle \in Job(NoReceipt)
<1>1. 0 \in 0 .. MaxAttempts  BY BoundAssumption
<1>. QED  BY <1>1, FilesAssumption DEF Idle, Job, Untold, Phase, Attempt, Text, Seen, Listing, Status

LEMMA TypeInit == Init => TInv
<1>. SUFFICES ASSUME Init PROVE TInv  OBVIOUS
<1>1. events \in Seq(Pull) /\ Len(events) \in 1 .. MaxEvents
  BY BoundAssumption DEF Init
<1>2. \A i \in 1 .. MaxEvents : jobs[i] = Idle  BY DEF Init
<1>3. jobs = [i \in 1 .. MaxEvents |-> jobs[i]]  BY DEF Init
<1>4. /\ Idle.pc = "idle" /\ Idle.receipt = NoReceipt
      /\ Idle.attempt < MaxAttempts
  BY BoundAssumption DEF Idle
<1>. QED
  BY <1>1, <1>2, <1>3, <1>4, IdleTypes DEF Init, TInv, TypeOK, Reached

LEMMA ChangeTypes ==
    ASSUME TInv, NEW pr \in Pull, Change(pr) PROVE TInv'
<1>1. /\ events' \in Seq(Pull)
      /\ Len(events') = Len(events) + 1
  BY DEF Change, TInv, TypeOK
<1>2. Len(events') \in 1 .. MaxEvents
  BY <1>1, BoundAssumption DEF Change, TInv, TypeOK
<1>3. \A i : i \leq Len(events) /\ i \in 1 .. MaxEvents => i \leq Len(events')
  BY <1>1, <1>2, BoundAssumption DEF TInv, TypeOK
<1>. QED  BY <1>1, <1>2, <1>3 DEF Change, TInv, TypeOK, Reached

\* The fields of a job, as its type gives them.
LEMMA JobFields ==
    ASSUME TInv, NEW i \in 1 .. MaxEvents
    PROVE  /\ jobs[i] \in Job(jobs[i].receipt)
           /\ jobs[i].pc # "idle" =>
                 i \leq Len(events) /\ jobs[i].bundle \in Texts
           /\ jobs[i].receipt # NoReceipt =>
                 jobs[i].pc \in {"verify", "done"} /\ jobs[i].action # Untold
           /\ Reached(i)
BY DEF TInv, TypeOK

LEMMA Phases ==
    \A pc \in {"idle", "pull", "files", "readback", "verify", "done"} :
        pc \in Phase
BY DEF Phase

LEMMA Statuses == \A s \in {Untold, 0, 1, 2, 10, 20} : s \in Status
BY DEF Status

LEMMA PrepareTypes ==
    ASSUME TInv, NEW i \in 1 .. MaxEvents, Prepare(i) PROVE TInv'
<1>1. i \in 1 .. Len(events) /\ events[i] \in Pull
  BY DEF Prepare, TInv, TypeOK
<1>2. DeclarationFile(i) \in Texts
  BY <1>1, TextAssumption DEF DeclarationFile, Pull
<1>3. jobs[i].attempt + 1 \in Attempt /\ DeclarationFile(i) \in Text
  BY <1>2, JobFields, BoundAssumption
  DEF Prepare, Reached, Job, Attempt, Text
<1>. DEFINE job == [jobs[i] EXCEPT !.pc = "pull", !.attempt = @ + 1,
                                   !.bundle = DeclarationFile(i)]
<1>4. /\ job \in Job(jobs[i].receipt) /\ job.pc = "pull"
      /\ job.bundle = DeclarationFile(i) /\ job.receipt = jobs[i].receipt
  BY <1>3, JobFields, Phases DEF Job
<1>5. jobs[i].receipt = NoReceipt  BY JobFields DEF Prepare
<1>6. Step(i, job)  BY DEF Prepare
<1>. HIDE DEF job
<1>. QED  BY <1>2, <1>4, <1>5, <1>6, StepTypes DEF Prepare

LEMMA ReadPullTypes ==
    ASSUME TInv, NEW i \in 1 .. MaxEvents, ReadPull(i) PROVE TInv'
<1>0. /\ jobs[i].pc = "pull" /\ jobs[i].receipt = NoReceipt
      /\ i \leq Len(events) /\ jobs[i].bundle \in Texts
  BY JobFields DEF ReadPull
<1>. DEFINE read == [jobs[i] EXCEPT !.pc = "files", !.seen = pull]
            lost == [jobs[i] EXCEPT !.pc = "verify", !.action = 20,
                                    !.failed = TRUE]
<1>1. CASE Step(i, read)
  <2>1. pull \in Seen /\ pull.head \in Heads
    BY TextAssumption DEF TInv, TypeOK, Pull, Seen, Text
  <2>2. /\ read \in Job(jobs[i].receipt) /\ read.pc = "files"
        /\ read.seen = pull
        /\ read.bundle = jobs[i].bundle /\ read.receipt = jobs[i].receipt
    BY <2>1, JobFields, Phases DEF Job
  <2>. HIDE DEF read
  <2>. QED  BY <1>0, <1>1, <2>1, <2>2, StepTypes
<1>2. CASE Step(i, lost)
  <2>1. /\ lost \in Job(jobs[i].receipt) /\ lost.pc = "verify"
        /\ lost.bundle = jobs[i].bundle /\ lost.receipt = jobs[i].receipt
    BY JobFields, Phases, Statuses DEF Job
  <2>. HIDE DEF lost
  <2>. QED  BY <1>0, <1>2, <2>1, StepTypes
<1>. QED  BY <1>1, <1>2 DEF ReadPull

LEMMA ReadFilesTypes ==
    ASSUME TInv, NEW i \in 1 .. MaxEvents, ReadFiles(i) PROVE TInv'
<1>0. /\ jobs[i].pc = "files" /\ jobs[i].receipt = NoReceipt
      /\ i \leq Len(events) /\ jobs[i].bundle \in Texts
      /\ jobs[i].seen.head \in Heads
  BY JobFields DEF ReadFiles, Reached
<1>. DEFINE expected == Len(Files[jobs[i].seen.head])
            whole == [records |-> Files[pull.head], expected |-> expected,
                      truncated |-> FALSE]
            none == [records |-> <<>>, expected |-> expected,
                     truncated |-> TRUE]
            read == [jobs[i] EXCEPT !.pc = "readback", !.changed = whole]
            lost == [jobs[i] EXCEPT !.pc = "readback", !.failed = TRUE,
                                    !.changed = none]
<1>1. Step(i, read) \/ Step(i, lost)  BY DEF ReadFiles
<1>2. expected \in Nat  BY <1>0, FilesAssumption
<1>3. whole \in Listing /\ none \in Listing
  BY <1>2 DEF Listing, TInv, TypeOK, Pull
<1>. HIDE DEF whole, none
<1>4. CASE Step(i, read)
  <2>1. /\ read \in Job(jobs[i].receipt) /\ read.pc = "readback"
        /\ read.seen = jobs[i].seen
        /\ read.bundle = jobs[i].bundle /\ read.receipt = jobs[i].receipt
    BY <1>3, JobFields, Phases DEF Job
  <2>. HIDE DEF read
  <2>. QED  BY <1>0, <1>4, <2>1, StepTypes
<1>5. CASE Step(i, lost)
  <2>1. /\ lost \in Job(jobs[i].receipt) /\ lost.pc = "readback"
        /\ lost.seen = jobs[i].seen
        /\ lost.bundle = jobs[i].bundle /\ lost.receipt = jobs[i].receipt
    BY <1>3, JobFields, Phases DEF Job
  <2>. HIDE DEF lost
  <2>. QED  BY <1>0, <1>5, <2>1, StepTypes
<1>. QED  BY <1>1, <1>4, <1>5

LEMMA RefuseTypes ==
    ASSUME TInv, NEW i \in 1 .. MaxEvents, Refuse(i) PROVE TInv'
<1>0. /\ jobs[i].pc = "readback" /\ jobs[i].receipt = NoReceipt
      /\ i \leq Len(events) /\ jobs[i].bundle \in Texts
  BY JobFields DEF Refuse
<1>. DEFINE job == [jobs[i] EXCEPT !.pc = "verify", !.action = 20,
                                   !.failed = TRUE]
<1>1. Step(i, job)  BY DEF Refuse
<1>2. /\ job \in Job(jobs[i].receipt) /\ job.pc = "verify"
      /\ job.bundle = jobs[i].bundle /\ job.receipt = jobs[i].receipt
  BY JobFields, Phases, Statuses DEF Job
<1>. HIDE DEF job
<1>. QED  BY <1>0, <1>1, <1>2, StepTypes

LEMMA ReportTypes ==
    ASSUME TInv, NEW i \in 1 .. MaxEvents, Report(i) PROVE TInv'
<1>0. i \leq Len(events) /\ jobs[i].bundle \in Texts
  BY JobFields DEF Report
<1>1. PICK observed \in {pull.head, NoSha} :
         LET receipt == BuildReceipt(policy, Evidence(i, observed))
         IN  Step(i, [jobs[i] EXCEPT
                !.pc = "verify", !.receipt = receipt,
                !.action = ActionStatus(i, receipt),
                !.failed = @ \/ observed = NoSha])
  BY DEF Report
<1>. DEFINE receipt == BuildReceipt(policy, Evidence(i, observed))
            status == ActionStatus(i, receipt)
            failed == jobs[i].failed \/ observed = NoSha
            job == [jobs[i] EXCEPT !.pc = "verify", !.receipt = receipt,
                                   !.action = status, !.failed = failed]
<1>2. Step(i, job)  BY <1>1
<1>3. status \in Status /\ status # Untold
  BY ActionStatuses, Statuses DEF Untold
<1>4. failed \in BOOLEAN  OBVIOUS
<1>. HIDE DEF receipt, status, failed
<1>5. /\ job \in Job(receipt) /\ job.pc = "verify" /\ job.action = status
      /\ job.bundle = jobs[i].bundle /\ job.receipt = receipt
  BY <1>3, <1>4, JobFields, Phases DEF Job
<1>. HIDE DEF job
<1>. QED  BY <1>0, <1>2, <1>3, <1>5, StepTypes

LEMMA VerifyTypes ==
    ASSUME TInv, NEW i \in 1 .. MaxEvents, Verify(i) PROVE TInv'
<1>0. i \leq Len(events) /\ jobs[i].bundle \in Texts
  BY JobFields DEF Verify
<1>. DEFINE status == VerifyStatus(jobs[i].receipt, Bundle(i))
            skipped == [jobs[i] EXCEPT !.pc = "done"]
            verified == [jobs[i] EXCEPT !.pc = "done", !.verify = status]
<1>1. \/ jobs[i].receipt = NoReceipt /\ Step(i, skipped)
      \/ jobs[i].receipt # NoReceipt /\ Step(i, verified)
  BY DEF Verify
<1>2. status \in Status  BY VerifyStatuses, Statuses
<1>. HIDE DEF status
<1>3. CASE Step(i, skipped) /\ jobs[i].receipt = NoReceipt
  <2>1. /\ skipped \in Job(jobs[i].receipt) /\ skipped.pc = "done"
        /\ skipped.bundle = jobs[i].bundle
        /\ skipped.receipt = jobs[i].receipt
    BY JobFields, Phases DEF Job
  <2>. HIDE DEF skipped
  <2>. QED  BY <1>0, <1>3, <2>1, StepTypes
<1>4. CASE Step(i, verified)
  <2>1. /\ verified \in Job(jobs[i].receipt) /\ verified.pc = "done"
        /\ verified.bundle = jobs[i].bundle
        /\ verified.action = jobs[i].action
        /\ verified.receipt = jobs[i].receipt
    BY <1>2, JobFields, Phases DEF Job
  <2>. HIDE DEF verified
  <2>. QED  BY <1>0, <1>4, <2>1, JobFields, StepTypes
<1>. QED  BY <1>1, <1>3, <1>4

LEMMA BreakTypes ==
    ASSUME TInv, NEW i \in 1 .. MaxEvents, Break(i) PROVE TInv'
<1>0. i \leq Len(events) /\ jobs[i].bundle \in Texts
  BY JobFields DEF Break
<1>. DEFINE status == IF jobs[i].action = Untold THEN 1 ELSE jobs[i].action
            job == [jobs[i] EXCEPT !.pc = "done", !.failed = TRUE,
                                   !.action = status, !.verify = 1]
<1>1. Step(i, job)  BY DEF Break
<1>2. jobs[i].action \in Status  BY JobFields DEF Job
<1>3. status \in Status /\ status # Untold
  BY <1>2, Statuses DEF Untold
<1>. HIDE DEF status
<1>4. /\ job \in Job(jobs[i].receipt) /\ job.pc = "done"
      /\ job.action = status
      /\ job.bundle = jobs[i].bundle /\ job.receipt = jobs[i].receipt
  BY <1>3, JobFields, Phases, Statuses DEF Job
<1>. HIDE DEF job
<1>. QED  BY <1>0, <1>1, <1>3, <1>4, StepTypes

LEMMA RerunTypes ==
    ASSUME TInv, NEW i \in 1 .. MaxEvents, Rerun(i) PROVE TInv'
<1>1. jobs[i].attempt \in Attempt /\ jobs[i].attempt < MaxAttempts
  BY JobFields DEF Rerun, Job
<1>. DEFINE job == [Idle EXCEPT !.attempt = jobs[i].attempt]
<1>2. Step(i, job)  BY DEF Rerun
<1>3. Idle.pc = "idle" /\ Idle.receipt = NoReceipt  BY DEF Idle
<1>4. /\ job \in Job(NoReceipt) /\ job.pc = "idle"
      /\ job.attempt = jobs[i].attempt /\ job.receipt = NoReceipt
  BY <1>1, <1>3, IdleTypes DEF Job
<1>. HIDE DEF job
<1>. QED  BY <1>1, <1>2, <1>4, StepTypes

LEMMA TypeStep == TInv /\ [Next]_vars => TInv'
<1>. SUFFICES ASSUME TInv, [Next]_vars PROVE TInv'  OBVIOUS
<1>1. pull \in Pull  BY DEF TInv, TypeOK
<1>2. CASE Push
  <2>1. PICK h \in Heads : Change([pull EXCEPT !.head = h])
    BY <1>2 DEF Push
  <2>2. [pull EXCEPT !.head = h] \in Pull  BY <1>1 DEF Pull
  <2>. QED  BY <2>1, <2>2, ChangeTypes
<1>3. CASE EditBody
  <2>1. PICK t \in Bodies : Change([pull EXCEPT !.body = t])
    BY <1>3 DEF EditBody
  <2>2. [pull EXCEPT !.body = t] \in Pull  BY <1>1 DEF Pull
  <2>. QED  BY <2>1, <2>2, ChangeTypes
<1>4. ASSUME NEW i \in 1 .. MaxEvents,
             \/ Prepare(i) \/ ReadPull(i) \/ ReadFiles(i) \/ Refuse(i)
             \/ Report(i) \/ Verify(i) \/ Break(i) \/ Rerun(i)
      PROVE  TInv'
  BY <1>4, PrepareTypes, ReadPullTypes, ReadFilesTypes, RefuseTypes,
     ReportTypes, VerifyTypes, BreakTypes, RerunTypes
<1>5. CASE UNCHANGED vars
  BY <1>5 DEF vars, TInv, TypeOK, Reached
<1>. QED  BY <1>2, <1>3, <1>4, <1>5 DEF Next

\* The variables keep their types, and every started job has written a text
\* as its declaration.txt, whatever the event's body is.
THEOREM TypeCorrect == Spec => []TypeOK
<1>1. Spec => []TInv  BY TypeInit, TypeStep, PTL DEF Spec
<1>2. TInv => TypeOK  BY DEF TInv
<1>. QED  BY <1>1, <1>2, PTL

-----------------------------------------------------------------------------
(* What a job's receipt and statuses say of its event *)

BuiltBy(i) ==
    /\ ~ConfigurationRefused(policy)
    /\ \E observed \in Heads \cup {NoSha} :
          jobs[i].receipt = BuildReceipt(policy, Evidence(i, observed))

\* The job keeps the declaration of its event; a receipt was built from the
\* job's evidence and a policy evaluate takes; a status 0 is the one its receipt has.
Faithful(i) ==
    /\ jobs[i].pc # "idle" => jobs[i].bundle = DeclarationFile(i)
    /\ jobs[i].receipt # NoReceipt => BuiltBy(i)
    /\ jobs[i].action = 0 =>
          /\ jobs[i].pc \in {"verify", "done"}
          /\ BuiltBy(i) /\ ActionStatus(i, jobs[i].receipt) = 0
    /\ jobs[i].verify = 0 =>
          /\ jobs[i].pc = "done"
          /\ VerifyStatus(jobs[i].receipt, Bundle(i)) = 0

IInv == TInv /\ \A i \in 1 .. MaxEvents : Faithful(i)

\* Evidence is a function of what a job has read and of the policy.
LEMMA EvidenceKept ==
    ASSUME NEW k, policy' = policy,
           jobs'[k].seen = jobs[k].seen, jobs'[k].changed = jobs[k].changed,
           jobs'[k].bundle = jobs[k].bundle
    PROVE  /\ \A observed : Evidence(k, observed)' = Evidence(k, observed)
           /\ Bundle(k)' = Bundle(k)
<1>1. NeedsText' = NeedsText  BY DEF NeedsText, Inline
<1>2. JudgedText(k)' = JudgedText(k)  BY <1>1 DEF JudgedText
<1>3. BoundSha' = BoundSha  BY <1>1 DEF BoundSha
<1>4. ASSUME NEW observed
      PROVE  Evidence(k, observed)' = Evidence(k, observed)
  BY <1>2, <1>3 DEF Evidence
<1>5. Bundle(k)' = Bundle(k)  BY DEF Bundle
<1>. QED  BY <1>4, <1>5

LEMMA BuiltByKept ==
    ASSUME NEW k, policy' = policy, BuiltBy(k),
           jobs'[k].seen = jobs[k].seen, jobs'[k].changed = jobs[k].changed,
           jobs'[k].bundle = jobs[k].bundle,
           jobs'[k].receipt = jobs[k].receipt
    PROVE  BuiltBy(k)'
<1>1. PICK observed \in Heads \cup {NoSha} :
         jobs[k].receipt = BuildReceipt(policy, Evidence(k, observed))
  BY DEF BuiltBy
<1>2. Evidence(k, observed)' = Evidence(k, observed)  BY EvidenceKept
<1>3. jobs'[k].receipt = BuildReceipt(policy', Evidence(k, observed)')
  BY <1>1, <1>2
<1>4. ~ConfigurationRefused(policy')  BY DEF BuiltBy
<1>. QED  BY <1>3, <1>4 DEF BuiltBy

\* A job that does not move stays faithful while events are appended.
LEMMA OtherKept ==
    ASSUME TInv, NEW k \in 1 .. MaxEvents, Faithful(k),
           policy' = policy, jobs'[k] = jobs[k],
           k \leq Len(events) => events'[k] = events[k]
    PROVE  Faithful(k)'
<1>1. CASE jobs[k].pc = "idle"
  <2>1. jobs[k].receipt = NoReceipt /\ jobs[k].action # 0
           /\ jobs[k].verify # 0
    BY <1>1, JobFields DEF Faithful
  <2>. QED  BY <1>1, <2>1 DEF Faithful
<1>2. CASE jobs[k].pc # "idle"
  <2>1. events'[k] = events[k]  BY <1>2, JobFields
  <2>2. DeclarationFile(k)' = DeclarationFile(k)
    BY <2>1 DEF DeclarationFile
  <2>3. ActionStatus(k, jobs[k].receipt)' = ActionStatus(k, jobs[k].receipt)
    BY <2>1 DEF ActionStatus
  <2>4. BuiltBy(k) => BuiltBy(k)'  BY BuiltByKept
  <2>5. Bundle(k)' = Bundle(k)  BY EvidenceKept
  <2>. QED  BY <2>2, <2>3, <2>4, <2>5 DEF Faithful
<1>. QED  BY <1>1, <1>2

\* A step of one job keeps IInv if that job is left faithful.
LEMMA StepFaithful ==
    ASSUME IInv, TInv', NEW i \in 1 .. MaxEvents, NEW job, Step(i, job),
           Faithful(i)'
    PROVE  IInv'
<1>1. /\ policy' = policy /\ events' = events
      /\ \A k \in 1 .. MaxEvents : k # i => jobs'[k] = jobs[k]
  BY DEF Step, IInv, TInv, TypeOK
<1>2. ASSUME NEW k \in 1 .. MaxEvents, k # i PROVE Faithful(k)'
  BY <1>1, <1>2, OtherKept DEF IInv
<1>. QED  BY <1>2 DEF IInv

LEMMA Stepped ==
    ASSUME TInv, NEW i \in 1 .. MaxEvents, NEW job, Step(i, job)
    PROVE  /\ policy' = policy /\ events' = events /\ jobs'[i] = job
BY DEF Step, TInv, TypeOK

\* Before its report a job has no receipt and no status 0.
LEMMA Unreported ==
    ASSUME IInv, NEW i \in 1 .. MaxEvents,
           jobs[i].pc \in {"idle", "pull", "files", "readback"}
    PROVE  /\ jobs[i].receipt = NoReceipt
           /\ jobs[i].action # 0 /\ jobs[i].verify # 0
BY JobFields DEF IInv, Faithful

LEMMA PrepareFaithful ==
    ASSUME IInv, TInv', NEW i \in 1 .. MaxEvents, Prepare(i) PROVE IInv'
<1>. DEFINE job == [jobs[i] EXCEPT !.pc = "pull", !.attempt = @ + 1,
                                   !.bundle = DeclarationFile(i)]
<1>1. Step(i, job)  BY DEF Prepare
<1>2. policy' = policy /\ events' = events /\ jobs'[i] = job
  BY <1>1, Stepped DEF IInv
<1>3. /\ job.pc = "pull" /\ job.bundle = DeclarationFile(i)
      /\ job.receipt = jobs[i].receipt
      /\ job.action = jobs[i].action /\ job.verify = jobs[i].verify
  BY JobFields DEF IInv, Job
<1>. HIDE DEF job
<1>4. DeclarationFile(i)' = DeclarationFile(i)  BY <1>2 DEF DeclarationFile
<1>5. Faithful(i)'
  BY <1>2, <1>3, <1>4, Unreported DEF Faithful, Prepare
<1>. QED  BY <1>1, <1>5, StepFaithful

\* A step that writes no receipt and no status 0 leaves the job faithful.
LEMMA ReadFaithful ==
    ASSUME IInv, TInv', NEW i \in 1 .. MaxEvents, NEW job, Step(i, job),
           jobs[i].pc \in {"pull", "files", "readback"},
           job.bundle = jobs[i].bundle, job.receipt = jobs[i].receipt,
           job.action \in {jobs[i].action, 20}, job.verify = jobs[i].verify
    PROVE  IInv'
<1>1. policy' = policy /\ events' = events /\ jobs'[i] = job
  BY Stepped DEF IInv
<1>2. DeclarationFile(i)' = DeclarationFile(i)  BY <1>1 DEF DeclarationFile
<1>3. job.bundle = DeclarationFile(i)  BY DEF IInv, Faithful
<1>4. job.receipt = NoReceipt /\ job.action # 0 /\ job.verify # 0
  BY Unreported
<1>5. Faithful(i)'  BY <1>1, <1>2, <1>3, <1>4 DEF Faithful
<1>. QED  BY <1>5, StepFaithful

LEMMA ReadPullFaithful ==
    ASSUME IInv, TInv', NEW i \in 1 .. MaxEvents, ReadPull(i) PROVE IInv'
<1>. DEFINE read == [jobs[i] EXCEPT !.pc = "files", !.seen = pull]
            lost == [jobs[i] EXCEPT !.pc = "verify", !.action = 20,
                                    !.failed = TRUE]
<1>1. jobs[i].pc = "pull" /\ (Step(i, read) \/ Step(i, lost))
  BY DEF ReadPull
<1>2. /\ read.bundle = jobs[i].bundle /\ read.receipt = jobs[i].receipt
      /\ read.action = jobs[i].action /\ read.verify = jobs[i].verify
  BY JobFields DEF IInv, Job
<1>3. /\ lost.bundle = jobs[i].bundle /\ lost.receipt = jobs[i].receipt
      /\ lost.action = 20 /\ lost.verify = jobs[i].verify
  BY JobFields DEF IInv, Job
<1>. HIDE DEF read, lost
<1>. QED  BY <1>1, <1>2, <1>3, ReadFaithful

LEMMA ReadFilesFaithful ==
    ASSUME IInv, TInv', NEW i \in 1 .. MaxEvents, ReadFiles(i) PROVE IInv'
<1>. DEFINE expected == Len(Files[jobs[i].seen.head])
            whole == [records |-> Files[pull.head], expected |-> expected,
                      truncated |-> FALSE]
            none == [records |-> <<>>, expected |-> expected,
                     truncated |-> TRUE]
            read == [jobs[i] EXCEPT !.pc = "readback", !.changed = whole]
            lost == [jobs[i] EXCEPT !.pc = "readback", !.failed = TRUE,
                                    !.changed = none]
<1>1. jobs[i].pc = "files" /\ (Step(i, read) \/ Step(i, lost))
  BY DEF ReadFiles
<1>. HIDE DEF whole, none
<1>2. /\ read.bundle = jobs[i].bundle /\ read.receipt = jobs[i].receipt
      /\ read.action = jobs[i].action /\ read.verify = jobs[i].verify
  BY JobFields DEF IInv, Job
<1>3. /\ lost.bundle = jobs[i].bundle /\ lost.receipt = jobs[i].receipt
      /\ lost.action = jobs[i].action /\ lost.verify = jobs[i].verify
  BY JobFields DEF IInv, Job
<1>. HIDE DEF read, lost
<1>. QED  BY <1>1, <1>2, <1>3, ReadFaithful

LEMMA RefuseFaithful ==
    ASSUME IInv, TInv', NEW i \in 1 .. MaxEvents, Refuse(i) PROVE IInv'
<1>. DEFINE job == [jobs[i] EXCEPT !.pc = "verify", !.action = 20,
                                   !.failed = TRUE]
<1>1. jobs[i].pc = "readback" /\ Step(i, job)  BY DEF Refuse
<1>2. /\ job.bundle = jobs[i].bundle /\ job.receipt = jobs[i].receipt
      /\ job.action = 20 /\ job.verify = jobs[i].verify
  BY JobFields DEF IInv, Job
<1>. HIDE DEF job
<1>. QED  BY <1>1, <1>2, ReadFaithful

LEMMA ReportFaithful ==
    ASSUME IInv, TInv', NEW i \in 1 .. MaxEvents, Report(i) PROVE IInv'
<1>1. PICK observed \in {pull.head, NoSha} :
         LET receipt == BuildReceipt(policy, Evidence(i, observed))
         IN  Step(i, [jobs[i] EXCEPT
                !.pc = "verify", !.receipt = receipt,
                !.action = ActionStatus(i, receipt),
                !.failed = @ \/ observed = NoSha])
  BY DEF Report
<1>. DEFINE receipt == BuildReceipt(policy, Evidence(i, observed))
            status == ActionStatus(i, receipt)
            failed == jobs[i].failed \/ observed = NoSha
            job == [jobs[i] EXCEPT !.pc = "verify", !.receipt = receipt,
                                   !.action = status, !.failed = failed]
<1>2. Step(i, job)  BY <1>1
<1>3. observed \in Heads \cup {NoSha}  BY DEF IInv, TInv, TypeOK, Pull
<1>. HIDE DEF receipt, status, failed
<1>4. /\ job.pc = "verify" /\ job.receipt = receipt /\ job.action = status
      /\ job.bundle = jobs[i].bundle /\ job.verify = jobs[i].verify
      /\ job.seen = jobs[i].seen /\ job.changed = jobs[i].changed
  BY JobFields DEF IInv, Job
<1>5. policy' = policy /\ events' = events /\ jobs'[i] = job
  BY <1>2, Stepped DEF IInv
<1>. HIDE DEF job
<1>6. Evidence(i, observed)' = Evidence(i, observed)
  BY <1>4, <1>5, EvidenceKept
<1>7. jobs'[i].receipt = BuildReceipt(policy', Evidence(i, observed)')
  BY <1>4, <1>5, <1>6 DEF receipt
<1>8. BuiltBy(i)'
  <2>1. ~ConfigurationRefused(policy')  BY <1>5 DEF Report
  <2>. QED  BY <1>3, <1>7, <2>1 DEF BuiltBy
<1>9. ActionStatus(i, jobs[i].receipt)' = status
  BY <1>4, <1>5 DEF ActionStatus, status
<1>10. DeclarationFile(i)' = DeclarationFile(i)
  BY <1>5 DEF DeclarationFile
<1>11. /\ job.bundle = DeclarationFile(i) /\ job.verify # 0
  BY <1>4, Unreported DEF Report, IInv, Faithful
<1>12. Faithful(i)'
  BY <1>4, <1>5, <1>8, <1>9, <1>10, <1>11 DEF Faithful
<1>. QED  BY <1>2, <1>12, StepFaithful

\* A step after the report that keeps what was read and reported leaves the
\* job faithful, if a verification it made has the status it wrote.
LEMMA AfterwardsFaithful ==
    ASSUME IInv, TInv', NEW i \in 1 .. MaxEvents, NEW job, Step(i, job),
           jobs[i].pc # "idle",
           job.pc = "done", job.bundle = jobs[i].bundle,
           job.seen = jobs[i].seen, job.changed = jobs[i].changed,
           job.receipt = jobs[i].receipt,
           job.action \in {jobs[i].action, 1},
           job.verify = 0 =>
              VerifyStatus(jobs[i].receipt, Bundle(i)) = 0
    PROVE  IInv'
<1>1. policy' = policy /\ events' = events /\ jobs'[i] = job
  BY Stepped DEF IInv
<1>2. DeclarationFile(i)' = DeclarationFile(i)  BY <1>1 DEF DeclarationFile
<1>3. BuiltBy(i) => BuiltBy(i)'  BY <1>1, BuiltByKept
<1>4. Bundle(i)' = Bundle(i)  BY <1>1, EvidenceKept
<1>5. ActionStatus(i, jobs[i].receipt)' = ActionStatus(i, jobs[i].receipt)
  BY <1>1 DEF ActionStatus
<1>6. Faithful(i)'
  BY <1>1, <1>2, <1>3, <1>4, <1>5 DEF IInv, Faithful
<1>. QED  BY <1>6, StepFaithful

LEMMA VerifyFaithful ==
    ASSUME IInv, TInv', NEW i \in 1 .. MaxEvents, Verify(i) PROVE IInv'
<1>. DEFINE status == VerifyStatus(jobs[i].receipt, Bundle(i))
            skipped == [jobs[i] EXCEPT !.pc = "done"]
            verified == [jobs[i] EXCEPT !.pc = "done", !.verify = status]
<1>1. jobs[i].pc = "verify" /\ (Step(i, skipped) \/ Step(i, verified))
  BY DEF Verify
<1>2. jobs[i].verify # 0  BY <1>1 DEF IInv, Faithful
<1>. HIDE DEF status
<1>3. /\ skipped.pc = "done" /\ skipped.bundle = jobs[i].bundle
      /\ skipped.seen = jobs[i].seen /\ skipped.changed = jobs[i].changed
      /\ skipped.receipt = jobs[i].receipt
      /\ skipped.action = jobs[i].action /\ skipped.verify = jobs[i].verify
  BY JobFields DEF IInv, Job
<1>4. /\ verified.pc = "done" /\ verified.bundle = jobs[i].bundle
      /\ verified.seen = jobs[i].seen
      /\ verified.changed = jobs[i].changed
      /\ verified.receipt = jobs[i].receipt
      /\ verified.action = jobs[i].action /\ verified.verify = status
  BY JobFields DEF IInv, Job
<1>. HIDE DEF skipped, verified
<1>5. CASE Step(i, skipped)
  BY <1>1, <1>2, <1>3, <1>5, AfterwardsFaithful
<1>6. CASE Step(i, verified)
  BY <1>1, <1>4, <1>6, AfterwardsFaithful DEF status
<1>. QED  BY <1>1, <1>5, <1>6

LEMMA BreakFaithful ==
    ASSUME IInv, TInv', NEW i \in 1 .. MaxEvents, Break(i) PROVE IInv'
<1>. DEFINE status == IF jobs[i].action = Untold THEN 1 ELSE jobs[i].action
            job == [jobs[i] EXCEPT !.pc = "done", !.failed = TRUE,
                                   !.action = status, !.verify = 1]
<1>1. jobs[i].pc # "idle" /\ Step(i, job)  BY DEF Break
<1>2. status \in {jobs[i].action, 1}  OBVIOUS
<1>. HIDE DEF status
<1>3. /\ job.pc = "done" /\ job.bundle = jobs[i].bundle
      /\ job.seen = jobs[i].seen /\ job.changed = jobs[i].changed
      /\ job.receipt = jobs[i].receipt
      /\ job.action = status /\ job.verify = 1
  BY JobFields DEF IInv, Job
<1>. HIDE DEF job
<1>. QED  BY <1>1, <1>2, <1>3, AfterwardsFaithful

LEMMA RerunFaithful ==
    ASSUME IInv, TInv', NEW i \in 1 .. MaxEvents, Rerun(i) PROVE IInv'
<1>. DEFINE job == [Idle EXCEPT !.attempt = jobs[i].attempt]
<1>1. Step(i, job)  BY DEF Rerun
<1>2. jobs'[i] = job  BY <1>1, Stepped DEF IInv
<1>3. /\ job.pc = "idle" /\ job.receipt = NoReceipt
      /\ job.action = Untold /\ job.verify = Untold
  BY DEF Idle
<1>. HIDE DEF job
<1>4. Faithful(i)'  BY <1>2, <1>3 DEF Faithful, Untold
<1>. QED  BY <1>1, <1>4, StepFaithful

LEMMA FaithfulInit == Init => IInv
<1>. SUFFICES ASSUME Init PROVE IInv  OBVIOUS
<1>1. \A i \in 1 .. MaxEvents : jobs[i] = Idle  BY DEF Init
<1>2. /\ Idle.pc = "idle" /\ Idle.receipt = NoReceipt
      /\ Idle.action # 0 /\ Idle.verify # 0
  BY DEF Idle, Untold
<1>. QED  BY <1>1, <1>2, TypeInit DEF IInv, Faithful

LEMMA ChangeFaithful ==
    ASSUME IInv, TInv', NEW pr \in Pull, Change(pr) PROVE IInv'
<1>1. policy' = policy /\ jobs' = jobs /\ events' = Append(events, pr)
  BY DEF Change
<1>2. events \in Seq(Pull)  BY DEF IInv, TInv, TypeOK
<1>3. ASSUME NEW k \in 1 .. MaxEvents, k \leq Len(events)
      PROVE  events'[k] = events[k]
  BY <1>1, <1>2, <1>3
<1>. QED  BY <1>1, <1>3, OtherKept DEF IInv

LEMMA FaithfulStep == IInv /\ [Next]_vars => IInv'
<1>. SUFFICES ASSUME IInv, [Next]_vars PROVE IInv'  OBVIOUS
<1>0. TInv'  BY TypeStep DEF IInv
<1>1. pull \in Pull  BY DEF IInv, TInv, TypeOK
<1>2. CASE Push
  <2>1. PICK h \in Heads : Change([pull EXCEPT !.head = h])
    BY <1>2 DEF Push
  <2>2. [pull EXCEPT !.head = h] \in Pull  BY <1>1 DEF Pull
  <2>. QED  BY <1>0, <2>1, <2>2, ChangeFaithful
<1>3. CASE EditBody
  <2>1. PICK t \in Bodies : Change([pull EXCEPT !.body = t])
    BY <1>3 DEF EditBody
  <2>2. [pull EXCEPT !.body = t] \in Pull  BY <1>1 DEF Pull
  <2>. QED  BY <1>0, <2>1, <2>2, ChangeFaithful
<1>4. ASSUME NEW i \in 1 .. MaxEvents,
             \/ Prepare(i) \/ ReadPull(i) \/ ReadFiles(i) \/ Refuse(i)
             \/ Report(i) \/ Verify(i) \/ Break(i) \/ Rerun(i)
      PROVE  IInv'
  BY <1>0, <1>4, PrepareFaithful, ReadPullFaithful, ReadFilesFaithful,
     RefuseFaithful, ReportFaithful, VerifyFaithful, BreakFaithful, RerunFaithful
<1>5. CASE UNCHANGED vars
  BY <1>0, <1>5, OtherKept DEF vars, IInv
<1>. QED  BY <1>2, <1>3, <1>4, <1>5 DEF Next

LEMMA Invariance == Spec => []IInv
BY FaithfulInit, FaithfulStep, PTL DEF Spec

-----------------------------------------------------------------------------
(* The invariants of the job *)

\* The bundle README.md asks for is the one BuiltVerifiesInBundle is about.
LEMMA BuiltJobVerifies ==
    ASSUME TInv, NEW i \in 1 .. MaxEvents, BuiltBy(i)
    PROVE  LET status == VerifyStatus(jobs[i].receipt, ProperBundle(i))
           IN  IF policy.canonical THEN status = 0
                                   ELSE ~policy.known /\ status = 20
<1>1. policy \in PolicyDocument
  BY PolicyAssumption DEF TInv, TypeOK
<1>2. PICK observed \in Heads \cup {NoSha} :
         jobs[i].receipt = BuildReceipt(policy, Evidence(i, observed))
  BY DEF BuiltBy
<1>. DEFINE ev == Evidence(i, observed)
<1>3. /\ ev.text = JudgedText(i) /\ ev.bound = BoundSha
      /\ ev.subject.base = Base
  BY DEF Evidence
<1>. HIDE DEF ev
<1>4. policy.known /\ ~Inline(policy) =>
         (policy.source = "file" => ev.bound = ev.subject.base
                                       /\ ev.bound # NoSha)
  BY <1>3, NoneAssumption DEF BoundSha, NeedsText
<1>5. policy.known \in BOOLEAN  BY <1>1 DEF PolicyDocument
<1>6. ProperBundle(i) = Judged(policy, ev)
  BY <1>3, <1>5 DEF ProperBundle, Judged, JudgedText, NeedsText
<1>7. VerifyStatus(BuildReceipt(policy, ev), Judged(policy, ev)) =
         IF policy.canonical THEN 0 ELSE 20
  BY <1>1, <1>4, BuiltVerifiesInBundle
<1>8. policy.canonical \/ ~policy.known
  BY DEF BuiltBy, ConfigurationRefused
<1>. QED  BY <1>2, <1>6, <1>7, <1>8 DEF ev

\* Every receipt the command can write verifies offline with its policy and
\* the declaration it was judged by, whatever was read: build_receipt never
\* records what verify_receipt or _verify_bundle derive otherwise.  Only the
\* fallback digest of an unknown version's policy is never computed again, and
\* makes the receipt unverifiable.
THEOREM GenuineVerifiesAlways == Spec => []GenuineVerifies
<1>1. ASSUME IInv, NEW i \in DOMAIN jobs, Genuine(i)
      PROVE  LET status == VerifyStatus(jobs[i].receipt, ProperBundle(i))
             IN  IF policy.canonical THEN status = 0
                                     ELSE ~policy.known /\ status = 20
  <2>1. i \in 1 .. MaxEvents  BY <1>1 DEF IInv, TInv, TypeOK
  <2>2. BuiltBy(i)  BY <1>1, <2>1 DEF Genuine, IInv, Faithful
  <2>. QED  BY <1>1, <2>1, <2>2, BuiltJobVerifies DEF IInv
<1>2. IInv => GenuineVerifies  BY <1>1 DEF GenuineVerifies
<1>. QED  BY <1>2, Invariance, PTL

\* A receipt with verdict PASS names no path outside the entries it was
\* judged by, and records the text that spelled them out.
LEMMA PassIsSupported ==
    ASSUME NEW p \in PolicyDocument, NEW ev, Body(p, ev).verdict = "PASS"
    PROVE  LET entries == ParsedEntries(p, ev.text)
           IN  /\ ~CompileRefused(entries)
               /\ OutsidePaths(entries, Touched(ev.changed.records)) = {}
               /\ Body(p, ev).policy.raw =
                     IF Inline(p) THEN p.entries ELSE ev.text
<1>1. Evaluate(p, ev).verdict = "PASS"  BY DEF Body
<1>2. /\ p.known /\ ProblemReasons(p, ev) = {}
      /\ OutsidePaths(ParsedEntries(p, ev.text),
                      Touched(ev.changed.records)) = {}
  BY <1>1, EvaluateCases DEF Indeterminate, Fails
<1>3. DeclarationReasons(p, ev) = {}  BY <1>2 DEF ProblemReasons
<1>4. Body(p, ev).policy.raw = RecordedRaw(p, ev)
  BY DEF Body, PolicyRecord
<1>. QED  BY <1>2, <1>3, <1>4, ResolvedDeclaration

\* A green job has judged the head of its event by the body of its event:
\* the receipt is of that head, and every path it records is one that body
\* allows, although the action read the pull request later than the event.
THEOREM GreenJobIsCoherentAlways == Spec => []GreenJobIsCoherent
<1>. DEFINE Coherently(i) ==
              LET body == jobs[i].receipt.body
                  entries == ParsedEntries(policy, DeclarationFile(i))
              IN  /\ body.verdict = "PASS"
                  /\ body.subject.head = events[i].head
                  /\ ~CompileRefused(entries)
                  /\ OutsidePaths(entries, Touched(body.changed.records)) = {}
<1>1. ASSUME IInv, NEW i \in DOMAIN jobs, Green(i) PROVE Coherently(i)
  <2>1. i \in 1 .. MaxEvents  BY <1>1 DEF IInv, TInv, TypeOK
  <2>2. /\ jobs[i].pc = "done" /\ BuiltBy(i)
        /\ ActionStatus(i, jobs[i].receipt) = 0
        /\ VerifyStatus(jobs[i].receipt, Bundle(i)) = 0
        /\ jobs[i].bundle = DeclarationFile(i)
    BY <1>1, <2>1 DEF Green, IInv, Faithful
  <2>3. policy \in PolicyDocument /\ jobs[i].bundle \in Texts
    BY <1>1, <2>1, <2>2, PolicyAssumption DEF IInv, TInv, TypeOK
  <2>4. PICK observed \in Heads \cup {NoSha} :
           jobs[i].receipt = BuildReceipt(policy, Evidence(i, observed))
    BY <2>2 DEF BuiltBy
  <2>. DEFINE ev == Evidence(i, observed)
  <2>5. jobs[i].receipt.body = Body(policy, ev)
    BY <2>4 DEF BuildReceipt, Seal
  <2>. HIDE DEF ev
  <2>6. /\ Body(policy, ev).verdict = "PASS"
        /\ Body(policy, ev).subject.head = events[i].head
    BY <2>2, <2>5 DEF ActionStatus
  <2>7. BundleMatches(Body(policy, ev).policy, Bundle(i))
    BY <2>2, <2>5 DEF VerifyStatus
  <2>8. Body(policy, ev).policy.raw = DeclarationFile(i)
    BY <2>2, <2>3, <2>7, TextAssumption
    DEF BundleMatches, DeclarationMatches, Bundle
  <2>9. ParsedEntries(policy, ev.text)
           = ParsedEntries(policy, DeclarationFile(i))
    BY <2>3, <2>6, <2>8, PassIsSupported DEF ParsedEntries
  <2>10. Body(policy, ev).changed.records = ev.changed.records
    BY DEF Body, ChangedPaths
  <2>. QED  BY <2>3, <2>5, <2>6, <2>9, <2>10, PassIsSupported
<1>2. IInv => GreenJobIsCoherent
  BY <1>1 DEF GreenJobIsCoherent
<1>. QED  BY <1>2, Invariance, PTL

-----------------------------------------------------------------------------
(* Edited copies of a receipt *)

\* A copy keeps the subject, the changed paths and everything but the entries
\* of the policy record; it claims a verdict, or one reserved reason.
LEMMA CopyFields ==
    ASSUME NEW p, NEW ev, NEW copy \in EditedCopies(BuildReceipt(p, ev))
    PROVE  LET body == copy.body
               record == PolicyRecord(p, ev)
           IN  /\ body.subject = ev.subject
               /\ body.changed = ChangedPaths(ev.changed)
               /\ body.policy.source = record.source
               /\ body.policy.raw = record.raw
               /\ body.policy.trust = record.trust
               /\ \/ body.verdict \in Decided
                  \/ /\ body.verdict = "INDETERMINATE"
                     /\ body.reasons \cap Reserved # {}
<1>. DEFINE record == PolicyRecord(p, ev)
            genuine == BuildReceipt(p, ev).body
<1>1. genuine = Body(p, ev)  BY DEF BuildReceipt, Seal
<1>2. PICK wide \in Widened(genuine) :
         \E body \in Reworded(wide) : copy = Seal(body)
  BY DEF EditedCopies
<1>3. /\ genuine.subject = ev.subject
      /\ genuine.changed = ChangedPaths(ev.changed)
      /\ genuine.policy = record
      /\ DOMAIN genuine = {"subject", "policy", "changed", "ordered",
                           "verdict", "reasons", "details", "outside"}
  BY <1>1 DEF Body
<1>4. DOMAIN record = {"source", "raw", "entries", "trust", "digest"}
  BY DEF PolicyRecord
<1>. HIDE DEF genuine, record
<1>5. /\ wide.subject = ev.subject
      /\ wide.changed = ChangedPaths(ev.changed)
      /\ wide.policy.source = record.source
      /\ wide.policy.raw = record.raw
      /\ wide.policy.trust = record.trust
      /\ DOMAIN wide = DOMAIN genuine
  <2>1. CASE wide = genuine  BY <1>3, <2>1
  <2>2. CASE wide # genuine
    <3>1. PICK e \in Entries : wide = [genuine EXCEPT !.policy.entries = @ \cup {e}]
      BY <1>2, <2>2 DEF Widened
    <3>. DEFINE policies == [record EXCEPT !.entries = @ \cup {e}]
    <3>2. wide = [genuine EXCEPT !.policy = policies]  BY <1>3, <3>1
    <3>3. /\ policies.source = record.source
          /\ policies.raw = record.raw
          /\ policies.trust = record.trust
      BY <1>4
    <3>. HIDE DEF policies
    <3>. QED  BY <1>3, <3>2, <3>3
  <2>. QED  BY <2>1, <2>2
<1>. PICK body \in Reworded(wide) : copy = Seal(body)  BY <1>2
<1>6. PICK verdict, reasons, details, outside :
         /\ body = Rewritten(wide, verdict, reasons, details, outside)
         /\ \/ verdict \in Decided
            \/ verdict = "INDETERMINATE" /\ reasons \cap Reserved # {}
  BY <1>2 DEF Reworded, Decided, Reserved
<1>7. /\ body.subject = wide.subject /\ body.changed = wide.changed
      /\ body.policy = wide.policy
      /\ body.verdict = verdict /\ body.reasons = reasons
  BY <1>3, <1>5, <1>6 DEF Rewritten
<1>8. copy.body = body  BY DEF Seal
<1>. QED  BY <1>5, <1>6, <1>7, <1>8 DEF record

\* The entries a bundle gives a record depend on its source and its text only.
LEMMA EntriesFollow ==
    ASSUME NEW r, NEW s, NEW bundle, r.source = s.source, r.raw = s.raw,
           BundleMatches(r, bundle), BundleMatches(s, bundle)
    PROVE  r.entries = s.entries
BY DEF BundleMatches, ExpectedEntries, NeedsDeclaration, DeclaredEntries

\* Entries that compile_scope accepts are recorded of a declaration that was
\* resolved: without a problem, and as it was parsed.
LEMMA RecordedIsResolved ==
    ASSUME NEW p \in PolicyDocument, NEW ev,
           PolicyRecord(p, ev).trust # "none",
           ~CompileRefused(PolicyRecord(p, ev).entries)
    PROVE  /\ p.known
           /\ DeclarationReasons(p, ev) = {}
           /\ PolicyRecord(p, ev).entries = ParsedEntries(p, ev.text)
<1>1. p.known  BY DEF PolicyRecord
<1>2. ~CompileRefused(RecordedEntries(p, ev)) /\ RecordedEntries(p, ev) # {}
  BY <1>1 DEF PolicyRecord, CompileRefused
<1>3. /\ ~MissingDeclaration(p, ev.subject.base, ev.text, ev.bound)
      /\ ~Inline(p) => /\ ~(p.source = "file" /\ ev.bound = NoSha)
                       /\ ~DigestDiffers(p, ev.text)
      /\ RecordedEntries(p, ev) = ParsedEntries(p, ev.text)
  BY <1>2 DEF RecordedEntries
<1>4. ~AmbiguousDeclaration(p, ev.text, ev.bound)
  BY <1>2, <1>3 DEF AmbiguousDeclaration, ParsedEntries
<1>. QED  BY <1>1, <1>3, <1>4 DEF DeclarationReasons, PolicyRecord

\* A copy of a built receipt that verifies claims what evaluate gives for the
\* evidence it records, with the head read back where it was.
LEMMA CopyIsSupported ==
    ASSUME NEW p \in PolicyDocument, NEW ev, NEW again,
           ev.subject.target = "head",
           BundleMatches(PolicyRecord(p, ev), Judged(p, ev)),
           NEW copy \in EditedCopies(BuildReceipt(p, ev)),
           VerifyStatus(copy, Judged(p, ev)) = 0,
           again.subject = ev.subject, again.observed = ev.subject.head,
           again.text = ev.text, again.bound = ev.bound,
           again.changed.records = ev.changed.records,
           again.changed.expected = ev.changed.expected,
           again.changed.truncated = ~ChangedSetComplete(ev.changed)
    PROVE  /\ copy.body.verdict \in Decided
           /\ Evaluate(p, again).verdict = copy.body.verdict
           /\ Evaluate(p, again).outside = copy.body.outside
<1>. DEFINE body == copy.body
            record == PolicyRecord(p, ev)
            outside == OutsidePaths(ParsedEntries(p, ev.text),
                                    Touched(ev.changed.records))
<1>1. /\ body.subject = ev.subject
      /\ body.changed = ChangedPaths(ev.changed)
      /\ body.policy.source = record.source
      /\ body.policy.raw = record.raw
      /\ body.policy.trust = record.trust
      /\ \/ body.verdict \in Decided
         \/ /\ body.verdict = "INDETERMINATE"
            /\ body.reasons \cap Reserved # {}
  BY CopyFields
<1>2. /\ SchemaClosed(body) /\ ReceiptVerifies(copy)
      /\ BundleMatches(body.policy, Judged(p, ev))
  BY DEF VerifyStatus
<1>3. body.reasons \cap Reserved = {} /\ VerdictFollows(body)
  BY <1>2 DEF ReceiptVerifies
<1>4. body.verdict \in Decided  BY <1>1, <1>3
<1>5. Decidable(body) /\ OutcomeFollows(body)
  BY <1>3, <1>4 DEF VerdictFollows, Decided
<1>6. body.policy.entries = record.entries  BY <1>1, <1>2, EntriesFollow
<1>7. /\ p.known /\ DeclarationReasons(p, ev) = {}
      /\ body.policy.entries = ParsedEntries(p, ev.text)
  BY <1>1, <1>5, <1>6, RecordedIsResolved DEF Decidable
<1>8. CoordinateReasons(again.subject) = {} /\ DriftReasons(again) = {}
  BY <1>1, <1>5 DEF Decidable, Coherent, CoordinateReasons, DriftReasons
<1>9. DeclarationReasons(p, again) = {}  BY <1>7 DEF DeclarationReasons
<1>10. PathReasons(again.changed) = {}
  <2>1. ChangedSetComplete(ev.changed) /\ ~PathsRefused(ev.changed.records)
    BY <1>1, <1>5 DEF Decidable, ChangedPaths
  <2>2. ChangedSetComplete(again.changed)
    BY <2>1 DEF ChangedSetComplete
  <2>. QED  BY <2>1, <2>2 DEF PathReasons
<1>11. ProblemReasons(p, again) = {}
  BY <1>8, <1>9, <1>10 DEF ProblemReasons
<1>12. \/ outside # {} /\ Evaluate(p, again) = Fails(outside)
       \/ outside = {} /\ Evaluate(p, again) = Passes(again.subject)
  BY <1>7, <1>11, EvaluateCases
<1>13. /\ body.verdict = "PASS" => outside = {}
       /\ body.verdict = "FAIL" => body.outside = outside
  BY <1>1, <1>5, <1>7 DEF OutcomeFollows, ChangedPaths
<1>14. /\ body.verdict = "PASS" => body.outside = {}
       /\ body.verdict = "FAIL" => body.outside # {}
  BY <1>2 DEF SchemaClosed
<1>. HIDE DEF body, outside
<1>15. CASE body.verdict = "PASS"
  BY <1>4, <1>12, <1>13, <1>14, <1>15 DEF Passes, body
<1>16. CASE body.verdict = "FAIL"
  BY <1>4, <1>12, <1>13, <1>14, <1>16 DEF Fails, body
<1>. QED  BY <1>4, <1>15, <1>16 DEF Decided

\* A copy of a receipt whose verdict or entries were rewritten and whose
\* digest was made to fit verifies against the bundle only if evaluate gives
\* its verdict and its paths for the evidence it records.
THEOREM EditedCopyIsSupportedAlways == Spec => []EditedCopyIsSupported
<1>1. ASSUME IInv, NEW i \in DOMAIN jobs, jobs[i].pc = "verify", Genuine(i),
             NEW copy \in EditedCopies(jobs[i].receipt),
             VerifyStatus(copy, ProperBundle(i)) = 0
      PROVE  LET body == copy.body
                 ev == [Evidence(i, body.subject.head) EXCEPT
                          !.changed.truncated = ~body.changed.complete]
             IN  /\ body.verdict \in Decided
                 /\ Evaluate(policy, ev).verdict = body.verdict
                 /\ Evaluate(policy, ev).outside = body.outside
  <2>0. i \in 1 .. MaxEvents  BY <1>1 DEF IInv, TInv, TypeOK
  <2>1. policy \in PolicyDocument
    BY <1>1, PolicyAssumption DEF IInv, TInv, TypeOK
  <2>2. PICK observed \in Heads \cup {NoSha} :
           jobs[i].receipt = BuildReceipt(policy, Evidence(i, observed))
    BY <1>1, <2>0 DEF Genuine, IInv, Faithful, BuiltBy
  <2>. DEFINE ev == Evidence(i, observed)
              changed == jobs[i].changed
              back == Evidence(i, copy.body.subject.head)
              again == [back EXCEPT
                          !.changed.truncated = ~copy.body.changed.complete]
              listed == [back.changed EXCEPT
                          !.truncated = ~copy.body.changed.complete]
  <2>3. /\ ev.text = JudgedText(i) /\ ev.bound = BoundSha
        /\ ev.subject.base = Base /\ ev.subject.target = "head"
        /\ ev.changed.records = changed.records
        /\ ev.changed.expected = changed.expected
    BY <1>1, <2>0, JobFields DEF Evidence, IInv, Job, Listing
  <2>4. /\ back.text = JudgedText(i) /\ back.bound = BoundSha
        /\ back.subject = ev.subject
        /\ back.observed = copy.body.subject.head
        /\ back.changed.records = changed.records
        /\ back.changed.expected = changed.expected
        /\ DOMAIN back.changed = {"records", "expected", "truncated"}
        /\ DOMAIN back = {"subject", "observed", "text", "bound", "changed"}
    BY <1>1, <2>0, JobFields DEF Evidence, IInv, Job, Listing
  <2>5. again = [back EXCEPT !.changed = listed]  OBVIOUS
  <2>. HIDE DEF ev, back, again
  <2>6. ProperBundle(i) = Judged(policy, ev)
    <3>1. policy.known \in BOOLEAN  BY <2>1 DEF PolicyDocument
    <3>. QED
      BY <2>3, <3>1 DEF ProperBundle, Judged, JudgedText, NeedsText
  <2>7. BundleMatches(PolicyRecord(policy, ev), Judged(policy, ev))
    <3>1. policy.known /\ ~Inline(policy) =>
             (policy.source = "file" => ev.bound = ev.subject.base
                                           /\ ev.bound # NoSha)
      BY <2>3, NoneAssumption DEF BoundSha, NeedsText
    <3>2. policy.canonical
      <4>1. BundleMatches(copy.body.policy, ProperBundle(i))
        BY <1>1 DEF VerifyStatus
      <4>. QED  BY <4>1 DEF BundleMatches, PolicyMatches, ProperBundle
    <3>. QED  BY <2>1, <3>1, <3>2, BundleDerives, BundleWithoutText
  <2>8. copy \in EditedCopies(BuildReceipt(policy, ev))
    BY <1>1, <2>2 DEF ev
  <2>9. /\ copy.body.subject = ev.subject
        /\ copy.body.changed.complete = ChangedSetComplete(ev.changed)
    <3>1. /\ copy.body.subject = ev.subject
          /\ copy.body.changed = ChangedPaths(ev.changed)
      BY <2>8, CopyFields
    <3>. QED  BY <3>1 DEF ChangedPaths
  <2>10. /\ listed.records = changed.records
         /\ listed.expected = changed.expected
         /\ listed.truncated = ~ChangedSetComplete(ev.changed)
    BY <2>4, <2>9
  <2>. HIDE DEF listed
  <2>11. /\ again.subject = ev.subject
         /\ again.observed = ev.subject.head
         /\ again.text = ev.text /\ again.bound = ev.bound
         /\ again.changed = listed
    BY <2>3, <2>4, <2>5, <2>9
  <2>12. VerifyStatus(copy, Judged(policy, ev)) = 0  BY <1>1, <2>6
  <2>13. /\ copy.body.verdict \in Decided
         /\ Evaluate(policy, again).verdict = copy.body.verdict
         /\ Evaluate(policy, again).outside = copy.body.outside
    BY <2>1, <2>3, <2>7, <2>8, <2>10, <2>11, <2>12, CopyIsSupported
  <2>. QED  BY <2>13 DEF again, back
<1>2. IInv => EditedCopyIsSupported
  BY <1>1 DEF EditedCopyIsSupported
<1>. QED  BY <1>2, Invariance, PTL

-----------------------------------------------------------------------------
(* The job of the newest event *)

Whole(h) ==
    [records |-> Files[h], expected |-> Len(Files[h]), truncated |-> FALSE]

\* What a job none of whose requests and steps failed has read is the pull
\* request as it is now, and its statuses are those of that evidence.
Undisturbed(i) ==
    /\ jobs[i].pc \in {"files", "readback", "verify", "done"} =>
          jobs[i].seen = pull
    /\ jobs[i].pc \in {"readback", "verify", "done"} =>
          jobs[i].changed = Whole(pull.head)
    /\ jobs[i].pc \in {"verify", "done"} =>
          /\ jobs[i].receipt = BuildReceipt(policy, Evidence(i, pull.head))
          /\ jobs[i].action = ActionStatus(i, jobs[i].receipt)
    /\ jobs[i].pc = "done" =>
          jobs[i].verify = VerifyStatus(jobs[i].receipt, Bundle(i))

\* A change of the pull request is an event, so the newest one is of now, and
\* the reads of its job cannot have seen another pull request.
Latest ==
    /\ events[Len(events)] = pull
    /\ ~jobs[Len(events)].failed => Undisturbed(Len(events))

LEMMA ReceiptIsNone ==
    \A p, ev : BuildReceipt(p, ev) # NoReceipt
<1>1. ASSUME NEW p, NEW ev PROVE "body" \in DOMAIN BuildReceipt(p, ev)
  BY DEF BuildReceipt, Seal
<1>2. "body" \notin DOMAIN NoReceipt  BY DEF NoReceipt
<1>. QED  BY <1>1, <1>2

LEMMA ReportedKept ==
    ASSUME NEW i, policy' = policy, events' = events, pull' = pull,
           jobs'[i].seen = jobs[i].seen, jobs'[i].changed = jobs[i].changed,
           jobs'[i].bundle = jobs[i].bundle
    PROVE  /\ BuildReceipt(policy, Evidence(i, pull.head))'
                = BuildReceipt(policy, Evidence(i, pull.head))
           /\ \A receipt : ActionStatus(i, receipt)' = ActionStatus(i, receipt)
           /\ Bundle(i)' = Bundle(i)
<1>1. Evidence(i, pull.head)' = Evidence(i, pull.head)
  <2>1. NeedsText' = NeedsText  BY DEF NeedsText, Inline
  <2>2. JudgedText(i)' = JudgedText(i)  BY <2>1 DEF JudgedText
  <2>3. BoundSha' = BoundSha  BY <2>1 DEF BoundSha
  <2>. QED  BY <2>2, <2>3 DEF Evidence
<1>2. \A receipt : ActionStatus(i, receipt)' = ActionStatus(i, receipt)
  BY DEF ActionStatus
<1>. QED  BY <1>1, <1>2, EvidenceKept

\* Only a step of the newest event's job, or a new event, concerns it.
LEMMA StepLatest ==
    ASSUME IInv, Latest, NEW i \in 1 .. MaxEvents, NEW job, Step(i, job),
           i = Len(events) /\ ~job.failed => Undisturbed(i)'
    PROVE  Latest'
<1>. DEFINE k == Len(events)
<1>1. k \in 1 .. MaxEvents  BY DEF IInv, TInv, TypeOK
<1>2. /\ policy' = policy /\ pull' = pull /\ events' = events
      /\ jobs'[i] = job /\ (k # i => jobs'[k] = jobs[k])
  BY <1>1, Stepped DEF Step, IInv, TInv, TypeOK
<1>3. CASE k = i
  BY <1>2, <1>3 DEF Latest
<1>4. CASE k # i
  <2>1. Undisturbed(k) => Undisturbed(k)'
    BY <1>2, <1>4, ReportedKept DEF Undisturbed
  <2>. QED  BY <1>2, <1>4, <2>1 DEF Latest
<1>. QED  BY <1>3, <1>4

LEMMA LatestInit == Init => Latest
<1>. SUFFICES ASSUME Init PROVE Latest  OBVIOUS
<1>1. Len(events) = 1 /\ events[1] = pull  BY DEF Init
<1>2. jobs[1] = Idle  BY BoundAssumption DEF Init
<1>3. Idle.pc = "idle"  BY DEF Idle
<1>. QED  BY <1>1, <1>2, <1>3 DEF Latest, Undisturbed

\* The job of a new event has not started.
LEMMA ChangeLatest ==
    ASSUME IInv, NEW pr \in Pull, Change(pr) PROVE Latest'
<1>1. /\ events' = Append(events, pr) /\ pull' = pr /\ jobs' = jobs
      /\ Len(events) < MaxEvents
  BY DEF Change
<1>2. /\ events \in Seq(Pull) /\ Len(events) \in 1 .. MaxEvents
  BY DEF IInv, TInv, TypeOK
<1>. DEFINE k == Len(events) + 1
<1>3. Len(events') = k /\ events'[k] = pr /\ k \in 1 .. MaxEvents
  BY <1>1, <1>2, BoundAssumption
<1>4. jobs'[k].pc = "idle"
  BY <1>1, <1>2, <1>3, JobFields DEF IInv
<1>. QED  BY <1>1, <1>3, <1>4 DEF Latest, Undisturbed

LEMMA PrepareLatest ==
    ASSUME IInv, Latest, NEW i \in 1 .. MaxEvents, Prepare(i) PROVE Latest'
<1>. DEFINE job == [jobs[i] EXCEPT !.pc = "pull", !.attempt = @ + 1,
                                   !.bundle = DeclarationFile(i)]
<1>1. Step(i, job)  BY DEF Prepare
<1>2. jobs'[i] = job  BY <1>1, Stepped DEF IInv
<1>3. job.pc = "pull"  BY JobFields DEF IInv, Job
<1>. HIDE DEF job
<1>4. Undisturbed(i)'  BY <1>2, <1>3 DEF Undisturbed
<1>. QED  BY <1>1, <1>4, StepLatest

LEMMA ReadPullLatest ==
    ASSUME IInv, Latest, NEW i \in 1 .. MaxEvents, ReadPull(i) PROVE Latest'
<1>. DEFINE read == [jobs[i] EXCEPT !.pc = "files", !.seen = pull]
            lost == [jobs[i] EXCEPT !.pc = "verify", !.action = 20,
                                    !.failed = TRUE]
<1>1. Step(i, read) \/ Step(i, lost)  BY DEF ReadPull
<1>2. CASE Step(i, read)
  <2>1. jobs'[i] = read /\ pull' = pull
    BY <1>2, Stepped DEF IInv, Step
  <2>2. read.pc = "files" /\ read.seen = pull
    BY JobFields DEF IInv, Job
  <2>. HIDE DEF read
  <2>3. Undisturbed(i)'  BY <2>1, <2>2 DEF Undisturbed
  <2>. QED  BY <1>2, <2>3, StepLatest
<1>3. CASE Step(i, lost)
  <2>1. lost.failed = TRUE  BY JobFields DEF IInv, Job
  <2>. HIDE DEF lost
  <2>. QED  BY <1>3, <2>1, StepLatest
<1>. QED  BY <1>1, <1>2, <1>3

LEMMA ReadFilesLatest ==
    ASSUME IInv, Latest, NEW i \in 1 .. MaxEvents, ReadFiles(i) PROVE Latest'
<1>. DEFINE expected == Len(Files[jobs[i].seen.head])
            whole == [records |-> Files[pull.head], expected |-> expected,
                      truncated |-> FALSE]
            none == [records |-> <<>>, expected |-> expected,
                     truncated |-> TRUE]
            read == [jobs[i] EXCEPT !.pc = "readback", !.changed = whole]
            lost == [jobs[i] EXCEPT !.pc = "readback", !.failed = TRUE,
                                    !.changed = none]
<1>1. jobs[i].pc = "files" /\ (Step(i, read) \/ Step(i, lost))
  BY DEF ReadFiles
<1>2. jobs[i].seen = pull => whole = Whole(pull.head)  BY DEF Whole
<1>. HIDE DEF whole, none
<1>3. CASE Step(i, read)
  <2>1. jobs'[i] = read /\ pull' = pull
    BY <1>3, Stepped DEF IInv, Step
  <2>2. /\ read.pc = "readback" /\ read.seen = jobs[i].seen
        /\ read.changed = whole /\ read.failed = jobs[i].failed
    BY JobFields DEF IInv, Job
  <2>. HIDE DEF read
  <2>3. ASSUME i = Len(events), ~read.failed PROVE Undisturbed(i)'
    <3>1. jobs[i].seen = pull
      BY <1>1, <2>2, <2>3 DEF Latest, Undisturbed
    <3>2. Whole(pull.head)' = Whole(pull.head)  BY <2>1 DEF Whole
    <3>. QED  BY <1>2, <2>1, <2>2, <3>1, <3>2 DEF Undisturbed
  <2>. QED  BY <1>3, <2>3, StepLatest
<1>4. CASE Step(i, lost)
  <2>1. lost.failed = TRUE  BY JobFields DEF IInv, Job
  <2>. HIDE DEF lost
  <2>. QED  BY <1>4, <2>1, StepLatest
<1>. QED  BY <1>1, <1>3, <1>4

LEMMA RefuseLatest ==
    ASSUME IInv, Latest, NEW i \in 1 .. MaxEvents, Refuse(i) PROVE Latest'
<1>. DEFINE job == [jobs[i] EXCEPT !.pc = "verify", !.action = 20,
                                   !.failed = TRUE]
<1>1. Step(i, job)  BY DEF Refuse
<1>2. job.failed = TRUE  BY JobFields DEF IInv, Job
<1>. HIDE DEF job
<1>. QED  BY <1>1, <1>2, StepLatest

LEMMA ReportLatest ==
    ASSUME IInv, Latest, NEW i \in 1 .. MaxEvents, Report(i) PROVE Latest'
<1>1. PICK observed \in {pull.head, NoSha} :
         LET receipt == BuildReceipt(policy, Evidence(i, observed))
         IN  Step(i, [jobs[i] EXCEPT
                !.pc = "verify", !.receipt = receipt,
                !.action = ActionStatus(i, receipt),
                !.failed = @ \/ observed = NoSha])
  BY DEF Report
<1>. DEFINE receipt == BuildReceipt(policy, Evidence(i, observed))
            status == ActionStatus(i, receipt)
            failed == jobs[i].failed \/ observed = NoSha
            job == [jobs[i] EXCEPT !.pc = "verify", !.receipt = receipt,
                                   !.action = status, !.failed = failed]
<1>2. Step(i, job)  BY <1>1
<1>3. jobs'[i] = job /\ policy' = policy /\ pull' = pull /\ events' = events
  BY <1>2, Stepped DEF IInv, Step
<1>4. failed \in BOOLEAN /\ (~failed => ~jobs[i].failed /\ observed = pull.head)
  OBVIOUS
<1>. HIDE DEF receipt, status, failed
<1>5. /\ job.pc = "verify" /\ job.receipt = receipt /\ job.action = status
      /\ job.bundle = jobs[i].bundle /\ job.failed = failed
      /\ job.seen = jobs[i].seen /\ job.changed = jobs[i].changed
  BY JobFields DEF IInv, Job
<1>. HIDE DEF job
<1>6. ASSUME i = Len(events), ~job.failed PROVE Undisturbed(i)'
  <2>1. ~jobs[i].failed /\ observed = pull.head
    BY <1>4, <1>5, <1>6
  <2>2. jobs[i].seen = pull /\ jobs[i].changed = Whole(pull.head)
    BY <1>6, <2>1 DEF Latest, Undisturbed, Report
  <2>3. Whole(pull.head)' = Whole(pull.head)  BY <1>3 DEF Whole
  <2>4. /\ BuildReceipt(policy, Evidence(i, pull.head))'
              = BuildReceipt(policy, Evidence(i, pull.head))
        /\ \A r : ActionStatus(i, r)' = ActionStatus(i, r)
    BY <1>3, <1>5, ReportedKept
  <2>5. ActionStatus(i, jobs[i].receipt)' = status
    BY <1>3, <1>5 DEF ActionStatus, status
  <2>6. jobs'[i].receipt = BuildReceipt(policy, Evidence(i, pull.head))'
    BY <1>3, <1>5, <2>1, <2>4 DEF receipt
  <2>. QED  BY <1>3, <1>5, <2>2, <2>3, <2>5, <2>6 DEF Undisturbed
<1>. QED  BY <1>2, <1>6, StepLatest

LEMMA VerifyLatest ==
    ASSUME IInv, Latest, NEW i \in 1 .. MaxEvents, Verify(i) PROVE Latest'
<1>. DEFINE status == VerifyStatus(jobs[i].receipt, Bundle(i))
            skipped == [jobs[i] EXCEPT !.pc = "done"]
            verified == [jobs[i] EXCEPT !.pc = "done", !.verify = status]
<1>1. /\ jobs[i].pc = "verify"
      /\ \/ jobs[i].receipt = NoReceipt /\ Step(i, skipped)
         \/ jobs[i].receipt # NoReceipt /\ Step(i, verified)
  BY DEF Verify
<1>2. ASSUME i = Len(events), ~jobs[i].failed
      PROVE  /\ jobs[i].seen = pull /\ jobs[i].changed = Whole(pull.head)
             /\ jobs[i].receipt = BuildReceipt(policy, Evidence(i, pull.head))
             /\ jobs[i].action = ActionStatus(i, jobs[i].receipt)
  BY <1>1, <1>2 DEF Latest, Undisturbed
<1>3. CASE jobs[i].receipt = NoReceipt /\ Step(i, skipped)
  <2>1. skipped.failed = jobs[i].failed  BY JobFields DEF IInv, Job
  <2>2. i = Len(events) => jobs[i].failed  BY <1>2, <1>3, ReceiptIsNone
  <2>. HIDE DEF skipped
  <2>. QED  BY <1>3, <2>1, <2>2, StepLatest
<1>4. CASE Step(i, verified)
  <2>1. /\ jobs'[i] = verified /\ policy' = policy /\ pull' = pull
        /\ events' = events
    BY <1>4, Stepped DEF IInv, Step
  <2>. HIDE DEF status
  <2>2. /\ verified.pc = "done" /\ verified.bundle = jobs[i].bundle
        /\ verified.seen = jobs[i].seen
        /\ verified.changed = jobs[i].changed
        /\ verified.receipt = jobs[i].receipt
        /\ verified.action = jobs[i].action /\ verified.verify = status
        /\ verified.failed = jobs[i].failed
    BY JobFields DEF IInv, Job
  <2>. HIDE DEF verified
  <2>3. ASSUME i = Len(events), ~verified.failed PROVE Undisturbed(i)'
    <3>1. Whole(pull.head)' = Whole(pull.head)  BY <2>1 DEF Whole
    <3>2. /\ BuildReceipt(policy, Evidence(i, pull.head))'
                = BuildReceipt(policy, Evidence(i, pull.head))
          /\ Bundle(i)' = Bundle(i)
      BY <2>1, <2>2, ReportedKept
    <3>3. ActionStatus(i, jobs[i].receipt)' = ActionStatus(i, jobs[i].receipt)
      BY <2>1, <2>2 DEF ActionStatus
    <3>. QED
      BY <1>2, <2>1, <2>2, <2>3, <3>1, <3>2, <3>3 DEF Undisturbed, status
  <2>. QED  BY <1>4, <2>3, StepLatest
<1>. QED  BY <1>1, <1>3, <1>4

LEMMA BreakLatest ==
    ASSUME IInv, Latest, NEW i \in 1 .. MaxEvents, Break(i) PROVE Latest'
<1>. DEFINE status == IF jobs[i].action = Untold THEN 1 ELSE jobs[i].action
            job == [jobs[i] EXCEPT !.pc = "done", !.failed = TRUE,
                                   !.action = status, !.verify = 1]
<1>1. Step(i, job)  BY DEF Break
<1>2. job.failed = TRUE  BY JobFields DEF IInv, Job
<1>. HIDE DEF job
<1>. QED  BY <1>1, <1>2, StepLatest

LEMMA RerunLatest ==
    ASSUME IInv, Latest, NEW i \in 1 .. MaxEvents, Rerun(i) PROVE Latest'
<1>. DEFINE job == [Idle EXCEPT !.attempt = jobs[i].attempt]
<1>1. Step(i, job)  BY DEF Rerun
<1>2. jobs'[i] = job  BY <1>1, Stepped DEF IInv
<1>3. job.pc = "idle"  BY DEF Idle
<1>. HIDE DEF job
<1>4. Undisturbed(i)'  BY <1>2, <1>3 DEF Undisturbed
<1>. QED  BY <1>1, <1>4, StepLatest

LEMMA LatestStep == IInv /\ Latest /\ [Next]_vars => Latest'
<1>. SUFFICES ASSUME IInv, Latest, [Next]_vars PROVE Latest'  OBVIOUS
<1>1. pull \in Pull  BY DEF IInv, TInv, TypeOK
<1>2. CASE Push
  <2>1. PICK h \in Heads : Change([pull EXCEPT !.head = h])
    BY <1>2 DEF Push
  <2>2. [pull EXCEPT !.head = h] \in Pull  BY <1>1 DEF Pull
  <2>. QED  BY <2>1, <2>2, ChangeLatest
<1>3. CASE EditBody
  <2>1. PICK t \in Bodies : Change([pull EXCEPT !.body = t])
    BY <1>3 DEF EditBody
  <2>2. [pull EXCEPT !.body = t] \in Pull  BY <1>1 DEF Pull
  <2>. QED  BY <2>1, <2>2, ChangeLatest
<1>4. ASSUME NEW i \in 1 .. MaxEvents,
             \/ Prepare(i) \/ ReadPull(i) \/ ReadFiles(i) \/ Refuse(i)
             \/ Report(i) \/ Verify(i) \/ Break(i) \/ Rerun(i)
      PROVE  Latest'
  BY <1>4, PrepareLatest, ReadPullLatest, ReadFilesLatest, RefuseLatest,
     ReportLatest, VerifyLatest, BreakLatest, RerunLatest
<1>5. CASE UNCHANGED vars
  <2>1. Undisturbed(Len(events)) => Undisturbed(Len(events))'
    BY <1>5, ReportedKept DEF vars, Undisturbed
  <2>. QED  BY <1>5, <2>1 DEF vars, Latest
<1>. QED  BY <1>2, <1>3, <1>4, <1>5 DEF Next

LEMMA LatestInvariance == Spec => []Latest
BY Invariance, LatestInit, LatestStep, PTL DEF Spec

LEMMA WholeAgain ==
    ASSUME NEW h PROVE [Whole(h) EXCEPT !.truncated = FALSE] = Whole(h)
<1>. DEFINE again == [Whole(h) EXCEPT !.truncated = FALSE]
<1>1. again \in [records : {Files[h]}, expected : {Len(Files[h])},
                 truncated : {FALSE}]
  BY DEF Whole
<1>. HIDE DEF again
<1>2. again = [records |-> Files[h], expected |-> Len(Files[h]),
               truncated |-> FALSE]
  BY <1>1
<1>. QED  BY <1>2 DEF again, Whole

\* For complete evidence of an unmoved head the verdict is the owed one.
LEMMA WholeIsOwed ==
    ASSUME NEW p \in PolicyDocument, NEW ev, NEW h \in Heads, NEW text,
           p.known, p.trust # "none", ~Inline(p),
           p.source # "file", text # NoText,
           ev.subject.target = "head", ev.subject.head = h,
           ev.subject.evaluated = h, ev.observed = h, ev.text = text,
           ev.changed = Whole(h)
    PROVE  LET entries == ParsedEntries(p, text)
               verdict == Evaluate(p, ev).verdict
               records == Files[h]
           IN  IF \/ CompileRefused(entries) \/ DigestDiffers(p, text)
                  \/ PathsRefused(records) \/ Len(records) \geq Ceiling
               THEN verdict = "INDETERMINATE"
               ELSE verdict = IF OutsidePaths(entries, Touched(records)) = {}
                              THEN "PASS" ELSE "FAIL"
<1>. DEFINE entries == ParsedEntries(p, text)
            records == Files[h]
<1>1. CoordinateReasons(ev.subject) = {} /\ DriftReasons(ev) = {}
  BY NoneAssumption DEF CoordinateReasons, DriftReasons
<1>2. DeclarationReasons(p, ev) = {}
         <=> ~CompileRefused(entries) /\ ~DigestDiffers(p, text)
  BY DEF DeclarationReasons, MissingDeclaration, AmbiguousDeclaration
<1>3. Len(records) \in Nat /\ Ceiling \in Nat
  BY FilesAssumption, CeilingAssumption
<1>4. PathReasons(ev.changed) = {}
         <=> ~PathsRefused(records) /\ ~(Len(records) \geq Ceiling)
  <2>1. ChangedSetComplete(ev.changed) <=> Len(records) < Ceiling
    BY DEF ChangedSetComplete, Whole
  <2>2. ev.changed.records = records  BY DEF Whole
  <2>. QED  BY <1>3, <2>1, <2>2 DEF PathReasons
<1>5. ProblemReasons(p, ev) = {}
         <=> /\ ~CompileRefused(entries) /\ ~DigestDiffers(p, text)
             /\ ~PathsRefused(records) /\ ~(Len(records) \geq Ceiling)
  BY <1>1, <1>2, <1>4 DEF ProblemReasons
<1>6. ev.changed.records = records  BY DEF Whole
<1>7. CASE ProblemReasons(p, ev) # {}
  BY <1>5, <1>7, EvaluateCases DEF Indeterminate
<1>8. CASE ProblemReasons(p, ev) = {}
  <2>1. \/ /\ OutsidePaths(entries, Touched(records)) # {}
           /\ Evaluate(p, ev).verdict = "FAIL"
        \/ /\ OutsidePaths(entries, Touched(records)) = {}
           /\ Evaluate(p, ev).verdict = "PASS"
    BY <1>6, <1>8, EvaluateCases DEF Fails, Passes
  <2>. QED  BY <1>5, <1>8, <2>1
<1>. QED  BY <1>7, <1>8

\* The job of the newest event, when none of its requests and steps failed,
\* verifies its receipt, and its action has the status that the pull request
\* as it is now deserves, whatever the other jobs do and are re-run.
THEOREM LatestJobDecidesAlways == Spec => []LatestJobDecides
<1>. DEFINE i == Len(events)
<1>1. ASSUME IInv, Latest, DeclaresBody, events[i].body # NoText,
             jobs[i].pc = "done", ~jobs[i].failed
      PROVE  jobs[i].verify = 0 /\ jobs[i].action = Owed(pull, pull.body)
  <2>0. i \in 1 .. MaxEvents  BY <1>1 DEF IInv, TInv, TypeOK
  <2>1. policy \in PolicyDocument /\ pull \in Pull
    BY <1>1, PolicyAssumption DEF IInv, TInv, TypeOK
  <2>. DEFINE ev == Evidence(i, pull.head)
  <2>2. /\ events[i] = pull /\ jobs[i].seen = pull
        /\ jobs[i].changed = Whole(pull.head)
        /\ jobs[i].receipt = BuildReceipt(policy, ev)
        /\ jobs[i].action = ActionStatus(i, jobs[i].receipt)
        /\ jobs[i].verify = VerifyStatus(jobs[i].receipt, Bundle(i))
    BY <1>1 DEF Latest, Undisturbed
  <2>3. jobs[i].bundle = pull.body
    BY <1>1, <2>0, <2>2 DEF IInv, Faithful, DeclarationFile
  <2>4. JudgedText(i) = pull.body
    BY <1>1, <2>2, <2>3 DEF JudgedText, DeclaresBody
  <2>5. jobs[i].verify = 0
    <3>1. ProperBundle(i) = Bundle(i)
      BY <1>1, <2>3, <2>4 DEF ProperBundle, Bundle, DeclaresBody
    <3>2. BuiltBy(i)
      BY <1>1, <2>0, <2>2, ReceiptIsNone DEF IInv, Faithful
    <3>3. policy.known  BY <1>1 DEF DeclaresBody, NeedsText
    <3>. QED
      BY <1>1, <2>0, <2>2, <3>1, <3>2, <3>3, BuiltJobVerifies DEF IInv
  <2>6. /\ ev.subject.target = "head" /\ ev.subject.head = pull.head
        /\ ev.subject.evaluated = pull.head /\ ev.observed = pull.head
        /\ ev.text = pull.body
    BY <2>2, <2>4 DEF Evidence
  <2>7. ev.changed = Whole(pull.head)
    <3>. DEFINE read == jobs[i].changed
                moved == /\ pull.head # NoSha
                         /\ Len(Files[pull.head]) # read.expected
    <3>1. ev.changed = [read EXCEPT !.truncated = @ \/ moved]
      BY DEF Evidence
    <3>2. read.truncated = FALSE /\ ~moved  BY <2>2 DEF Whole
    <3>3. (read.truncated \/ moved) = FALSE  BY <3>2
    <3>. HIDE DEF moved, ev
    <3>4. ev.changed = [read EXCEPT !.truncated = FALSE]  BY <3>1, <3>3
    <3>5. read = Whole(pull.head)  BY <2>2
    <3>. HIDE DEF read
    <3>. QED  BY <3>4, <3>5, WholeAgain
  <2>8. /\ jobs[i].receipt.body.verdict = Evaluate(policy, ev).verdict
        /\ jobs[i].receipt.body.subject = ev.subject
    BY <2>2 DEF BuildReceipt, Seal, Body
  <2>. HIDE DEF ev, i
  <2>9. /\ policy.known /\ policy.trust # "none" /\ ~Inline(policy)
        /\ policy.source # "file" /\ pull.body # NoText
        /\ pull.head \in Heads
    BY <1>1, <2>1, <2>2 DEF DeclaresBody, NeedsText, Pull
  <2>. DEFINE entries == ParsedEntries(policy, pull.body)
              verdict == Evaluate(policy, ev).verdict
              records == Files[pull.head]
  <2>10. IF \/ CompileRefused(entries) \/ DigestDiffers(policy, pull.body)
            \/ PathsRefused(records) \/ Len(records) \geq Ceiling
         THEN verdict = "INDETERMINATE"
         ELSE verdict = IF OutsidePaths(entries, Touched(records)) = {}
                        THEN "PASS" ELSE "FAIL"
    BY <2>1, <2>6, <2>7, <2>9, WholeIsOwed
  <2>. HIDE DEF verdict
  <2>11. jobs[i].action = CASE verdict = "PASS" -> 0
                            [] verdict = "FAIL" -> 10
                            [] OTHER -> 20
    BY <2>2, <2>6, <2>8 DEF ActionStatus, verdict
  <2>12. jobs[i].action = Owed(pull, pull.body)
    BY <2>10, <2>11 DEF Owed
  <2>. QED  BY <2>5, <2>12
<1>2. IInv /\ Latest => LatestJobDecides
  BY <1>1 DEF LatestJobDecides
<1>. QED  BY <1>2, Invariance, LatestInvariance, PTL
=============================================================================
