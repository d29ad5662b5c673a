------------------------------ MODULE Receipts ------------------------------
(***************************************************************************)
(* Receipts and their offline verification: build_receipt and              *)
(* verify_receipt of src/proof_check/verify.py, and _verify_bundle and the *)
(* exit statuses of _verify in src/proof_check/cli.py.  The two sides are   *)
(* written separately in the code and share no verdict: the verifier       *)
(* derives again what the receipt's own content permits.                   *)
(*                                                                         *)
(* A receipt is a body and a seal, receipt_digest: it is intact when the   *)
(* seal is the body.  As in Rules, codes are sets, and so are path lists:   *)
(* `ordered` stands for the order rules.  The digest of a policy is the     *)
(* policy, where it has a canonical form at all.                           *)
(***************************************************************************)
EXTENDS Rules

Decided == {"PASS", "FAIL"}
Within == "ALL_CHANGED_PATHS_WITHIN_DECLARED_SCOPE"
Outside == "PATH_OUTSIDE_DECLARED_SCOPE"
Reserved == {"MIXED_HEAD_EVIDENCE", "PRODUCER_REVIEWER_CONFLICT"}

-----------------------------------------------------------------------------
(* Seeded faults: wrong versions of definitions below, used by no behaviour *)

FaultAlwaysWhole(changed) ==
    changed.received = changed.expected /\ changed.expected < Ceiling

FaultAnyOutside(body) ==
    /\ body.verdict = "PASS" =>
          /\ OutsidePaths(body.policy.entries, Touched(body.changed.records))
                = {}
          /\ Within \in body.details
    /\ body.verdict = "FAIL" => Outside \in body.details

FaultOneParser(record, bundle) == ManifestEntries[bundle.declaration]

-----------------------------------------------------------------------------
(* build_receipt *)

\* canonical_sha256, or what _unknown_policy_version falls back to: the digest
\* of another rendering, which no canonical digest equals.
PolicyDigest(policy) ==
    IF policy.canonical THEN policy ELSE [rendered |-> policy]

\* What _resolve_declaration records of the policy and its declaration; a
\* policy of an unknown version leaves nothing but its digest.
PolicyRecord(policy, ev) ==
    [source |-> SourceType(policy),
     raw |-> RecordedRaw(policy, ev),
     entries |-> IF policy.known THEN RecordedEntries(policy, ev) ELSE {},
     trust |-> IF policy.known THEN policy.trust ELSE "none",
     digest |-> PolicyDigest(policy)]

ChangedPaths(changed) ==
    [records |-> changed.records,
     expected |-> changed.expected,
     received |-> Len(changed.records),
     complete |-> ChangedSetComplete(changed),
     paths |-> Touched(changed.records)]

\* What evaluate answered, beside the evidence it is about.
Body(policy, ev) ==
    LET evaluation == Evaluate(policy, ev)
    IN  [subject |-> ev.subject,
         policy |-> PolicyRecord(policy, ev),
         changed |-> ChangedPaths(ev.changed),
         ordered |-> TRUE,
         verdict |-> evaluation.verdict,
         reasons |-> evaluation.reasons,
         details |-> evaluation.details,
         outside |-> evaluation.outside]

Seal(body) == [body |-> body, seal |-> body]

BuildReceipt(policy, ev) == Seal(Body(policy, ev))

-----------------------------------------------------------------------------
(* verify_receipt *)

\* The conditions the receipt schema puts on each verdict.  An absent
\* outside_paths is the empty set, which a present one may not be.
SchemaClosed(body) ==
    CASE body.verdict = "PASS" ->
            /\ body.reasons = {} /\ body.outside = {}
            /\ body.details \subseteq
                  {Within, "MERGE_GROUP_COORDINATES_COHERENT"}
      [] body.verdict = "FAIL" ->
            body.reasons = {"SCOPE_ESCAPE"} /\ body.outside # {}
      [] OTHER ->
            /\ body.reasons # {} /\ body.outside = {}
            /\ body.reasons \subseteq
                  {"EVIDENCE_MISSING", "EVIDENCE_AMBIGUOUS", "STALE_HEAD",
                   "MIXED_HEAD_EVIDENCE"}

HonestComplete(changed) ==
    changed.complete => /\ changed.received = changed.expected
                        /\ changed.expected < Ceiling

Coherent(subject) ==
    LET coordinate == IF subject.target = "head" THEN subject.head
                                                 ELSE subject.merge
    IN  coordinate # NoSha /\ subject.evaluated = coordinate

\* Whether the receipt's content permits PASS or FAIL at all.
Decidable(body) ==
    /\ body.changed.complete
    /\ Coherent(body.subject)
    /\ ~CompileRefused(body.policy.entries)
    /\ ~PathsRefused(body.changed.records)
    /\ body.policy.source # "none"
    /\ body.policy.trust # "none"

OutcomeFollows(body) ==
    LET outside ==
            OutsidePaths(body.policy.entries, Touched(body.changed.records))
    IN  /\ body.verdict = "PASS" => outside = {} /\ Within \in body.details
        /\ body.verdict = "FAIL" =>
              body.outside = outside /\ Outside \in body.details

VerdictFollows(body) ==
    body.verdict # "INDETERMINATE" => Decidable(body) /\ OutcomeFollows(body)

\* No finding, for a receipt that satisfies the schema.
ReceiptVerifies(receipt) ==
    LET body == receipt.body
        changed == body.changed
    IN  /\ receipt.seal = body
        /\ Touched(changed.records) = changed.paths
        /\ changed.received = Len(changed.records)
        /\ HonestComplete(changed)
        /\ body.reasons \cap Reserved = {}
        /\ body.ordered
        /\ VerdictFollows(body)

-----------------------------------------------------------------------------
(* _verify_bundle: a policy and, in declaration.txt, a text or no file *)

DeclarationMatches(record, bundle) ==
    bundle.declaration # NoText =>
        record.raw # NoText /\ bundle.declaration = record.raw

\* The source cannot be derived again without declaration.txt.
NeedsDeclaration(record, bundle) ==
    /\ record.raw # NoText /\ record.source # "none"
    /\ ~(record.source = "owner_pinned_input" /\ Inline(bundle.policy))

DeclaredEntries(record, bundle) ==
    IF record.source = "author_pr_body"
    THEN BodyEntries[bundle.declaration]
    ELSE IF /\ record.source = "owner_pinned_input"
            /\ DigestDiffers(bundle.policy, bundle.declaration)
         THEN {} ELSE ManifestEntries[bundle.declaration]

ExpectedEntries(record, bundle) ==
    IF NeedsDeclaration(record, bundle) THEN DeclaredEntries(record, bundle)
    ELSE IF record.raw = NoText \/ record.source = "none"
         THEN {} ELSE bundle.policy.entries

\* verify_receipt has no fallback: a policy it cannot digest is a finding.
PolicyMatches(record, bundle) ==
    bundle.policy.canonical /\ bundle.policy = record.digest

\* The allowed entries are not compared once the declaration's digest differs.
BundleMatches(record, bundle) ==
    /\ PolicyMatches(record, bundle)
    /\ DeclarationMatches(record, bundle)
    /\ NeedsDeclaration(record, bundle) => bundle.declaration # NoText
    /\ ExpectedEntries(record, bundle) = record.entries

\* `proof-check verify --offline-bundle`: malformed, unverifiable, verified.
VerifyStatus(receipt, bundle) ==
    CASE ~SchemaClosed(receipt.body) -> 2
      [] /\ SchemaClosed(receipt.body)
         /\ ReceiptVerifies(receipt)
         /\ BundleMatches(receipt.body.policy, bundle) -> 0
      [] OTHER -> 20
=============================================================================
