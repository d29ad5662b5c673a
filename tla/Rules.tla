------------------------------- MODULE Rules -------------------------------
(***************************************************************************)
(* The deterministic core: rules/v0 of src/proof_check/verify.py and the   *)
(* part of src/proof_check/scope.py it calls.  `evaluate` takes a policy   *)
(* and one bundle of evidence and returns a verdict; it does no I/O.       *)
(*                                                                         *)
(* Text is abstracted to what the rules tell apart.  A path is a member of *)
(* Paths; an entry is a member of Entries, and Covers[e] is the set of     *)
(* paths `matches` accepts for it.  A declaration text yields a set of     *)
(* entries, the empty set standing for the refusals NO_SECTION,            *)
(* DUPLICATE_SECTION and EMPTY_SECTION.  The digest of a text is the text. *)
(* Reason and detail codes are sets: no rule depends on their order.       *)
(***************************************************************************)
EXTENDS Integers, Sequences, Functions

CONSTANTS
    Paths,             \* the paths a record may name
    RefusedPaths,      \* those `_refuse_path` raises on
    Collisions,        \* pairs of distinct paths that agree after NFC
    NoPath,            \* a record's previous_filename is None
    Entries,           \* declared scope entries
    RefusedEntries,    \* those `refuse_entry` raises on
    Covers,            \* Covers[e]: the paths entry e matches
    Texts,             \* declaration texts
    NoText,            \* a declaration that is None
    BodyEntries,       \* BodyEntries[t]: the "## Allowlist" section of t
    ManifestEntries,   \* ManifestEntries[t]: t read line by line
    NoEntries,         \* a policy without inline entries
    NoSha,             \* a commit hash that is None
    Ceiling            \* CHANGED_FILES_CEILING, 3000 in the code

ASSUME CeilingAssumption == Ceiling \in Nat \ {0}

-----------------------------------------------------------------------------
(* Seeded faults: wrong versions of definitions below, used by no behaviour *)

FaultAnyEntry(entries) == entries = {}

FaultNewNameOnly(records) == {r.filename : r \in Range(records)}

FaultNoDrift(ev) == IF ev.observed = NoSha THEN {"EVIDENCE_MISSING"} ELSE {}

FaultReservedCode(ev) ==
    IF ev.observed = ev.subject.head THEN {} ELSE {"MIXED_HEAD_EVIDENCE"}

FaultUnpinned(policy, text) == FALSE

-----------------------------------------------------------------------------
(* Policies and declarations *)

Sources == {"pr_body_allowlist", "file", "pinned"}
Trusts == {"none", "advisory", "blocking"}

\* One policy document.  `known` is whether schema_version is the one this
\* tool understands; `pin` is the text whose digest a pinned: source names.
\* `canonical` is whether canonical_sha256 takes it: it raises on an integer
\* beyond 2^53, a lone surrogate, NaN and the infinities.
PolicyDocument ==
    [known: BOOLEAN, canonical: BOOLEAN, source: Sources, trust: Trusts,
     entries: (SUBSET Entries) \cup {NoEntries}, pin: Texts]

Inline(policy) == policy.entries # NoEntries

\* `_resolve_declaration` raises, first of all when the policy cannot be
\* digested: the command exits 2.
ConfigurationRefused(policy) ==
    /\ policy.known
    /\ \/ ~policy.canonical
       \/ policy.trust # "none" /\ policy.entries = {}
       \/ /\ ~Inline(policy)
          /\ policy.source = "pr_body_allowlist"
          /\ policy.trust = "blocking"

SourceType(policy) ==
    CASE ~policy.known \/ policy.trust = "none"  -> "none"
      [] Inline(policy) /\ policy.trust # "none" /\ policy.known
                                                 -> "owner_pinned_input"
      [] OTHER -> [pr_body_allowlist |-> "author_pr_body",
                   file |-> "trusted_base_manifest",
                   pinned |-> "owner_pinned_input"][policy.source]

\* The entries the declaration spells out, before compile_scope validates them.
ParsedEntries(policy, text) ==
    CASE Inline(policy) -> policy.entries
      [] ~Inline(policy) /\ policy.source = "pr_body_allowlist" ->
            BodyEntries[text]
      [] OTHER -> ManifestEntries[text]

\* compile_scope: an empty list or one refused entry refuses the whole scope.
CompileRefused(entries) == entries = {} \/ entries \cap RefusedEntries # {}

\* A pinned: source names the digest its declaration must have.
DigestDiffers(policy, text) == policy.source = "pinned" /\ text # policy.pin

MissingDeclaration(policy, base, text, bound) ==
    \/ policy.trust = "none"
    \/ /\ ~Inline(policy)
       /\ \/ text = NoText
          \/ policy.source = "file" /\ bound \notin {NoSha, base}

AmbiguousDeclaration(policy, text, bound) ==
    IF Inline(policy)
    THEN CompileRefused(policy.entries)
    ELSE \/ policy.source = "file" /\ bound = NoSha
         \/ DigestDiffers(policy, text)
         \/ CompileRefused(ParsedEntries(policy, text))

DeclarationReasons(policy, ev) ==
    IF MissingDeclaration(policy, ev.subject.base, ev.text, ev.bound)
    THEN {"EVIDENCE_MISSING"}
    ELSE IF AmbiguousDeclaration(policy, ev.text, ev.bound)
         THEN {"EVIDENCE_AMBIGUOUS"} ELSE {}

\* allowed_entries of the receipt's policy record: what was parsed, also when
\* compile_scope then refuses it, and nothing when there was nothing to parse.
RecordedEntries(policy, ev) ==
    IF \/ MissingDeclaration(policy, ev.subject.base, ev.text, ev.bound)
       \/ /\ ~Inline(policy)
          /\ \/ policy.source = "file" /\ ev.bound = NoSha
             \/ DigestDiffers(policy, ev.text)
    THEN {} ELSE ParsedEntries(policy, ev.text)

\* raw_sha256 of the policy record.
RecordedRaw(policy, ev) ==
    CASE ~policy.known \/ policy.trust = "none" -> NoText
      [] policy.known /\ policy.trust # "none" /\ Inline(policy) ->
            policy.entries
      [] OTHER -> ev.text

-----------------------------------------------------------------------------
(* Changed paths *)

\* Both sides of a rename, as changed_path_set collects them.
Touched(records) ==
    {r.filename : r \in Range(records)}
        \cup ({r.previous : r \in Range(records)} \ {NoPath})

PathsRefused(records) ==
    \/ Touched(records) \cap RefusedPaths # {}
    \/ \E pair \in Collisions : pair \subseteq Touched(records)

ChangedSetComplete(changed) ==
    /\ ~changed.truncated
    /\ Len(changed.records) = changed.expected
    /\ changed.expected < Ceiling

OutsidePaths(entries, paths) ==
    {p \in paths : \A e \in entries : p \notin Covers[e]}

-----------------------------------------------------------------------------
(* evaluate *)

CoordinateReasons(subject) ==
    LET coordinate == IF subject.target = "head" THEN subject.head
                                                 ELSE subject.merge
    IN  IF coordinate = NoSha \/ subject.evaluated # coordinate
        THEN {"EVIDENCE_AMBIGUOUS"} ELSE {}

DriftReasons(ev) ==
    IF ev.observed = NoSha THEN {"EVIDENCE_MISSING"}
    ELSE IF ev.observed # ev.subject.head THEN {"STALE_HEAD"} ELSE {}

PathReasons(changed) ==
    (IF ChangedSetComplete(changed) THEN {} ELSE {"EVIDENCE_MISSING"})
        \cup (IF PathsRefused(changed.records) THEN {"EVIDENCE_AMBIGUOUS"}
                                               ELSE {})

ProblemReasons(policy, ev) ==
    CoordinateReasons(ev.subject) \cup DeclarationReasons(policy, ev)
        \cup DriftReasons(ev) \cup PathReasons(ev.changed)

ProblemDetails(ev) ==
    (IF "STALE_HEAD" \in DriftReasons(ev) THEN {"COORDINATE_DRIFT"} ELSE {})
        \cup (IF ChangedSetComplete(ev.changed)
              THEN {} ELSE {"CHANGED_PATH_SET_INCOMPLETE"})

Indeterminate(reasons, details) ==
    [verdict |-> "INDETERMINATE", reasons |-> reasons, details |-> details,
     outside |-> {}]

Fails(outside) ==
    [verdict |-> "FAIL", reasons |-> {"SCOPE_ESCAPE"},
     details |-> {"PATH_OUTSIDE_DECLARED_SCOPE"}, outside |-> outside]

Passes(subject) ==
    [verdict |-> "PASS", reasons |-> {},
     details |-> {"ALL_CHANGED_PATHS_WITHIN_DECLARED_SCOPE"}
        \cup (IF subject.target = "merge_group"
              THEN {"MERGE_GROUP_COORDINATES_COHERENT"} ELSE {}),
     outside |-> {}]

\* The policy that ConfigurationRefused refuses never reaches a verdict.
Evaluate(policy, ev) ==
    LET problems == ProblemReasons(policy, ev)
        outside == OutsidePaths(ParsedEntries(policy, ev.text),
                                Touched(ev.changed.records))
    IN  CASE ~policy.known -> Indeterminate({"EVIDENCE_AMBIGUOUS"}, {})
          [] policy.known /\ problems # {} ->
                Indeterminate(problems, ProblemDetails(ev))
          [] policy.known /\ problems = {} /\ outside # {} -> Fails(outside)
          [] OTHER -> Passes(ev.subject)
=============================================================================
