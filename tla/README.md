# Proof Check in TLA+

Proof Check reads one pull request through the GitHub REST API, holds its
changed paths against a declared scope and writes a receipt that says `PASS`,
`FAIL` or `INDETERMINATE`. A composite action turns the receipt into a required
check. A second, independent pair of tools publishes an automated review and
checks that it is fresh. This directory models how a verdict comes about, what it
is worth, how it becomes an exit code, how a receipt is verified afterwards, and
how the review is published and its freshness decided.

## The system

| Component | Code | State | Operations | Hard part |
|---|---|---|---|---|
| Evidence collection | `src/proof_check/github_read.py` | the pull request as first read, pages received, errors, read-back | `collect_evidence`, `reobserve_pull_request` | the pull request changes between any two requests; any request may fail |
| Deterministic core | `src/proof_check/verify.py` | none | `evaluate`, `build_receipt`, `verify_receipt` | many reasons for saying nothing, one for `FAIL` |
| Scope grammar, path set | `src/proof_check/scope.py` | none | `parse_*`, `refuse_entry`, `compile_scope`, `changed_path_set`, `outside_paths` | renames, collisions, entries that cover everything |
| Command line | `src/proof_check/cli.py` | receipt file and its temporary, exit status | `_check`, `_write_receipt`, `_verify` | partial failure, death between write and rename |
| Source commit | `src/proof_check/cli.py` | none; reads the checkout through git | `resolve_source_commit`, `_git_commit` | one process per file, in a checkout that may change |
| Receipts, offline verification | `verify.py`, `cli.py`, `schemas/` | none | `verify_receipt`, `_verify_bundle` | two derivations of one verdict that must agree |
| Action | `action/run.sh`, `action.yml` | workspace, outputs, exit status | refuse, install, run the command, report | re-runs in a used workspace, a push after the event |
| Contracts, canonical JSON | `contracts.py`, `canonical.py`, `schemas/` | none | typed documents, digests | pure data |
| Review bridge | `tools/review_bridge.py` | reviews on GitHub | `publish` | lost responses, re-runs, a moving head |
| Review freshness | `tools/review_freshness/check.py`, `review-freshness.yml` | retry count, deadline | `decide`, the polling loop | several reads judged as one, time-outs |
| Reviewer workflow | `claude-review.yml` | comments, record, concurrency group | record, publish | cancellation of a run that has already posted |
| Proof Check workflows | `proof-check*.yml` | offline bundle | prepare, run the action, verify | the event and the API disagree |

The action starts the command; the command calls `collect_evidence`, passes the
evidence to `evaluate` and the evaluation to `build_receipt`, and writes the
file; the script reads the file again. Nothing else is shared. The tools talk to
GitHub only, which changes by itself.

What makes each correct: the collector must never present evidence of two
instants, or part of it, as whole; the core must decide only on whole evidence
under an admissible scope, and then truly; the command must leave a whole
receipt that agrees with its status; the action must be green only for a `PASS`
of the commit the check is attached to; the bridge must publish at most one
review for a run and a head; freshness must say `FRESH` only for a review of the
current head; verification must accept every receipt that was written and no
edited one whose claim its own evidence does not bear; re-observation must not
call a listing unchanged that it did not see whole; the recorded source commit
must hold the files that ran.

## Modules

`Rules` - `rules/v0`: `Evaluate(policy, ev)` is `verify.evaluate`, with one
operator for each check it calls (`DeclarationReasons` for
`_resolve_declaration`, `DriftReasons` for `_check_drift`, `PathReasons` for
`_check_changed_paths`, `Touched` and `PathsRefused` for `changed_path_set`).
Text is abstract: a path, an entry, a declaration are members of sets given as
constants, `Covers[e]` is what `matches` accepts for entry `e`, and
`BodyEntries[t]` / `ManifestEntries[t]` are what the two parsers return for text
`t`, the empty set standing for their refusals. The digest of a text is the text;
that of a policy exists only if the policy has a canonical form (`canonical`:
no integer beyond 2^53, no lone surrogate, no NaN). `ConfigurationRefused` are the
policies for which the code raises instead of answering, those of the known version
that cannot be digested among them.

`Collection` - `collect_evidence` and the `evaluate` that follows, one action per
HTTP request: `ReadPull`, `ReadFiles`, `ReadChecks`, `ReadReviews` (a page each),
`ReadDeclaration`, `ReadBack`, then `Judge`. The pull request is a variable of
its own, and `Push`, `Retarget`, `EditBody`, `AddRun`, `Supersede` and `AddReview`
change it between any two requests. `Supersede` is a check that runs again:
`_collect_checks` sends no `filter` (`github_read.py:357`), GitHub then lists the latest
run of each check, and the new run takes the old one's place under an unchanged
`total_count`. Each read has a second disjunct in which it fails,
keeping as many well-formed items as the loop had appended by then. A page of
`pulls/N/files` is computed from the head and the base the pull request has *at
that moment*, as GitHub does; the loop's ceiling, its `truncated` flag, the pinned
`total_count` and the `Link` header rule at the last page are as in the code.
`blind` is a history variable: the pull request moved in a way the read-back
cannot notice (its base changed, or the branch came back to the bound head).

`PromisedVerdict` - the abstract specification: one subject is bound, once; one
answer is given, once; it claims nothing or it is the truth about that subject,
unless the subject was disturbed invisibly. `Collection!KeepsPromise` is its
`Spec` under the mapping `bound <- BoundSubject`, `disturbed <- blind`,
`answer <- Answer`.

`ActionRun` - the command as the script sees it and the script around it:
`CheckInputs` and `Install` (`run.sh` to line 74), `Prepare` and `Collect`
(`_check`), `OpenTemporary`, `FinishTemporary`, `Replace` (`_write_receipt`, each
with its `OSError`, whose handler may or may not manage to remove the temporary),
`PrintVerdict`, then `Report` (`run.sh` from line 95). `Die` ends the command
alone, at any of its steps; `Kill` ends the whole attempt. Attempts follow each
other in a workspace that is kept or cleaned, called by the action or from a
shell. What `collect_evidence` finds is one nondeterministic step here.

`ReviewBridge` - `tools/review_bridge.py`: `Begin` (arguments and closed marker),
`ReadPull`, `ListReviews`, `Post`, `ReadBack`, `WriteRecord`, each for an
invocation `i` of a set of processes, one action per request; `Fail` is a refused
or timed-out read, `Kill` the cancellation of the job (`claude-review.yml:9`). A
`POST` may be applied and answered, applied and not answered, not applied, or
applied after the tool has given up (`delayed`, `Arrive`). GitHub's part is the
list of the App's reviews and the pull request, which moves by itself. The history
variable `disturbed` notes that two invocations overlapped or that a request
outlived its sender: `publish` lists and posts in two requests and cannot tell.

`Publication` - the abstract specification of the bridge, with no word of requests:
an invocation is accepted, cleared while its head is the one under review
(`Clear`), publishes in one step (`Publish`, with `After` for what that may leave
on the list), and succeeds or refuses. Until invocations overlap or a request
outlives its sender, looking at the list and posting act as that one step; from
then on a review may be posted without regard to the list.
`ReviewBridge!PublishesAtomically` is its `Spec` under the mapping `Promise`:
`ReadPull` is `Clear`, `Post` is `Publish`, `ListReviews` is `Publish` where it
finds the review there, `Arrive` is `Arrive`, and `ReadBack` is a stutter or a
refusal.

`Freshness` - the review pipeline of one pull request. `decide` of
`tools/review_freshness/check.py` is four reads (`ReadPull`, `ReadRuns`,
`ReadBlobs`, `ReadReviews`), each followed by what the shell of
`review-freshness.yml` makes of the reason (`GiveUpOrSleep`): red, or another
poll, with the deadline looked at after the sleep (`Expire`) and refused answers
counted (`Refused`). The reviewer is `claude-review.yml`: `StartRun` cancels what
ran before, `WriteSummary`, `Record`, `CheckHead`, `Publish`, `Complete` are its
steps, `Rerun` starts an attempt under the same id. `CheckHead` and `Publish` are
the bridge at the grain of `Publication`, whose `After` the second one uses: the
branch may move between its look at the head and its posting, and a run may be
cancelled there. `PublishesAsPromised` says that the two are steps of `Publication`
under the mapping `Bridge`. `moved` is a history variable: what changed after the
poll under way had read it.

`Paging` - the listing loops that `Collection` and `Reobserve` share: pages, the
prefix kept before a failure, the refusal of repeated ids, and a listing that loses
one of its items (`Without`).

`Reobserve` - `reobserve_pull_request` request by request, then
`_online_differences` (`PrintLines`), against a receipt that was written when the
model starts. Branch and base change between any two requests; check runs are
created, conclude and are superseded.

`Receipts` - `build_receipt` (`Body`, `Seal`), `verify_receipt`
(`ReceiptVerifies`, `VerdictFollows`), the schema's conditions on verdicts
(`SchemaClosed`), `_verify_bundle` (`BundleMatches`) and the exit statuses of
`_verify` (`VerifyStatus`), as operators over `Rules`. A receipt is a body and a
seal; it is intact when they are equal. `PolicyDigest` has the fallback of
`_unknown_policy_version` (`verify.py:395-398`), `PolicyMatches` has none, as
`verify_receipt` has none (`verify.py:574-582`).

`CheckJob` - the jobs of `proof-check.yml` and `proof-check-pinned.yml`, one for
each event of the pull request and all at once: `Prepare` writes the bundle from
the event, `ReadPull`, `ReadFiles` and `Report` are the action, which reads the
pull request as it is then, `Refuse` an action whose policy is refused and which so
leaves no receipt, `Verify` is the offline verification, `Break` a step
that fails or a cancellation, `Rerun` a new attempt with the old event. The reads
`Collection` has in detail are three here; the receipt is that of `Receipts`.

`SourceCommit` - `resolve_source_commit` for four kinds of installation, one
action for each git process, while the checkout is edited (`Edit`) or moved to
another commit (`Checkout`). `loaded` is what runs: the modules from the start,
the policy schema from the validation of the policy, the receipt schema from
`build_receipt`, which comes after the comparison.

The modules whose names begin with `MC` give these small instances; those ending
in `Proofs` hold the theorems, `PagingProofs` the lemmas about `Paging` that
`CollectionProofs` and `ReobserveProofs` cite.

## Runs

| Run | Shows | Bounds |
|---|---|---|
| `collection_race` | `TypeOK`, `DecidedIsTrue`, `KeepsPromise`, `Terminates` while heads, base and body change | 3 heads, 2 bases, 2 bodies, 0 to 5 files |
| `collection_pages` | `PartialNeverDecides`, `ChecksAreAccountedFor`, `ReviewsAreComplete` while check runs and reviews are created and check runs replaced | ids of check runs up to 6, up to 5 reviews: under a page, two full pages, past the ceiling |
| `collection_policies` | `DecidedIsTrue`, `DecidedScopeIsAdmissible`, `PartialNeverDecides` for every kind of policy and both targets | 23 invocations, 2 heads, 2 bases, 3 bodies, 1 test merge |
| `collection_retarget` | `DecidedAtBoundTuple` is violated (finding 1) | 1 head, 2 bases |
| `action_run` | `TypeOK`, `ReceiptIsWhole`, `GreenIsEarned`, `ReportIsOfThisAttempt`, `StatusHasReceipt` | 2 heads, 3 attempts, both callers |
| `action_exit` | `RefusalExitsTwo` is violated (finding 2) | 1 attempt |
| `review_bridge` | `TypeOK`, `AtMostOneReview`, `SuccessIsOnGitHub`, `RefusalsHaveCause`, `Terminates`, `PublishesAtomically` | 3 invocations, 1 run with 3 summaries (one refused), 2 heads |
| `freshness` | `TypeOK`, `SuccessIsOwnReview`, `GreenIsEvidence`, `ErrorsAreBounded`, `Terminates`, `GreenWhenEvident`, `PublishesAsPromised` | 2 heads, 2 versions of the reviewer workflow, 2 attempts of the reviewer, 2 summaries, 1 retry |
| `reobserve` | `TypeOK`, `NoDifferenceIsTrue`, `DifferencesAreReal`, `Terminates` | 2 heads, 2 bases, pages of 1, 2 pages, 0 to 2 check runs at the start, ids up to 3 |
| `check_job` | `TypeOK`, `GenuineVerifies`, `GreenJobIsCoherent`, `EditedCopyIsSupported`, `LatestJobDecides` | 2 events, 2 attempts each, 3 heads, 3 bodies, 9 policies |
| `check_job_null` | `BundleVerifies` is violated (finding 3) | 1 event, 1 attempt, the example policy |
| `source_commit` | `TypeOK`, `RecordedCommitRan`, `RefusalHasCause` | 2 commits, 4 files, 2 changes, 4 installations |

The code's page size 100 and ceiling 3000 are 2 and 4 here: a listing has at most
two pages, so every branch of the paging loops is met - a short page, a full
page, an exactly full last page, the ceiling and a list longer than it - and a
change can fall before, between and after the pages. The instance has two heads
with equally many files, because only then does the count that is read back tell
nothing, and a rename that leaves the scope by its old name. Three attempts let an
attempt find what two others left; three invocations of the bridge let one find
two reviews of its run. One of the comparisons renames a refused path, one is a
single plain change, so that listings of checks and reviews decide by themselves.

`freshness` needs two attempts for what is hard there: an older run with a review
and a newer one without, a run cancelled by the next, a re-run that meets what its
first attempt published. One retry (three in the code) has all three cases: none
used, used, exhausted. In `reobserve` a second check run needs a second page and a
third is past the ceiling; of a head that starts with one or two, a recorded run can be
replaced before, between and after the pages, and one that starts with one has room
for another run besides. In `check_job` two events give an older and a newer
job, and a second attempt a job that runs after the pull request has moved on; the
three heads have a plain change, a rename and a refused path; the three bodies are
one that allows the change, one that allows more and the null body; the two
parsers read each text differently, so that using the wrong one shows; two of the
policies have no canonical form, one of the known version and one of another. In
`source_commit` one change may come before and one within the comparison; the
second commit differs from the first in a module and in a schema.

The command ends, so `CHECK_DEADLOCK FALSE` is set everywhere. `Terminates` is
checked under `WF_vars(Command)`: the command is one thread that only ever waits
for a request, and each request ends in an answer or in its time-out of thirty
seconds. Nothing is assumed of GitHub's users; pushes and edits are not
fair. They are unbounded in number, whereas check runs and reviews are bounded by
`MaxRuns` and `MaxReviews`. `ReviewBridge` has the same fairness for the steps of a
started invocation and none for starting one.

In `Freshness` the fair actions are `JobStep`, the shell of one job, and `Tick`, the
passing of time; the reviewer owes nothing. `GreenWhenEvident` says that a poll is
not given up while the evidence it waits for is there and stays. It leaves out one
poll, of a job that does not wait for a reviewer (a push) and has already read an
older run: that one ends red although newer evidence may exist by then, as the
code has it. `Reobserve` has the fairness of `Collection`. `CheckJob` and
`SourceCommit` state no liveness: a job may be cancelled at any step.

Each module that is mutated carries its seeded faults as `Fault...` operators, no
part of any behaviour; every property of a passing run is violated when one of
them replaces the operator it mimics.

## Findings

1. `collection_retarget`. `docs/contract/subject-semantics.md:18`: "The
   declared-scope rule evaluates the PR's changed-path set at the bound head/base
   tuple only." The read-back (`github_read.py:531-537`) compares the head and
   the number of files. If the base changes after the first read and the new
   comparison has as many files, a `PASS` or `FAIL` is given for files of another
   comparison, under the bound `base_sha`. The same holds of a head that is pushed
   away and back. `DecidedIsTrue` is the claim that does hold.
2. `action_exit`. `README.md:177`: "Invalid policy configuration can instead stop
   with exit `2`." In a pull request's job the command exits 2 and leaves no
   receipt; the comparison with `PROOF_CHECK_EXPECTED_HEAD` (`run.sh:126`) then
   compares an empty head and sets 20. The status is still red.
3. `check_job_null`. `README.md:116`: "the workflow also uploads the policy and PR
   declaration for offline verification." When the pull request has no description
   its body is null. `proof-check.yml:31-32` then writes an empty
   `declaration.txt`, while the command judges no text and records `raw_sha256`
   null; `_verify_bundle` (`cli.py:373`) reports any declaration as a mismatch when
   none is recorded. The job's own verification ends with 20, `UNVERIFIABLE`, for a
   genuine `INDETERMINATE` receipt, which a bundle without the file verifies.

What else the models show of the code, with no document that says otherwise:

- A run of the reviewer that has published and then fails can never become green
  by a re-run: the new summary differs from the one its review was written from,
  and the bridge answers `CONFLICTING_REVIEW`.
- A waiting freshness job whose first listing shows a cancelled or failed run ends
  red at once (`RUN_NOT_SUCCESS`), also when the run it waits for is about to be
  listed.
- `tools/review_freshness/README.md` lists the reasons without
  `REVIEW_EXECUTION_FAILED` and `REVIEW_REPAIR_REQUIRED`.
- `_online_differences` prints `CHECKS_CHANGED` beside
  `REOBSERVATION_UNAVAILABLE` when no check run could be read.
- A receipt does not hold the head that was read back. A `STALE_HEAD` receipt
  rewritten to `PASS` and sealed again verifies if its other content bears the
  verdict; `EditedCopyIsSupported` is therefore about the evidence the copy records.
- With an inline, `file` or `none` policy the workflow's own `declaration.txt` is
  not what was judged, and its verification fails; `LatestJobDecides` is about the
  policies whose declaration is the body (`DeclaresBody`).
- A policy of an unknown version that holds 9007199254740993 or a lone surrogate has
  no canonical digest. `_unknown_policy_version` falls back to the digest of another
  rendering (`verify.py:395-398`) and a receipt is written; `verify_receipt` has no
  such fallback (`verify.py:574-582`), so the genuine receipt is `UNVERIFIABLE` in its
  own bundle. `GenuineVerifies` says that there is no other case, and that a policy of
  the known version without canonical form never gets a receipt.
- A check that is run again while its head's check runs are read moves the pages
  without changing `total_count`. A decided receipt can then lack a check run that was
  listed throughout; `ChecksAreAccountedFor` says that it lacks no more of those of the
  start than were replaced, and none if none was.

## Proofs

For every value of the constants that satisfies the modules' named assumptions:
page sizes, ceilings and bounds are numbers, of which `PageSize` and the ceilings
are positive and a page is no longer than the ceiling of `Collection`
(`PageAssumption`, `CeilingAssumption`, `FirstPageAssumption`); a comparison lists a
path once (`FilesAssumption`); the values that stand for "none" are no others
(`CommitAssumption`, `NoneAssumption`). Every invariant that a passing run checks is
also a theorem. Each was strengthened to an inductive one, which TLC accepted on the
run's instance before it was proved.

`PagingProofs` - what a page of a list holds and where (`PageOfFacts`,
`PageIsPart`), that a prefix and the page behind it are a prefix (`PrefixGrows`),
that a prefix of full length is the list (`PrefixFull`), that what repeats
nothing stays without repetition (`InjectiveGrows`), what a list is without one of its
items (`WithoutFacts`, `WithoutInjective`), and that a list without repetition has as
many items as places (`CountedRange`).

`CollectionProofs`, about `SafetySpec` (`Spec` without fairness):

- `TypeCorrect`: `[]TypeOK`, in particular at most `Ceiling` records and no
  reserved reason code.
- `Inductive`: `[]IInv`. `DecidedIsTrue` is not inductive: it speaks of the end
  of a run and says nothing of what was received before. `IInv` keeps, from the
  first read on, that every record received so far is the corresponding one of
  the bound comparison as long as the head is where it was bound and no invisible
  move occurred (`RecordsKept`); once the read-back has confirmed head and count,
  that holds without the proviso (`RecordsConfirmed`); that the declaration is
  the bound one (`TextKept`); and that the stages that failed so far have left
  their marks (`ErrorsMarked`). The list read is a prefix of the bound list
  throughout (`PrefixGrows`), and a prefix of full length is the list
  (`PrefixFull`). `EvaluateDecides` is the lemma about `Rules`: a decided
  evaluation had no problem of any kind.
- `DecidedIsTrueAlways`, `PartialNeverDecidesAlways`: from `IInv`.
- `ListsInductive` adds what the listings of check runs and reviews hold while
  they are read. The ids of the check runs are given one after the other, to those
  that are listed and those that were replaced (`Numbered`), and there are never
  fewer than before (`Begun`). As long as their number is the one the first page gave
  and none was replaced, what was received is the beginning of the list in whole
  pages; once the number differs it stays different, and the next page is refused
  (`ChecksSoFar`). A finished listing then lies in the list without a gap, whatever
  is created afterwards at either end (`Consecutive`). When runs were replaced, what
  is left is counting (`ChecksCounted`): no id was received twice, and as many were
  received as were listed at one instant, out of all that had been given by then;
  so at most as many of the first are missing as were replaced (`MissingAreFew`).
  Reviews come in the order of their ids, so the pages read are the
  first of them (`ReviewsSoFar`). `Admitted` is what `Judge` establishes. From it
  `ChecksAreAccountedForAlways`, `ReviewsAreCompleteAlways`,
  `DecidedScopeIsAdmissibleAlways`.
- `CommandIsBounded`: every step of the command lowers `Remaining`, a number fixed
  by `Ceiling` and `PageSize`, and no step of the environment changes it. That is
  what `Terminates` needs besides fairness.
- `Refinement`: `SafetySpec => KeepsPromise`. `ReadPull` is `Bind` or `Abstain`,
  an environment step is `Disturb` or a stutter, `Judge` is `Decide`, `Abstain` or
  `Guess`, every other step is a stutter.

`ActionRunProofs`, about `Spec`: `TypeCorrect`, `Inductive`, and from it
`ReceiptIsWholeAlways`, `GreenIsEarnedAlways`, `ReportIsOfThisAttemptAlways`,
`StatusHasReceiptAlways`. `IInv` adds what holds half-way: the receipt in memory is
this attempt's (`BuiltIsOwn`), the temporary that is renamed equals it and so does
the receipt after the rename (`Published`), no receipt behind the script's first
check is older than the attempt (`NoOlderReceipt`), and the command has no status
while it runs (`StatusIsLate`).

`ReviewBridgeProofs`, about `SafetySpec`: `TypeCorrect`, `Inductive`,
`AtMostOneReviewAlways`, `SuccessIsOnGitHubAlways`, `RefusalsHaveCauseAlways`,
`Refinement`.
`AtMostOneReview` is preserved by `Post` only because the listing of the same
invocation is still true then (`StillClear`), which needs that nobody else works
meanwhile (`Quiet`); `RefusalsHaveCause` needs that every review was composed by
some invocation (`Origin`); `SuccessIsOnGitHub` follows from `HeldIsOwn`.
`Refinement` is `SafetySpec => PublishesAtomically`, one lemma for each kind of step
(`BeginPromised`, `PullPromised`, `PostPromised`, `ArrivePromised`, `MovePromised`).
That `Post` is a `Publish` of the promise is `StillClear` again: what `ListReviews`
found is still so unless `disturbed`. `Arrive` needs that whoever has a request under
way after giving up is seen by the promise as refused (`SenderGaveUp`).

`CheckJobProofs`, about `Spec`: `TypeCorrect`, `GenuineVerifiesAlways`,
`GreenJobIsCoherentAlways`, `EditedCopyIsSupportedAlways`,
`LatestJobDecidesAlways`. Most of the argument is about operators:
`EvaluateCases` gives the three shapes of an evaluation, `ResolvedDeclaration` what
a decided one has resolved, `BuiltIsClosed`, `BuiltVerifies` and `BundleDerives` that
a receipt built from any evidence under any policy satisfies the schema, verifies
and agrees with its bundle if the policy has a canonical form, which makes
`BuiltVerifiesInBundle`. The invariant
(`IInv`) ties the jobs to these facts: a job keeps the declaration of its event, its
receipt was built from what it has read, and a status 0 is the one its receipt has
(`Faithful`). What a job has read does not change once it has a receipt, whatever
happens to the pull request and the other jobs (`EvidenceKept`, `OtherKept`).
`EditedCopyIsSupportedAlways` needs no more of the jobs than that. The entries a
bundle derives depend only on the policy's source and on the text (`EntriesFollow`),
so no copy with wider entries matches the bundle; entries that `compile_scope`
accepts are recorded only of a declaration that was resolved
(`RecordedIsResolved`), so a reworded copy verifies only with the verdict its
evidence bears (`CopyIsSupported`). `LatestJobDecidesAlways` needs a second
invariant (`Latest`): the newest event is about the pull request as it is now, so
what its job has read, and its statuses if none of its steps failed, are those of
that pull request (`Undisturbed`); `WholeIsOwed` computes the status of such an
evaluation from the pull request alone.

`SourceCommitProofs`, about `Spec`: `TypeCorrect`, `RecordedCommitRanAlways`,
`RefusalHasCauseAlways`. `RecordedCommitRan` speaks of the end only. `IInv` says,
from the start on, which files are loaded when (`LoadedInTime`), that a loaded
file that was not written since still is what is on disk (`Current`), that HEAD is
the commit that was resolved as long as nobody moved it (`Unmoved`), that what git
printed is of that commit (`ShownIsOfCommit`), and that every file compared so far
agrees with it, in memory if it is loaded and otherwise on disk (`ReadAgrees`); the
receipt schema is the one file for which the second case is needed. `CInv` adds
that a clean installation ends its first round with a commit (`CleanAccepted`).

`FreshnessProofs`, about `SafetySpec`: `TypeCorrect`, `SuccessIsOwnReviewAlways`,
`GreenIsEvidenceAlways`, `ErrorsAreBoundedAlways`. `RunsInOrder` says what a run has
earned at each stage - one summary of its attempt before it publishes, one review
written from that summary before it uploads - and a restart or a cancellation
leaves no other run with less (`RestartKeeps`). For the job one conjunct for each
read says that what was read is still so or is noted in `moved` (`HeadRead`,
`RunRead`, `BlobRead`, `ReviewRead`); a review can still be posted after the last
read, but not for a run that has one. `Counted` ties the retries of the shell to the
refused answers. `EvidenceIsNotGivenUp` is the safe part of `GreenWhenEvident`, as an
action property: from every state in which a poll is on track (`OnTrack`), a step
leads to another such state or to green, unless the evidence goes, the deadline
passes or the retries run out. It needs `RunsInOrder`, for a successful run always
has the review that is read last, and that a newer run is listed unfinished
(`LatestStays`). `PublishesAsPromisedAlways` needs it too: the promise speaks of the
review an invocation was given, the model of the summaries a run has, and at its
bridge a run has exactly one (`WantedFrom`). `LateJobsEnd` is the safe part of
`Terminates`: past the deadline every step of the shell ends the job or brings the
poll nearer to its end, and nobody else's step changes the job.

`ReobserveProofs`, about `SafetySpec`: `TypeCorrect`, `NoDifferenceIsTrueAlways`,
`DifferencesAreRealAlways`, `CommandIsBounded`. A check run concludes once and is
listed until it is superseded, after which its id never returns (`Numbered`,
`Changes`). So once a run of the recorded head has been superseded, a recorded run is
missing for ever, or there are more runs than recorded ones (`Recorded`). The pages
may have shifted, and the argument counts instead: as many ids are received as were
listed at the first page (`Pinned`), and a recorded run that was not listed then is
never received (`RecordedListed`). If those received are the recorded ones, they are
therefore all that were listed (`ReceivedAreListed`): `NO_REOBSERVED_DIFFERENCES` is
about whole listings. For the other direction, if the head's check runs are the
recorded ones at the end, none was superseded; every check run that was read is then
still there, concluded if it was read so (`StillThere`), no recorded one had
concluded, and there are as many (`SameChecks`).

Only model-checked: `Terminates` of four modules and `GreenWhenEvident`. Liveness
under fairness needs `ENABLED`, which is outside the prover's reach; the action
properties above (`CommandIsBounded` of two modules, `LateJobsEnd`,
`EvidenceIsNotGivenUp`) prove the part of four of them that does not. For
`ReviewBridge` that part is the order of its stages. The three violations are shown
by runs alone.

## Abstractions and limits

- A request that fails stands for everything `get_json` and the field validators
  refuse (`github_read.py:84-252`); an answer is GitHub's state at one instant.
- `changed_files` is the length of the comparison GitHub would list at the same
  instant; the test-merge commit is any value GitHub may report.
- `MANIFEST_PATH_REFUSED` (`github_read.py:467`) is one of the failures of
  `ReadDeclaration`.
- After a failing page of check runs `total` keeps its old value; the listing is
  already marked as failed and the value is not read again.
- `Retarget` sets `blind` also when the count happens to give the move away, so the
  properties claim a little less than they could.
- The death of a process loses nothing it has written; a crash of the machine,
  where a rename without `fsync` may lose the content, is not modelled.
- The pages of a review listing are one read in `ReviewBridge`: reviews are listed
  oldest first and never removed, so the pages together are the list at the last
  of them. Reviews by others than the App are filtered out by the tool and absent.
- A summary comment is a constant: what its marker says does not change between
  the recorder's reading and the bridge's.
- In the deployed workflow a re-run of a job writes a new summary, so that a run
  whose review was posted but not confirmed meets `CONFLICTING_REVIEW` ever after;
  reconciliation is for an invocation repeated with the same summary.
- The receipt's mode (`receipt.mode`) is not read by `_check`, so it is absent.
- Two commands that run at once on one receipt path share one temporary name
  (`cli.py:239`). Attempts are sequential here, as the steps of a job are.
- `GreenJobIsCoherent` is about the paths a receipt records; that these are the
  pull request's is `DecidedIsTrue` of `Collection`, with its proviso.
- In `Freshness` the concurrency group keeps one run at a time, and a request of the
  bridge that outlives a cancelled run is left out; `ReviewBridge` has it.
- In `Freshness` the workflow file of a head and main's are one read, at the moment
  of main's; pages of one listing are one read. One freshness job is followed, for
  an event of any kind. The summary's text, its repair loop within one run and the
  prompt are left out.
- `SourceCommit` leaves out the `source_commit` parameter of `main`, which only tests
  set, and an installation from a VCS URL, which
  `_configure_contract_schema_dir` always refuses: a distribution does not hold the
  schemas.
- A digest is what it digests: no collision, and canonical JSON is injective. It is
  partial for policies (`Rules`); everything else that is canonicalized is taken to be
  valid Unicode with numbers below 2^53. Paths that are not are escaped by `_portable`
  before they are digested.
- `Validate` of `SourceCommit` is that of a policy of the known version. A policy of
  another version is not validated (`cli.py:283-290`); the stand-in it is collected
  with is, but only after the comparison (`cli.py:297`), so that the policy schema is
  then loaded as late as the receipt schema, the file for which the model has that
  order.
- The number of fields of a receipt that the edited copies differ in is small: verdict,
  reasons, details, outside paths and allowed entries, as the tests do.

Not modelled, because each is a pure function of one input that the repository
tests with tables, or plain I/O: the grammar of entries and manifests character by
character (`scope.py`), canonical JSON (`canonical.py`), the typed documents
(`contracts.py`) but for the conditions on verdicts, URL and redirect checks of the
transport (`github_read.py:84-252`), printed text, `issue-scope` and the release
material.

## Plan

Modelled in the order of the first plan: collection, action, bridge, freshness,
re-observation, receipts, the check job, the source commit; proved in the same order,
with the two refinements last. Left:

1. The scope grammar over short sequences of segments: no admitted entry covers
   the universal probe, and the two parsers against a reference definition.
2. A two-process instance of the receipt write.
