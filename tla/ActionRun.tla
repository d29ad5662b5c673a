----------------------------- MODULE ActionRun -----------------------------
(***************************************************************************)
(* From a verdict to an exit code: `proof-check check` (`_check` and       *)
(* `_write_receipt` of src/proof_check/cli.py) writes a receipt beside its *)
(* destination and renames it, and action/run.sh turns the receipt it      *)
(* finds into the exit code of a required check.                           *)
(*                                                                         *)
(* Attempts follow each other in one workspace: steps of a job, re-runs of *)
(* a job for the same event, commands typed in a shell.  An attempt may be *)
(* cancelled at any step, and the command may die alone, the script living *)
(* on.  Collecting and judging the evidence is one step here: module       *)
(* Collection shows what its outcomes are worth.                           *)
(***************************************************************************)
EXTENDS Naturals

CONSTANTS
    Heads,         \* head commits of the pull request
    NoHead,        \* an event without a pull request; no head recorded
    Callers,       \* who runs the command: "action", "shell"
    MaxAttempts    \* bound on the attempts in one workspace

VARIABLES
    head,          \* the pull request's head now
    receipt,       \* the file at the receipt path
    temporary,     \* the file `_write_receipt` writes beside it
    attempt,       \* number of the attempt that runs, or ran last
    job,           \* its caller, EXPECTED_HEAD and indeterminate_exit: 0
    pc,            \* what the attempt does next
    built,         \* the receipt the command holds in memory
    cli,           \* the command's exit status
    exit,          \* the attempt's exit status
    output         \* what the script wrote to GITHUB_OUTPUT

files == <<receipt, temporary>>
vars == <<head, files, attempt, job, pc, built, cli, exit, output>>

ASSUME HeadAssumption == NoHead \notin Heads

ASSUME CallerAssumption == Callers \subseteq {"action", "shell"}

ASSUME AttemptAssumption == MaxAttempts \in Nat

-----------------------------------------------------------------------------
(* Files and exit statuses *)

Verdicts == {"PASS", "FAIL", "INDETERMINATE"}

Document == [verdict: Verdicts, head: Heads, attempt: 1 .. MaxAttempts]

\* Not a receipt: no such file, or a file written in part.
NoFile(word) == [verdict |-> word, head |-> NoHead, attempt |-> 0]
Absent == NoFile("absent")
Torn == NoFile("torn")

File == Document \cup {Absent, Torn}

Running == 256                     \* no process ends with this status
Status == 0 .. Running

DeathStatuses == {1, 137}          \* an uncaught exception, a signal
InstallStatuses == {1, 2, 128}     \* pip, `refuse`, git

NoOutput == [verdict |-> "", exit |-> Running, digest |-> Absent]

-----------------------------------------------------------------------------
(* Seeded faults: wrong versions of definitions below, used by no behaviour *)

FaultTrustCommand(verdict) == IF verdict = "FAIL" THEN 10 ELSE cli

FaultReuse(file) == TRUE

FaultSwallow == pc' = "print" /\ UNCHANGED <<temporary, cli, exit>>

FaultInPlace ==
    /\ pc = "open"
    /\ receipt' = Torn /\ pc' = "write"
    /\ UNCHANGED <<head, temporary, attempt, job, built, cli, exit, output>>

FaultNoParse(file) == file.verdict

-----------------------------------------------------------------------------

Init ==
    /\ head \in Heads
    /\ receipt = Absent /\ temporary = Absent
    /\ attempt = 0
    /\ job = [caller |-> "none", expected |-> NoHead, optOut |-> FALSE]
    /\ pc = "ended"
    /\ built = Absent
    /\ cli = Running /\ exit = Running
    /\ output = NoOutput

Push(h) ==
    /\ h # head
    /\ head' = h
    /\ UNCHANGED <<files, attempt, job, pc, built, cli, exit, output>>

\* A new attempt, in the workspace as it is or in a clean one.  The expected
\* head is the event's, which a re-run of the job keeps.
Start(caller) ==
    /\ pc \in {"ended", "killed"}
    /\ attempt < MaxAttempts
    /\ attempt' = attempt + 1
    /\ \E expected \in Heads \cup {NoHead}, optOut \in BOOLEAN :
          /\ caller = "shell" => expected = NoHead
          /\ job' = [caller |-> caller, expected |-> expected,
                     optOut |-> optOut]
    /\ \/ UNCHANGED files
       \/ receipt' = Absent /\ temporary' = Absent
    /\ pc' = IF caller = "action" THEN "inputs" ELSE "prepare"
    /\ built' = Absent
    /\ cli' = Running /\ exit' = Running
    /\ output' = NoOutput
    /\ UNCHANGED head

-----------------------------------------------------------------------------
(* action/run.sh, before the command *)

\* The script refuses: its inputs are wrong, or it meets an older receipt.
MayProceed(file) == file = Absent

CheckInputs ==
    /\ pc = "inputs"
    /\ \/ MayProceed(receipt) /\ pc' = "install" /\ UNCHANGED exit
       \/ pc' = "ended" /\ exit' = 2
    /\ UNCHANGED <<head, files, attempt, job, built, cli, output>>

\* Clone, compare the commits, build the environment; `set -e` ends the
\* script with the status of the command that failed.
Install ==
    /\ pc = "install"
    /\ \/ pc' = "prepare" /\ UNCHANGED exit
       \/ pc' = "ended" /\ exit' \in InstallStatuses
    /\ UNCHANGED <<head, files, attempt, job, built, cli, output>>

-----------------------------------------------------------------------------
(* proof-check check *)

\* The command's status is the script's exit_code, or the caller's answer.
CommandEnds(status) ==
    /\ cli' = status
    /\ IF job.caller = "action"
       THEN pc' = "report" /\ UNCHANGED exit
       ELSE pc' = "ended" /\ exit' = status

\* Arguments, policy, declaration, token, source commit: any may be refused.
Prepare ==
    /\ pc = "prepare"
    /\ \/ pc' = "collect" /\ UNCHANGED <<cli, exit>>
       \/ CommandEnds(2)
    /\ UNCHANGED <<head, files, attempt, job, built, output>>

\* collect_evidence, evaluate and build_receipt: a receipt for the head that
\* was read, ObservationUnavailable (20), or a configuration refused (2).
Collect ==
    /\ pc = "collect"
    /\ \/ \E verdict \in Verdicts :
             built' = [verdict |-> verdict, head |-> head, attempt |-> attempt]
          /\ pc' = "open"
          /\ UNCHANGED <<cli, exit>>
       \/ /\ \E status \in {2, 20} : CommandEnds(status)
          /\ UNCHANGED built
    /\ UNCHANGED <<head, files, attempt, job, output>>

\* _write_receipt's handler removes the temporary, if it can, and refuses.
WriteFails ==
    /\ temporary' \in {temporary, Absent}
    /\ CommandEnds(2)

OpenTemporary ==
    /\ pc = "open"
    /\ \/ temporary' = Torn /\ pc' = "write" /\ UNCHANGED <<cli, exit>>
       \/ WriteFails
    /\ UNCHANGED <<head, receipt, attempt, job, built, output>>

FinishTemporary ==
    /\ pc = "write"
    /\ \/ temporary' = built /\ pc' = "replace" /\ UNCHANGED <<cli, exit>>
       \/ WriteFails
    /\ UNCHANGED <<head, receipt, attempt, job, built, output>>

Replace ==
    /\ pc = "replace"
    /\ \/ /\ receipt' = temporary /\ temporary' = Absent
          /\ pc' = "print"
          /\ UNCHANGED <<cli, exit>>
       \/ WriteFails /\ UNCHANGED receipt
    /\ UNCHANGED <<head, attempt, job, built, output>>

\* EXIT_PASS also for an INDETERMINATE under indeterminate_exit: 0.
VerdictStatus(verdict) ==
    CASE verdict = "PASS" -> 0
      [] verdict = "FAIL" -> 10
      [] OTHER -> IF job.optOut THEN 0 ELSE 20

PrintVerdict ==
    /\ pc = "print"
    /\ CommandEnds(VerdictStatus(built.verdict))
    /\ UNCHANGED <<head, files, attempt, job, built, output>>

CommandSteps ==
    {"prepare", "collect", "open", "write", "replace", "print"}

\* The command dies, whatever it was doing; the files stay as they are.
Die ==
    /\ pc \in CommandSteps
    /\ \E status \in DeathStatuses : CommandEnds(status)
    /\ UNCHANGED <<head, files, attempt, job, built, output>>

-----------------------------------------------------------------------------
(* action/run.sh, after the command *)

\* A file that is no JSON document yields no verdict and no head.
RecordedVerdict(file) == IF file \in Document THEN file.verdict ELSE ""

\* The receipt's verdict, not the command's status, controls green.
MappedStatus(verdict) ==
    CASE verdict = "PASS" -> IF cli = 0 THEN 0 ELSE 2
      [] verdict = "FAIL" -> 10
      [] verdict = "INDETERMINATE" -> 20
      [] OTHER -> 2

WrongHead(file) == job.expected # NoHead /\ file.head # job.expected

Report ==
    /\ pc = "report"
    /\ exit' = IF WrongHead(receipt)
               THEN 20 ELSE MappedStatus(RecordedVerdict(receipt))
    /\ output' = [verdict |-> RecordedVerdict(receipt), exit |-> exit',
                  digest |-> receipt]
    /\ pc' = "ended"
    /\ UNCHANGED <<head, files, attempt, job, built, cli>>

\* The job is cancelled or times out, or the shell is interrupted.
Kill ==
    /\ pc \notin {"ended", "killed"}
    /\ pc' = "killed"
    /\ UNCHANGED <<head, files, attempt, job, built, cli, exit, output>>

Next ==
    \/ \E h \in Heads : Push(h)
    \/ \E caller \in Callers : Start(caller)
    \/ CheckInputs \/ Install
    \/ Prepare \/ Collect \/ OpenTemporary \/ FinishTemporary \/ Replace
    \/ PrintVerdict \/ Die
    \/ Report \/ Kill

Spec == Init /\ [][Next]_vars

-----------------------------------------------------------------------------
(* Properties *)

TypeOK ==
    /\ head \in Heads
    /\ receipt \in File /\ temporary \in File
    /\ attempt \in 0 .. MaxAttempts
    /\ job \in [caller: {"none", "action", "shell"},
                expected: Heads \cup {NoHead}, optOut: BOOLEAN]
    /\ pc \in CommandSteps
                 \cup {"inputs", "install", "report", "ended", "killed"}
    /\ pc # "ended" => attempt # 0
    /\ built \in Document \cup {Absent}
    /\ cli \in Status /\ exit \in Status
    /\ output \in [verdict: Verdicts \cup {""}, exit: Status, digest: File]

\* The file at the receipt path is a whole receipt or does not exist, whenever
\* the command dies or the job is cancelled: `_write_receipt` renames.
ReceiptIsWhole == receipt # Torn

\* A green action has written, in this very attempt, a PASS for the head the
\* event named, and its command ended with 0: no opt-out of the policy, no
\* older receipt, no push after the event and no death of the command can
\* make it green.
GreenIsEarned ==
    pc = "ended" /\ job.caller = "action" /\ exit = 0 =>
        /\ receipt.verdict = "PASS" /\ receipt.attempt = attempt
        /\ cli = 0
        /\ job.expected \in {NoHead, receipt.head}

\* The verdict the action publishes is never that of an earlier attempt.
ReportIsOfThisAttempt ==
    output.verdict # "" => output.digest.attempt = attempt

\* A command that ends with 0 or 10 leaves its own receipt at the receipt
\* path, saying FAIL for 10 and, unless the policy opted out, PASS for 0,
\* whatever an earlier attempt left there.
StatusHasReceipt ==
    cli \in {0, 10} =>
        /\ receipt = built /\ receipt.attempt = attempt
        /\ cli = 10 => receipt.verdict = "FAIL"
        /\ cli = 0 => \/ receipt.verdict = "PASS"
                      \/ job.optOut /\ receipt.verdict = "INDETERMINATE"

\* README.md on the action: "Invalid policy configuration can instead stop with
\* exit 2", the status its table gives to invalid configuration.
RefusalExitsTwo ==
    pc = "ended" /\ job.caller = "action" /\ cli = 2 => exit = 2
=============================================================================
