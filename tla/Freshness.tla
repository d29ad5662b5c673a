----------------------------- MODULE Freshness -----------------------------
(***************************************************************************)
(* The review pipeline of one pull request: the runs of claude-review.yml, *)
(* which have a summary written, record it and let the bridge publish it,  *)
(* and one job of review-freshness.yml, which polls                        *)
(* tools/review_freshness/check.py and turns the check green or red.       *)
(*                                                                         *)
(* `decide` reads the pull request, the runs, the reviewer workflow and    *)
(* the reviews one after the other; each read is an action of its own, so  *)
(* pushes, runs, re-runs and changes of main fall between any two.  The    *)
(* workflow file of a head never changes, so its two reads are one, at the *)
(* moment of main's.  Pages of one listing are one read: runs are listed   *)
(* newest first and reviews are only ever added.                           *)
(*                                                                         *)
(* A run's id is its place in `runs`; a re-run keeps the id and counts     *)
(* attempts.  The bridge is what ReviewBridge is shown to implement, the   *)
(* Publication of one invocation at a time: its look at the head and, as   *)
(* one step, its listing and posting.                                      *)
(***************************************************************************)
EXTENDS Integers, Sequences, FiniteSets

CONSTANTS
    Heads,         \* head commits the branch may point to
    Blobs,         \* versions of the reviewer workflow file
    WorkflowAt,    \* WorkflowAt[h]: the version commit h holds
    Retries,       \* refused answers a job may retry, 3 in the code
    MaxStarts,     \* bound on the attempts of all reviewer runs together
    MaxComments    \* bound on the summary comments

ASSUME WorkflowAssumption == WorkflowAt \in [Heads -> Blobs]

ASSUME BoundAssumption ==
    Retries \in Nat /\ MaxStarts \in Nat /\ MaxComments \in Nat

VARIABLES
    head,          \* the commit the branch points to
    main,          \* the version of the reviewer workflow on main
    due,           \* heads of events whose reviewer run is not listed yet
    runs,          \* the reviewer runs GitHub lists, oldest first
    comments,      \* the summary comments, oldest first
    reviews,       \* the App's formal reviews, oldest first
    job,           \* the Review Freshness job
    late,          \* SECONDS has reached the deadline of the poll
    errors,        \* history: answers the job's polls were refused
    moved          \* history: what changed since the poll read it

reviewer == <<due, runs, comments, reviews>>
vars == <<head, main, reviewer, job, late, errors, moved>>

Verdicts == {"CLEAN", "REPAIR_REQUIRED"}

\* The job's shell ends without success; its variables go with it.
EndRed ==
    /\ job' = [job EXCEPT !.stage = "ended", !.exit = "red", !.waits = FALSE,
                          !.matched = 0, !.retries = 0]
    /\ moved' = {}

\* sleep 10, then the next poll.
Sleep(retries) ==
    /\ job' = [job EXCEPT !.stage = "pull", !.matched = 0, !.retries = retries]
    /\ moved' = {}

-----------------------------------------------------------------------------
(* Seeded faults: wrong versions of definitions below, used by no behaviour *)

FaultAnySummary(r) == {k \in 1 .. Len(comments) : comments[k].run = r}

FaultBest(h) ==
    LET good == {r \in 1 .. Len(runs) :
                    runs[r].head = h /\ runs[r].stage = "success"}
    IN  IF good = {} THEN 0 ELSE CHOOSE r \in good : \A q \in good : q <= r

FaultReset(reason) ==
    IF late \/ (reason # "API_ERROR" /\ ~job.waits)
    THEN EndRed ELSE Sleep(job.retries)

FaultImpatient(reason) ==
    IF reason = "API_ERROR" /\ job.retries < Retries /\ ~late
    THEN Sleep(job.retries + 1) ELSE EndRed

FaultUnlimited(reason) ==
    IF late \/ (reason # "API_ERROR" /\ ~job.waits)
    THEN EndRed
    ELSE Sleep(IF reason = "API_ERROR" THEN job.retries + 1 ELSE job.retries)

FaultAnyHead(r) ==
    /\ r \in DOMAIN runs /\ runs[r].stage = "publish"
    /\ runs' = [runs EXCEPT ![r].stage = "post"]
    /\ moved' = IF job.stage = "reviews" THEN moved \cup {"runs"} ELSE moved
    /\ UNCHANGED <<head, main, due, comments, reviews, job, late, errors>>

FaultSleepOn ==
    /\ job.stage = "pull" /\ late
    /\ Sleep(job.retries)
    /\ UNCHANGED <<head, main, reviewer, late, errors>>

-----------------------------------------------------------------------------
(* Documents *)

Outcomes == {"success", "failure", "cancelled"}

Unfinished == {"review", "publish", "post", "upload"}

ReviewerRun == [head: Heads, attempt: Nat \ {0},
                stage: Unfinished \cup Outcomes]

Comment == [run: Nat, attempt: Nat, verdict: Verdicts]

Review == [head: Heads, run: Nat, source: Nat, verdict: Verdicts]

Reads == {"pull", "runs", "blobs", "reviews"}

Job == [stage: Reads \cup {"idle", "resolve", "ended"}, waits: BOOLEAN,
        head: Heads, matched: Nat, retries: 0 .. Retries,
        exit: {"none", "green", "red"}]

\* Summaries the recorder counts: claude[bot]'s, created after this attempt
\* started, whose marker names this head and run.
SummariesOf(r) ==
    {k \in 1 .. Len(comments) :
        comments[k].run = r /\ comments[k].attempt = runs[r].attempt}

\* Reviews `_review_verdict` takes: the App's, of this head, naming this run.
ReviewsOf(r, h) ==
    {k \in 1 .. Len(reviews) : reviews[k].run = r /\ reviews[k].head = h}

\* The newest listed run of a head (`_run_key`), 0 when there is none.
Latest(h) ==
    LET matching == {r \in 1 .. Len(runs) : runs[r].head = h}
    IN  IF matching = {} THEN 0
        ELSE CHOOSE r \in matching : \A q \in matching : q <= r

\* Attempts that have begun or will.
Starts ==
    Len(due) + Cardinality({a \in (1 .. Len(runs)) \X (1 .. MaxStarts) :
                               a[2] <= runs[a[1]].attempt})

Init ==
    /\ head \in Heads
    /\ main \in Blobs
    /\ due = <<>>
    /\ runs = <<>>
    /\ comments = <<>>
    /\ reviews = <<>>
    /\ job = [stage |-> "idle", waits |-> FALSE, head |-> head, matched |-> 0,
              retries |-> 0, exit |-> "none"]
    /\ late = FALSE
    /\ errors = 0
    /\ moved = {}

-----------------------------------------------------------------------------
(* Events of the pull request.  Each starts a freshness job; the model      *)
(* follows one of them, whichever it is.                                    *)

\* Something changes that the poll under way has read already.
ReadBefore ==
    [stage \in Reads \cup {"idle", "resolve", "ended"} |->
        CASE stage = "runs" -> {"head"}
          [] stage = "blobs" -> {"head", "runs"}
          [] stage = "reviews" \/ job.exit = "green" -> {"head", "runs", "main"}
          [] OTHER -> {}]

Note(what) ==
    moved' = IF what \in ReadBefore[job.stage] THEN moved \cup {what} ELSE moved

JobOf(waits) ==
    \/ UNCHANGED job
    \/ /\ job.stage = "idle"
       /\ job' = [job EXCEPT !.stage = "resolve", !.waits = waits]

\* opened or ready_for_review: the reviewer is started too, and the job waits
\* for it.
MarkReady ==
    /\ Starts < MaxStarts
    /\ due' = Append(due, head)
    /\ JobOf(TRUE)
    /\ UNCHANGED <<head, main, runs, comments, reviews, late, errors, moved>>

\* synchronize: nobody starts the reviewer.
Push(h) ==
    /\ h # head
    /\ head' = h
    /\ Note("head")
    /\ JobOf(FALSE)
    /\ UNCHANGED <<main, reviewer, late, errors>>

\* Another pull request that changes the reviewer workflow is merged.
UpdateMain(b) ==
    /\ b # main
    /\ main' = b
    /\ Note("main")
    /\ UNCHANGED <<head, reviewer, job, late, errors>>

-----------------------------------------------------------------------------
(* The reviewer: claude-review.yml *)

\* cancel-in-progress: whatever ran before is stopped, wherever it is.
Cancelled(list) ==
    [q \in DOMAIN list |->
        IF list[q].stage \in Unfinished
        THEN [list[q] EXCEPT !.stage = "cancelled"] ELSE list[q]]

StageOf(r) == IF r \in DOMAIN runs THEN runs[r].stage ELSE "unlisted"

StartRun ==
    /\ due # <<>>
    /\ due' = Tail(due)
    /\ runs' = Append(Cancelled(runs),
                      [head |-> Head(due), attempt |-> 1, stage |-> "review"])
    /\ Note("runs")
    /\ UNCHANGED <<head, main, comments, reviews, job, late, errors>>

\* "Re-run jobs" on GitHub: the same id, a new attempt.
Rerun(r) ==
    /\ StageOf(r) \in Outcomes
    /\ Starts < MaxStarts
    /\ runs' = [Cancelled(runs) EXCEPT ![r].stage = "review",
                                       ![r].attempt = @ + 1]
    /\ Note("runs")
    /\ UNCHANGED <<head, main, due, comments, reviews, job, late, errors>>

Proceed(r, stage) ==
    /\ runs' = [runs EXCEPT ![r].stage = stage]
    /\ Note("runs")

WriteSummary(r, verdict) ==
    /\ StageOf(r) = "review"
    /\ Len(comments) < MaxComments
    /\ comments' = Append(comments, [run |-> r, attempt |-> runs[r].attempt,
                                     verdict |-> verdict])
    /\ UNCHANGED <<head, main, due, runs, reviews, job, late, errors, moved>>

\* The review step is over.  "Record review from GitHub and require a summary"
\* lets the run go on only if that step ended well and left one summary.
Record(r) ==
    /\ StageOf(r) = "review"
    /\ \/ Cardinality(SummariesOf(r)) = 1 /\ Proceed(r, "publish")
       \/ Proceed(r, "failure")
    /\ UNCHANGED <<head, main, due, comments, reviews, job, late, errors>>

\* What a run is to the bridge: an invocation for its head, with the summary
\* that was recorded.
ReviewFrom(r, c) == [head |-> runs[r].head, run |-> r, source |-> c,
                     verdict |-> comments[c].verdict]

Reached == [unlisted |-> "idle", review |-> "idle", publish |-> "accepted",
            post |-> "cleared", upload |-> "published", success |-> "success",
            failure |-> "refused", cancelled |-> "refused"]

Bridge == INSTANCE Publication WITH
    Publishers <- 1 .. MaxStarts,
    Bodies <- Review,
    targets <- {head},
    wanted <- [r \in {q \in DOMAIN runs : SummariesOf(q) # {}} |->
                 ReviewFrom(r, CHOOSE c \in SummariesOf(r) : TRUE)],
    stage <- [r \in 1 .. MaxStarts |-> Reached[StageOf(r)]],
    disturbed <- FALSE

\* The bridge refuses a head that is no longer the pull request's.
CheckHead(r) ==
    /\ StageOf(r) = "publish"
    /\ \/ head = runs[r].head /\ Proceed(r, "post")
       \/ Proceed(r, "failure")
    /\ UNCHANGED <<head, main, due, comments, reviews, job, late, errors>>

\* It posts its review unless the run has one of this head; that one is taken
\* over only if it was written from the same summary.  By then the branch may
\* have moved.
Publish(r) ==
    /\ StageOf(r) = "post"
    /\ \/ /\ \E c \in SummariesOf(r) :
                reviews' \in Bridge!After(reviews, ReviewFrom(r, c))
          /\ Proceed(r, "upload") \/ Proceed(r, "failure")
       \/ Proceed(r, "failure") /\ UNCHANGED reviews
    /\ UNCHANGED <<head, main, due, comments, job, late, errors>>

\* The last upload; the run is completed.
Complete(r) ==
    /\ StageOf(r) = "upload"
    /\ Proceed(r, "success") \/ Proceed(r, "failure")
    /\ UNCHANGED <<head, main, due, comments, reviews, job, late, errors>>

ReviewerStep(r) ==
    \/ Rerun(r)
    \/ \E verdict \in Verdicts : WriteSummary(r, verdict)
    \/ Record(r)
    \/ CheckHead(r)
    \/ Publish(r)
    \/ Complete(r)

-----------------------------------------------------------------------------
(* The freshness job *)

\* "Resolve current pull-request head": not the head of the event.
Resolve ==
    /\ job.stage = "resolve"
    /\ \/ /\ job' = [job EXCEPT !.stage = "pull", !.head = head]
          /\ UNCHANGED moved
       \/ EndRed
    /\ UNCHANGED <<head, main, reviewer, late, errors>>

\* `decide` has not answered FRESH: what the shell makes of the reason.
GiveUpOrSleep(reason) ==
    IF \/ reason \in {"RUN_NOT_SUCCESS", "REVIEWER_WORKFLOW_MODIFIED"}
       \/ late
       \/ reason = "API_ERROR" /\ job.retries >= Retries
       \/ reason # "API_ERROR" /\ ~job.waits
    THEN EndRed
    ELSE Sleep(IF reason = "API_ERROR" THEN job.retries + 1 ELSE job.retries)

Continue(stage) == job' = [job EXCEPT !.stage = stage] /\ UNCHANGED moved

\* After the sleep the deadline is looked at again; it cannot have passed
\* before the first poll.
Expire ==
    /\ job.stage = "pull" /\ late
    /\ EndRed
    /\ UNCHANGED <<head, main, reviewer, late, errors>>

\* A request is refused or its answer is malformed.
Refused ==
    /\ job.stage \in Reads
    /\ job.stage = "pull" => ~late
    /\ GiveUpOrSleep("API_ERROR")
    /\ errors' = errors + 1
    /\ UNCHANGED <<head, main, reviewer, late>>

ReadPull ==
    /\ job.stage = "pull" /\ ~late
    /\ IF head = job.head THEN Continue("runs")
                          ELSE GiveUpOrSleep("NO_RUN_FOR_HEAD")
    /\ UNCHANGED <<head, main, reviewer, late, errors>>

ReadRuns ==
    /\ job.stage = "runs"
    /\ LET r == Latest(job.head)
       IN  \/ r = 0 /\ GiveUpOrSleep("NO_RUN_FOR_HEAD")
           \/ /\ r # 0 /\ runs[r].stage \in Unfinished
              /\ GiveUpOrSleep("RUN_NOT_COMPLETED")
           \/ /\ r # 0 /\ runs[r].stage \in Outcomes \ {"success"}
              /\ GiveUpOrSleep("RUN_NOT_SUCCESS")
           \/ /\ r # 0 /\ runs[r].stage = "success"
              /\ job' = [job EXCEPT !.stage = "blobs", !.matched = r]
              /\ UNCHANGED moved
    /\ UNCHANGED <<head, main, reviewer, late, errors>>

ReadBlobs ==
    /\ job.stage = "blobs"
    /\ IF WorkflowAt[job.head] = main
       THEN Continue("reviews")
       ELSE GiveUpOrSleep("REVIEWER_WORKFLOW_MODIFIED")
    /\ UNCHANGED <<head, main, reviewer, late, errors>>

ReadReviews ==
    /\ job.stage = "reviews"
    /\ LET verdicts == ReviewsOf(job.matched, job.head)
       IN  \/ /\ Cardinality(verdicts) # 1
              /\ GiveUpOrSleep("REVIEW_EXECUTION_FAILED")
           \/ \E k \in verdicts :
                 /\ verdicts = {k}
                 /\ IF reviews[k].verdict = "REPAIR_REQUIRED"
                    THEN GiveUpOrSleep("REVIEW_REPAIR_REQUIRED")
                    ELSE /\ job' = [job EXCEPT !.stage = "ended",
                                               !.exit = "green"]
                         /\ UNCHANGED moved
    /\ UNCHANGED <<head, main, reviewer, late, errors>>

JobStep ==
    \/ Resolve \/ ReadPull \/ ReadRuns \/ ReadBlobs \/ ReadReviews
    \/ Expire \/ Refused

\* SECONDS passes the deadline: 1900 seconds after the first poll.
Tick ==
    /\ job.stage \in Reads
    /\ ~late
    /\ late' = TRUE
    /\ UNCHANGED <<head, main, reviewer, job, errors, moved>>

\* timeout-minutes of the job is past the deadline.
Kill ==
    /\ late /\ job.stage \in Reads
    /\ EndRed
    /\ UNCHANGED <<head, main, reviewer, late, errors>>

Next ==
    \/ MarkReady
    \/ \E h \in Heads : Push(h)
    \/ \E b \in Blobs : UpdateMain(b)
    \/ StartRun
    \/ \E r \in 1 .. MaxStarts : ReviewerStep(r)
    \/ JobStep
    \/ Tick
    \/ Kill

SafetySpec == Init /\ [][Next]_vars

\* The job is a shell that goes on as long as the runner does, and time passes.
\* Nobody has to push, to review or to finish a review.
Spec == SafetySpec /\ WF_vars(JobStep) /\ WF_vars(Tick)

-----------------------------------------------------------------------------
(* Properties *)

\* Type invariant: what the places of the pipeline hold.
TypeOK ==
    /\ head \in Heads
    /\ main \in Blobs
    /\ due \in Seq(Heads)
    /\ runs \in Seq(ReviewerRun)
    /\ comments \in Seq(Comment)
    /\ reviews \in Seq(Review)
    /\ job \in Job
    /\ late \in BOOLEAN
    /\ errors \in Nat
    /\ moved \in SUBSET {"head", "main", "runs"}

\* A reviewer run that is completed with success has exactly one review of its
\* head, written from the one summary of the attempt that succeeded.  So a
\* re-run is never green on what an earlier or cancelled attempt wrote or
\* published: a run that has published and then fails stays red.
SuccessIsOwnReview ==
    \A r \in 1 .. Len(runs) : runs[r].stage = "success" =>
        \E k \in 1 .. Len(reviews) :
            /\ ReviewsOf(r, runs[r].head) = {k}
            /\ SummariesOf(r) = {reviews[k].source}
            /\ comments[reviews[k].source].attempt = runs[r].attempt
            /\ reviews[k].verdict = comments[reviews[k].source].verdict

\* The job is green only on one acceptable review of the head it judged, by a
\* run that had completed with success.  What the poll has read is still so, or
\* changed after the read: the head is the branch's, the run is the newest of
\* that head, the reviewer workflow is main's - all at once if nothing moved.
GreenIsEvidence ==
    job.exit = "green" =>
        /\ job.matched \in 1 .. Len(runs)
        /\ runs[job.matched].head = job.head
        /\ \E k \in 1 .. Len(reviews) :
              /\ ReviewsOf(job.matched, job.head) = {k}
              /\ reviews[k].verdict # "REPAIR_REQUIRED"
        /\ "head" \notin moved => head = job.head
        /\ "main" \notin moved => main = WorkflowAt[job.head]
        /\ "runs" \notin moved =>
              /\ \A r \in 1 .. Len(runs) :
                    runs[r].head = job.head => r <= job.matched
              /\ runs[job.matched].stage = "success"

\* At most Retries refused answers are retried across the whole job, whatever
\* the polls between them yield; the next one is terminal.
ErrorsAreBounded ==
    /\ errors <= Retries + 1
    /\ errors = Retries + 1 => job.stage = "ended" /\ job.exit # "green"

\* All that FRESH asks for, true at once.
Evident ==
    LET r == Latest(job.head)
    IN  /\ head = job.head
        /\ main = WorkflowAt[job.head]
        /\ r # 0
        /\ runs[r].stage = "success"
        /\ \A k \in ReviewsOf(r, job.head) : reviews[k].verdict = "CLEAN"

\* What the reviewer's run does with its bridge is what Publication allows one
\* invocation: a review is posted only by a run that has found its head to be
\* the branch's and only if none of this run and head is there; nothing else
\* happens to the list, also when the run then fails.
PublishesAsPromised ==
    [][\A r \in 1 .. MaxStarts :
          CheckHead(r) \/ Publish(r) =>
              Bridge!Clear(r) \/ Bridge!Publish(r) \/ Bridge!Refuse(r)]_vars

\* Every job ends, also while the reviewer never does.
Terminates == job.stage \in Reads ~> job.stage = "ended"

\* A poll is never given up while the evidence it waits for is there and
\* stays: the job turns green unless the time or the retries run out.  A poll
\* that does not wait and has already read an older run is the exception.
GreenWhenEvident ==
    (job.stage \in Reads /\ (job.waits \/ job.stage = "pull") /\ Evident)
        ~> (job.exit = "green" \/ ~Evident \/ late \/ errors > Retries)
=============================================================================
