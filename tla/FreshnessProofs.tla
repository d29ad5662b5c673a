-------------------------- MODULE FreshnessProofs --------------------------
(***************************************************************************)
(* Proofs about Freshness, for every set of heads and workflow versions,   *)
(* any number of runs, attempts, summaries and retries.                    *)
(***************************************************************************)
EXTENDS Freshness, SequenceTheorems, FiniteSetTheorems, TLAPS

-----------------------------------------------------------------------------
(* Sets of numbers *)

\* A set of places of a list has a last one.
LEMMA LargestExists ==
    ASSUME NEW n \in Nat, NEW S \in SUBSET (1 .. n), S # {}
    PROVE  \E x \in S : \A y \in S : y <= x
<1>. DEFINE Above(x) == {i \in 1 .. n : x <= i}
            T == {U \in SUBSET (1 .. n) : \E x \in S : U = Above(x)}
            R == StrictSubsetOrdering(1 .. n)
<1>1. FiniteSubsetsOf(1 .. n) = SUBSET (1 .. n)
  <2>1. IsFiniteSet(1 .. n)  BY FS_Interval
  <2>. QED  BY <2>1, FS_FiniteSubsetsOfFinite
<1>2. IsWellFoundedOn(R, SUBSET (1 .. n))
  BY <1>1, FS_StrictSubsetOrderingWellFounded
<1>3. T \subseteq SUBSET (1 .. n) /\ T # {}
  <2>1. PICK x \in S : TRUE  OBVIOUS
  <2>2. Above(x) \in T  BY <2>1
  <2>. QED  BY <2>2
<1>4. \E U \in T : \A V \in T : <<V, U>> \notin R
  <2>. HIDE DEF T, R
  <2>. QED  BY <1>2, <1>3, WFMin
<1>5. PICK U \in T : \A V \in T : <<V, U>> \notin R
  BY <1>4
<1>6. PICK x \in S : U = Above(x)
  BY <1>5
<1>7. ASSUME NEW y \in S, ~(y <= x) PROVE FALSE
  <2>1. Above(y) \in T  OBVIOUS
  <2>2. x \in 1 .. n /\ y \in 1 .. n  OBVIOUS
  <2>3. Above(y) \subseteq Above(x)  BY <1>7, <2>2
  <2>4. x \in Above(x) /\ x \notin Above(y)  BY <1>7, <2>2
  <2>5. <<Above(y), U>> \in R
    BY <1>6, <2>3, <2>4 DEF StrictSubsetOrdering
  <2>. QED  BY <1>5, <2>1, <2>5
<1>. QED  BY <1>7

\* The newest run of a head is one of that head, and no later one is.
LEMMA LatestFacts ==
    ASSUME TypeOK, NEW h \in Heads
    PROVE  /\ Latest(h) \in 0 .. Len(runs)
           /\ Latest(h) # 0 => runs[Latest(h)].head = h
           /\ \A r \in 1 .. Len(runs) : runs[r].head = h => r <= Latest(h)
<1>. DEFINE matching == {r \in 1 .. Len(runs) : runs[r].head = h}
<1>1. Len(runs) \in Nat  BY LenProperties DEF TypeOK
<1>2. CASE matching = {}
  BY <1>1, <1>2 DEF Latest
<1>3. CASE matching # {}
  <2>1. \E x \in matching : \A y \in matching : y <= x
    BY <1>1, <1>3, LargestExists
  <2>2. Latest(h) \in matching /\ \A y \in matching : y <= Latest(h)
    BY <1>3, <2>1 DEF Latest
  <2>. QED  BY <1>1, <2>2
<1>. QED  BY <1>2, <1>3

\* A finite set with no two members is a singleton, or empty.
LEMMA SetOfOne ==
    ASSUME NEW n \in Nat, NEW S \in SUBSET (1 .. n)
    PROVE  /\ Cardinality(S) = 1 => \E k \in S : S = {k}
           /\ Cardinality(S) <= 1 => S = {} \/ \E k \in S : S = {k}
<1>1. IsFiniteSet(S)
  <2>1. IsFiniteSet(1 .. n)  BY FS_Interval
  <2>. QED  BY <2>1, FS_Subset
<1>2. Cardinality(S) \in Nat  BY <1>1, FS_CardinalityType
<1>3. Cardinality(S) = 0 => S = {}  BY <1>1, FS_EmptySet
<1>4. Cardinality(S) = 1 => \E k \in S : S = {k}
  BY <1>1, FS_Singleton
<1>. QED  BY <1>2, <1>3, <1>4

-----------------------------------------------------------------------------
(* Types *)

Stage == Unfinished \cup Outcomes

\* A list of runs of which some were given another stage.
LEMMA StagedType ==
    ASSUME NEW list \in Seq(ReviewerRun), NEW r \in 1 .. Len(list),
           NEW stage \in Stage
    PROVE  /\ [list EXCEPT ![r].stage = stage] \in Seq(ReviewerRun)
           /\ Len([list EXCEPT ![r].stage = stage]) = Len(list)
           /\ \A q \in 1 .. Len(list) :
                 [list EXCEPT ![r].stage = stage][q] =
                    IF q = r THEN [list[r] EXCEPT !.stage = stage] ELSE list[q]
<1>. DEFINE e == [list[r] EXCEPT !.stage = stage]
<1>1. list[r] \in ReviewerRun  BY ElementOfSeq
<1>2. e \in ReviewerRun  BY <1>1 DEF ReviewerRun, Stage
<1>3. [list EXCEPT ![r].stage = stage] = [list EXCEPT ![r] = e]  OBVIOUS
<1>. HIDE DEF e
<1>4. /\ [list EXCEPT ![r] = e] \in Seq(ReviewerRun)
      /\ Len([list EXCEPT ![r] = e]) = Len(list)
      /\ \A q \in 1 .. Len(list) :
            [list EXCEPT ![r] = e][q] = IF q = r THEN e ELSE list[q]
  BY <1>2, ExceptSeq
<1>. QED  BY <1>3, <1>4 DEF e

\* What cancel-in-progress does to a list of runs.
CancelledRun(run) ==
    IF run.stage \in Unfinished THEN [run EXCEPT !.stage = "cancelled"] ELSE run

LEMMA CancelledFacts ==
    ASSUME NEW list \in Seq(ReviewerRun)
    PROVE  /\ Cancelled(list) \in Seq(ReviewerRun)
           /\ Len(Cancelled(list)) = Len(list)
           /\ \A q \in 1 .. Len(list) :
                 Cancelled(list)[q] = CancelledRun(list[q])
<1>1. Len(list) \in Nat /\ DOMAIN list = 1 .. Len(list)  BY LenProperties
<1>2. Cancelled(list) = [q \in 1 .. Len(list) |-> CancelledRun(list[q])]
  BY <1>1 DEF Cancelled, CancelledRun
<1>3. ASSUME NEW q \in 1 .. Len(list)
      PROVE  CancelledRun(list[q]) \in ReviewerRun
  <2>1. list[q] \in ReviewerRun  BY ElementOfSeq
  <2>. QED  BY <2>1 DEF CancelledRun, ReviewerRun, Outcomes
<1>4. [q \in 1 .. Len(list) |-> CancelledRun(list[q])]
          \in [1 .. Len(list) -> ReviewerRun]
  BY <1>3
<1>5. Cancelled(list) \in Seq(ReviewerRun)
  BY <1>1, <1>2, <1>4, SeqDef
<1>6. DOMAIN Cancelled(list) = 1 .. Len(list)  BY <1>2
<1>7. Len(Cancelled(list)) \in Nat
      /\ DOMAIN Cancelled(list) = 1 .. Len(Cancelled(list))
  BY <1>5, LenProperties
<1>8. Len(Cancelled(list)) = Len(list)  BY <1>1, <1>6, <1>7
<1>. QED  BY <1>2, <1>5, <1>8
\* Whose stage is read is listed.
LEMMA Listed ==
    ASSUME TypeOK, NEW r, StageOf(r) # "unlisted"
    PROVE  /\ r \in 1 .. Len(runs) /\ runs[r] \in ReviewerRun
           /\ runs[r].stage = StageOf(r)
<1>1. DOMAIN runs = 1 .. Len(runs)  BY LenProperties DEF TypeOK
<1>2. r \in 1 .. Len(runs)  BY <1>1 DEF StageOf
<1>3. runs[r] \in ReviewerRun  BY <1>2, ElementOfSeq DEF TypeOK
<1>. QED  BY <1>1, <1>2, <1>3 DEF StageOf

LEMMA NoteType ==
    ASSUME TypeOK, NEW what \in {"head", "main", "runs"}, Note(what)
    PROVE  moved' \in SUBSET {"head", "main", "runs"}
BY DEF Note, TypeOK

LEMMA JobOfType ==
    ASSUME TypeOK, NEW waits \in BOOLEAN, JobOf(waits)
    PROVE  job' \in Job
BY DEF JobOf, TypeOK, Job

LEMMA EndRedType ==
    ASSUME TypeOK, EndRed
    PROVE  /\ job' \in Job /\ moved' = {}
           /\ job'.stage = "ended" /\ job'.exit = "red" /\ job'.matched = 0
<1>1. job' = [stage |-> "ended", waits |-> FALSE, head |-> job.head,
              matched |-> 0, retries |-> 0, exit |-> "red"]
  BY DEF EndRed, TypeOK, Job
<1>2. job.head \in Heads /\ 0 \in 0 .. Retries
  BY BoundAssumption DEF TypeOK, Job
<1>3. moved' = {}  BY DEF EndRed
<1>4. job' \in Job  BY <1>1, <1>2 DEF Job
<1>5. job'.stage = "ended" /\ job'.exit = "red" /\ job'.matched = 0
  BY <1>1
<1>. QED  BY <1>3, <1>4, <1>5

LEMMA SleepType ==
    ASSUME TypeOK, NEW n \in 0 .. Retries, Sleep(n)
    PROVE  /\ job' \in Job /\ moved' = {}
           /\ job'.stage = "pull" /\ job'.exit = job.exit
           /\ job'.retries = n /\ job'.matched = 0
BY DEF Sleep, TypeOK, Job, Reads

\* A refused answer is slept over only below the limit, and counted.
LEMMA GiveUpCases ==
    ASSUME TypeOK, NEW reason, GiveUpOrSleep(reason)
    PROVE  \/ EndRed
           \/ /\ reason = "API_ERROR" /\ job.retries + 1 \in 0 .. Retries
              /\ Sleep(job.retries + 1)
           \/ /\ reason # "API_ERROR" /\ job.retries \in 0 .. Retries
              /\ Sleep(job.retries)
<1>1. job.retries \in 0 .. Retries /\ Retries \in Nat
  BY BoundAssumption DEF TypeOK, Job
<1>. QED  BY <1>1 DEF GiveUpOrSleep

LEMMA GiveUpType ==
    ASSUME TypeOK, NEW reason, GiveUpOrSleep(reason)
    PROVE  job' \in Job /\ moved' = {}
BY GiveUpCases, EndRedType, SleepType

\* A run is listed behind the others, which are cancelled.
LEMMA StartRunEffect ==
    ASSUME TypeOK, StartRun
    PROVE  /\ due' \in Seq(Heads) /\ runs' \in Seq(ReviewerRun)
           /\ Len(runs') = Len(runs) + 1
           /\ \A q \in 1 .. Len(runs) : runs'[q] = CancelledRun(runs[q])
           /\ runs'[Len(runs) + 1].stage = "review"
<1>. DEFINE new == [head |-> Head(due), attempt |-> 1, stage |-> "review"]
<1>1. Head(due) \in Heads /\ due' \in Seq(Heads)
  BY HeadTailProperties DEF StartRun, TypeOK
<1>2. new \in ReviewerRun
  BY <1>1 DEF ReviewerRun, Unfinished
<1>3. /\ Cancelled(runs) \in Seq(ReviewerRun)
      /\ Len(Cancelled(runs)) = Len(runs)
      /\ \A q \in 1 .. Len(runs) : Cancelled(runs)[q] = CancelledRun(runs[q])
  BY CancelledFacts DEF TypeOK
<1>4. runs' = Append(Cancelled(runs), new)  BY DEF StartRun
<1>5. new.stage = "review"  OBVIOUS
<1>. HIDE DEF new
<1>6. /\ runs' \in Seq(ReviewerRun) /\ Len(runs') = Len(runs) + 1
      /\ \A q \in 1 .. Len(runs) : runs'[q] = Cancelled(runs)[q]
      /\ runs'[Len(runs) + 1] = new
  BY <1>2, <1>3, <1>4, AppendProperties
<1>. QED  BY <1>1, <1>3, <1>5, <1>6

LEMMA RerunEffect ==
    ASSUME TypeOK, NEW r, Rerun(r)
    PROVE  /\ r \in 1 .. Len(runs)
           /\ runs' \in Seq(ReviewerRun) /\ Len(runs') = Len(runs)
           /\ \A q \in 1 .. Len(runs) :
                 q # r => runs'[q] = CancelledRun(runs[q])
           /\ runs'[r].head = runs[r].head /\ runs'[r].stage = "review"
<1>. DEFINE old == Cancelled(runs)[r]
            new == [old EXCEPT !.stage = "review", !.attempt = @ + 1]
<1>1. r \in 1 .. Len(runs) /\ runs[r] \in ReviewerRun
  BY Listed DEF Rerun, Outcomes
<1>2. /\ Cancelled(runs) \in Seq(ReviewerRun)
      /\ Len(Cancelled(runs)) = Len(runs)
      /\ \A q \in 1 .. Len(runs) : Cancelled(runs)[q] = CancelledRun(runs[q])
  BY CancelledFacts DEF TypeOK
<1>3. old \in ReviewerRun /\ old.head = runs[r].head
  BY <1>1, <1>2, ElementOfSeq DEF CancelledRun, ReviewerRun
<1>4. /\ new \in ReviewerRun /\ new.head = runs[r].head
      /\ new.stage = "review"
  <2>. HIDE DEF old
  <2>1. PICK n \in Nat \ {0} : n = old.attempt + 1
    BY <1>3 DEF ReviewerRun
  <2>2. new = [old EXCEPT !.stage = "review", !.attempt = n]
    BY <2>1
  <2>. HIDE DEF new
  <2>3. new = [head |-> old.head, attempt |-> n, stage |-> "review"]
    BY <1>3, <2>2 DEF ReviewerRun
  <2>. QED  BY <1>3, <2>1, <2>3 DEF ReviewerRun, Unfinished
<1>5. runs' = [Cancelled(runs) EXCEPT ![r] = new]
  BY DEF Rerun
<1>. HIDE DEF new
<1>6. /\ runs' \in Seq(ReviewerRun) /\ Len(runs') = Len(runs)
      /\ \A q \in 1 .. Len(runs) :
            runs'[q] = IF q = r THEN new ELSE Cancelled(runs)[q]
  BY <1>1, <1>2, <1>4, <1>5, ExceptSeq
<1>. QED  BY <1>1, <1>2, <1>4, <1>6

\* A run goes on to another stage.
LEMMA ProceedEffect ==
    ASSUME TypeOK, NEW r, StageOf(r) # "unlisted", NEW stage \in Stage,
           Proceed(r, stage)
    PROVE  /\ r \in 1 .. Len(runs)
           /\ runs' \in Seq(ReviewerRun) /\ Len(runs') = Len(runs)
           /\ \A q \in 1 .. Len(runs) : q # r => runs'[q] = runs[q]
           /\ runs'[r] = [runs[r] EXCEPT !.stage = stage]
           /\ moved' \in SUBSET {"head", "main", "runs"} /\ Note("runs")
<1>1. r \in 1 .. Len(runs) /\ runs[r] \in ReviewerRun  BY Listed
<1>2. /\ runs' \in Seq(ReviewerRun) /\ Len(runs') = Len(runs)
      /\ \A q \in 1 .. Len(runs) :
            runs'[q] = IF q = r THEN [runs[r] EXCEPT !.stage = stage]
                                ELSE runs[q]
  <2>1. runs \in Seq(ReviewerRun)  BY DEF TypeOK
  <2>2. runs' = [runs EXCEPT ![r].stage = stage]  BY DEF Proceed
  <2>. QED  BY <1>1, <2>1, <2>2, StagedType
<1>3. Note("runs") /\ moved' \in SUBSET {"head", "main", "runs"}
  BY NoteType DEF Proceed
<1>. QED  BY <1>1, <1>2, <1>3

LEMMA SummariesType ==
    ASSUME TypeOK, NEW r
    PROVE  /\ SummariesOf(r) \subseteq 1 .. Len(comments)
           /\ \A k \in SummariesOf(r) : comments[k] \in Comment
BY LenProperties, ElementOfSeq DEF SummariesOf, TypeOK

\* What the bridge writes for a run is a review of the run's head by this run.
LEMMA ReviewFromFacts ==
    ASSUME TypeOK, NEW r \in 1 .. Len(runs), NEW c \in SummariesOf(r)
    PROVE  /\ ReviewFrom(r, c) \in Review
           /\ ReviewFrom(r, c).head = runs[r].head
           /\ ReviewFrom(r, c).run = r /\ ReviewFrom(r, c).source = c
           /\ ReviewFrom(r, c).verdict = comments[c].verdict
           /\ Bridge!Like(reviews, ReviewFrom(r, c))
                 = ReviewsOf(r, runs[r].head)
<1>1. runs[r] \in ReviewerRun /\ r \in Nat
  BY LenProperties, ElementOfSeq DEF TypeOK
<1>2. c \in Nat /\ comments[c] \in Comment  BY SummariesType
<1>3. ReviewFrom(r, c) \in Review
  BY <1>1, <1>2 DEF ReviewFrom, Review, Comment, ReviewerRun
<1>. QED  BY <1>3 DEF ReviewFrom, ReviewsOf, Bridge!Like

\* A run's review is put behind the others if it has none of its head;
\* otherwise the list stays as it is, with one that has the same source.
LEMMA AfterEffect ==
    ASSUME TypeOK, NEW r \in 1 .. Len(runs), NEW c \in SummariesOf(r),
           reviews' \in Bridge!After(reviews, ReviewFrom(r, c))
    PROVE  \/ /\ ReviewsOf(r, runs[r].head) = {}
              /\ reviews' = Append(reviews, ReviewFrom(r, c))
           \/ /\ reviews' = reviews
              /\ \E k \in 1 .. Len(reviews) :
                    /\ ReviewsOf(r, runs[r].head) = {k}
                    /\ reviews[k].source = c
<1>. DEFINE body == ReviewFrom(r, c)
<1>1. /\ body.source = c
      /\ Bridge!Like(reviews, body) = ReviewsOf(r, runs[r].head)
  BY ReviewFromFacts
<1>. HIDE DEF body
<1>2. CASE Bridge!Like(reviews, body) = {}
  BY <1>1, <1>2 DEF Bridge!After, body
<1>3. CASE Bridge!Like(reviews, body) # {}
  BY <1>1, <1>3 DEF Bridge!After, body
<1>. QED  BY <1>2, <1>3

\* Publish posts at most one review, that of the run's summary.
LEMMA PublishEffect ==
    ASSUME TypeOK, NEW r, Publish(r)
    PROVE  /\ StageOf(r) = "post" /\ r \in 1 .. Len(runs)
           /\ \E stage \in {"upload", "failure"} : Proceed(r, stage)
           /\ \/ reviews' = reviews
              \/ \E c \in SummariesOf(r) :
                    /\ ReviewsOf(r, runs[r].head) = {}
                    /\ ReviewFrom(r, c) \in Review
                    /\ reviews' = Append(reviews, ReviewFrom(r, c))
                    /\ reviews' \in Seq(Review)
<1>1. StageOf(r) = "post"  BY DEF Publish
<1>2. r \in 1 .. Len(runs)  BY <1>1, Listed
<1>3. \E stage \in {"upload", "failure"} : Proceed(r, stage)  BY DEF Publish
<1>4. CASE reviews' = reviews  BY <1>1, <1>2, <1>3, <1>4
<1>5. CASE reviews' # reviews
  <2>1. PICK c \in SummariesOf(r) :
           reviews' \in Bridge!After(reviews, ReviewFrom(r, c))
    BY <1>5 DEF Publish
  <2>2. /\ ReviewsOf(r, runs[r].head) = {}
        /\ reviews' = Append(reviews, ReviewFrom(r, c))
    BY <1>2, <1>5, <2>1, AfterEffect
  <2>3. ReviewFrom(r, c) \in Review  BY <1>2, ReviewFromFacts
  <2>4. reviews' \in Seq(Review)
    BY <2>2, <2>3, AppendProperties DEF TypeOK
  <2>. QED  BY <1>1, <1>2, <1>3, <2>2, <2>3, <2>4
<1>. QED  BY <1>4, <1>5

LEMMA ContinueType ==
    ASSUME TypeOK, NEW stage \in Reads, Continue(stage)
    PROVE  /\ job' \in Job /\ moved' = moved
           /\ job'.stage = stage /\ job'.head = job.head
           /\ job'.matched = job.matched /\ job'.exit = job.exit
           /\ job'.retries = job.retries
BY DEF Continue, TypeOK, Job

\* What a job's step changes besides the job.
LEMMA JobStepType ==
    ASSUME TypeOK, JobStep \/ Kill
    PROVE  /\ job' \in Job /\ moved' \in SUBSET {"head", "main", "runs"}
           /\ UNCHANGED <<head, main, reviewer, late>>
           /\ errors' = errors \/ errors' = errors + 1
<1>. USE DEF reviewer
<1>0. moved \in SUBSET {"head", "main", "runs"} /\ job \in Job
  BY DEF TypeOK
<1>1. CASE Resolve
  <2>1. CASE EndRed
    BY <1>1, <2>1, EndRedType DEF Resolve
  <2>2. CASE ~EndRed
    <3>1. job' = [job EXCEPT !.stage = "pull", !.head = head]
          /\ moved' = moved
      BY <1>1, <2>2 DEF Resolve
    <3>2. job' \in Job  BY <3>1 DEF TypeOK, Job, Reads
    <3>. QED  BY <1>0, <1>1, <3>1, <3>2 DEF Resolve
  <2>. QED  BY <2>1, <2>2
<1>2. CASE ReadPull
  BY <1>0, <1>2, ContinueType, GiveUpType DEF ReadPull, Reads
<1>3. CASE ReadRuns
  <2>1. CASE \E reason : GiveUpOrSleep(reason)
    BY <1>3, <2>1, GiveUpType DEF ReadRuns
  <2>2. CASE ~\E reason : GiveUpOrSleep(reason)
    <3>1. job' = [job EXCEPT !.stage = "blobs", !.matched = Latest(job.head)]
          /\ moved' = moved
      BY <1>3, <2>2 DEF ReadRuns
    <3>2. Latest(job.head) \in Nat
      BY <1>0, LatestFacts, LenProperties DEF TypeOK, Job
    <3>3. job' \in Job  BY <1>0, <3>1, <3>2 DEF Job, Reads
    <3>. QED  BY <1>0, <1>3, <3>1, <3>3 DEF ReadRuns
  <2>. QED  BY <2>1, <2>2
<1>4. CASE ReadBlobs
  BY <1>0, <1>4, ContinueType, GiveUpType DEF ReadBlobs, Reads
<1>5. CASE ReadReviews
  <2>1. CASE \E reason : GiveUpOrSleep(reason)
    BY <1>5, <2>1, GiveUpType DEF ReadReviews
  <2>2. CASE ~\E reason : GiveUpOrSleep(reason)
    <3>1. job' = [job EXCEPT !.stage = "ended", !.exit = "green"]
          /\ moved' = moved
      BY <1>5, <2>2 DEF ReadReviews
    <3>2. job' \in Job  BY <1>0, <3>1 DEF Job
    <3>. QED  BY <1>0, <1>5, <3>1, <3>2 DEF ReadReviews
  <2>. QED  BY <2>1, <2>2
<1>6. CASE Expire
  BY <1>6, EndRedType DEF Expire
<1>7. CASE Refused
  BY <1>7, GiveUpType DEF Refused
<1>8. CASE Kill
  BY <1>8, EndRedType DEF Kill
<1>. QED
  BY <1>1, <1>2, <1>3, <1>4, <1>5, <1>6, <1>7, <1>8 DEF JobStep

\* What a step of a reviewer run changes.
LEMMA ReviewerStepType ==
    ASSUME TypeOK, NEW r, ReviewerStep(r)
    PROVE  /\ UNCHANGED <<head, main, due, job, late, errors>>
           /\ runs' \in Seq(ReviewerRun) /\ Len(runs') = Len(runs)
           /\ comments' \in Seq(Comment) /\ reviews' \in Seq(Review)
           /\ moved' \in SUBSET {"head", "main", "runs"}
           /\ \A q \in 1 .. Len(runs) : runs'[q].head = runs[q].head
           /\ Note("runs") \/ (runs' = runs /\ moved' = moved)
<1>0. /\ runs \in Seq(ReviewerRun) /\ comments \in Seq(Comment)
      /\ reviews \in Seq(Review) /\ moved \in SUBSET {"head", "main", "runs"}
  BY DEF TypeOK
<1>1. ASSUME NEW stage \in Stage, StageOf(r) # "unlisted", Proceed(r, stage)
      PROVE  /\ runs' \in Seq(ReviewerRun) /\ Len(runs') = Len(runs)
             /\ moved' \in SUBSET {"head", "main", "runs"}
             /\ \A q \in 1 .. Len(runs) : runs'[q].head = runs[q].head
             /\ Note("runs")
  <2>1. runs[r] \in ReviewerRun  BY <1>1, Listed
  <2>2. [runs[r] EXCEPT !.stage = stage].head = runs[r].head
    BY <2>1 DEF ReviewerRun
  <2>. QED  BY <1>1, <2>2, ProceedEffect
<1>2. CASE Rerun(r)
  <2>1. Note("runs")  BY <1>2 DEF Rerun
  <2>2. \A q \in 1 .. Len(runs) : CancelledRun(runs[q]).head = runs[q].head
    BY <1>0, ElementOfSeq DEF CancelledRun, ReviewerRun
  <2>3. \A q \in 1 .. Len(runs) : runs'[q].head = runs[q].head
    BY <1>2, <2>2, RerunEffect
  <2>. QED
    BY <1>0, <1>2, <2>1, <2>3, RerunEffect, NoteType DEF Rerun
<1>3. ASSUME NEW verdict \in Verdicts, WriteSummary(r, verdict)
      PROVE  /\ UNCHANGED <<head, main, due, runs, reviews, job, late, errors,
                            moved>>
             /\ comments' \in Seq(Comment)
  <2>1. r \in 1 .. Len(runs) /\ runs[r] \in ReviewerRun
    BY <1>3, Listed DEF WriteSummary
  <2>2. [run |-> r, attempt |-> runs[r].attempt, verdict |-> verdict]
            \in Comment
    BY <2>1 DEF Comment, ReviewerRun
  <2>. QED  BY <1>0, <1>3, <2>2, AppendProperties DEF WriteSummary
<1>4. CASE Record(r)
  BY <1>0, <1>1, <1>4 DEF Record, Stage, Unfinished, Outcomes
<1>5. CASE Publish(r)
  <2>1. PICK stage \in {"upload", "failure"} : Proceed(r, stage)
    BY <1>5, PublishEffect
  <2>2. stage \in Stage /\ StageOf(r) # "unlisted"
    BY <1>5 DEF Publish, Stage, Unfinished, Outcomes
  <2>3. reviews' \in Seq(Review)  BY <1>0, <1>5, PublishEffect
  <2>. QED  BY <1>0, <1>1, <1>5, <2>1, <2>2, <2>3 DEF Publish
<1>6. CASE Complete(r)
  BY <1>0, <1>1, <1>6 DEF Complete, Stage, Unfinished, Outcomes
<1>7. CASE CheckHead(r)
  BY <1>0, <1>1, <1>7 DEF CheckHead, Stage, Unfinished, Outcomes
<1>. QED
  BY <1>0, <1>2, <1>3, <1>4, <1>5, <1>6, <1>7 DEF ReviewerStep

LEMMA TypeInit == Init => TypeOK
<1>. SUFFICES ASSUME Init PROVE TypeOK  OBVIOUS
<1>1. \A S : <<>> \in Seq(S)  BY EmptySeq
<1>2. job \in Job  BY BoundAssumption DEF Init, Job
<1>. QED  BY <1>1, <1>2 DEF Init, TypeOK

LEMMA TypeStep == TypeOK /\ [Next]_vars => TypeOK'
<1>. SUFFICES ASSUME TypeOK, [Next]_vars PROVE TypeOK'  OBVIOUS
<1>. USE DEF reviewer
<1>1. CASE MarkReady
  <2>1. due' \in Seq(Heads)
    BY <1>1, AppendProperties DEF MarkReady, TypeOK
  <2>2. job' \in Job  BY <1>1, JobOfType DEF MarkReady
  <2>. QED  BY <1>1, <2>1, <2>2 DEF MarkReady, TypeOK
<1>2. ASSUME NEW h \in Heads, Push(h) PROVE TypeOK'
  BY <1>2, JobOfType, NoteType DEF Push, TypeOK
<1>3. ASSUME NEW b \in Blobs, UpdateMain(b) PROVE TypeOK'
  BY <1>3, NoteType DEF UpdateMain, TypeOK
<1>4. CASE StartRun
  <2>1. due' \in Seq(Heads) /\ runs' \in Seq(ReviewerRun)
    BY <1>4, StartRunEffect
  <2>. QED  BY <1>4, <2>1, NoteType DEF StartRun, TypeOK
<1>5. ASSUME NEW r, ReviewerStep(r) PROVE TypeOK'
  BY <1>5, ReviewerStepType DEF TypeOK
<1>6. CASE JobStep \/ Kill
  <2>1. errors' \in Nat  BY <1>6, JobStepType DEF TypeOK
  <2>. QED  BY <1>6, <2>1, JobStepType DEF TypeOK
<1>7. CASE Tick
  BY <1>7 DEF Tick, TypeOK
<1>8. CASE UNCHANGED vars
  BY <1>8 DEF vars, TypeOK
<1>. QED
  BY <1>1, <1>2, <1>3, <1>4, <1>5, <1>6, <1>7, <1>8 DEF Next

\* The lists of runs, summaries and reviews, the job and the history keep
\* their types, whoever pushes, re-runs, cancels or publishes.
THEOREM TypeCorrect == SafetySpec => []TypeOK
BY TypeInit, TypeStep, PTL DEF SafetySpec
-----------------------------------------------------------------------------
(* The inductive invariant *)

\* Every review was written from a summary and says what that one says.
Sourced ==
    \A k \in 1 .. Len(reviews) :
        /\ reviews[k].source \in 1 .. Len(comments)
        /\ reviews[k].verdict = comments[reviews[k].source].verdict

\* The attempt of the run has one summary.
Summarised(r) == \E c \in SummariesOf(r) : SummariesOf(r) = {c}

\* The run has one review of its head, written from its attempt's one summary.
Published(r) ==
    \E k \in 1 .. Len(reviews) :
        /\ ReviewsOf(r, runs[r].head) = {k}
        /\ SummariesOf(r) = {reviews[k].source}

\* How far a run has come.
RunsInOrder ==
    \A r \in 1 .. Len(runs) :
        /\ runs[r].stage \in {"publish", "post"} => Summarised(r)
        /\ runs[r].stage \in {"upload", "success"} => Published(r)

Green == job.exit = "green"

GreenEnded == Green => job.stage = "ended"

\* What the poll has read is still so, or was changed since.
HeadRead ==
    job.stage \in {"runs", "blobs", "reviews"} \/ Green =>
        ("head" \notin moved => head = job.head)

NewestOf(h) ==
    /\ \A r \in 1 .. Len(runs) : runs[r].head = h => r <= job.matched
    /\ runs[job.matched].stage = "success"

RunRead ==
    job.stage \in {"blobs", "reviews"} \/ Green =>
        /\ job.matched \in 1 .. Len(runs)
        /\ runs[job.matched].head = job.head
        /\ "runs" \notin moved => NewestOf(job.head)

BlobRead ==
    job.stage = "reviews" \/ Green =>
        ("main" \notin moved => main = WorkflowAt[job.head])

ReviewRead ==
    Green => \E k \in 1 .. Len(reviews) :
                /\ ReviewsOf(job.matched, job.head) = {k}
                /\ reviews[k].verdict # "REPAIR_REQUIRED"

\* Between the polls the retries used are the answers refused.
Counted ==
    /\ job.stage \in {"idle", "resolve"} => errors = 0 /\ job.retries = 0
    /\ job.stage \in Reads => errors = job.retries
    /\ job.stage = "ended" => errors <= Retries + 1
    /\ Green => errors <= Retries

IInv ==
    /\ TypeOK /\ Sourced /\ RunsInOrder
    /\ GreenEnded /\ HeadRead /\ RunRead /\ BlobRead /\ ReviewRead
    /\ Counted

LEMMA Initially == Init => IInv
<1>. SUFFICES ASSUME Init PROVE IInv  OBVIOUS
<1>1. TypeOK  BY TypeInit
<1>2. Len(runs) = 0 /\ Len(reviews) = 0  BY EmptySeq DEF Init
<1>3. job.stage = "idle" /\ job.exit = "none" /\ job.retries = 0 /\ errors = 0
  BY DEF Init
<1>. QED
  BY <1>1, <1>2, <1>3
  DEF IInv, Sourced, RunsInOrder, GreenEnded, Green, HeadRead, RunRead,
      BlobRead, ReviewRead, Counted, Reads

-----------------------------------------------------------------------------
(* Runs, summaries and reviews *)

Pipeline == Sourced /\ RunsInOrder

\* A run that is as it was keeps its summaries while none is written.
LEMMA RunKept ==
    ASSUME NEW q, runs'[q].attempt = runs[q].attempt,
           runs'[q].head = runs[q].head, UNCHANGED <<comments, reviews>>
    PROVE  /\ SummariesOf(q)' = SummariesOf(q)
           /\ Summarised(q)' <=> Summarised(q)
           /\ Published(q)' <=> Published(q)
BY DEF SummariesOf, Summarised, Published, ReviewsOf

LEMMA PipelineKept ==
    ASSUME Pipeline, UNCHANGED <<runs, comments, reviews>>
    PROVE  Pipeline'
<1>1. Sourced'  BY DEF Pipeline, Sourced
<1>2. \A q : /\ Summarised(q)' <=> Summarised(q)
             /\ Published(q)' <=> Published(q)
  BY RunKept
<1>3. RunsInOrder'
  BY <1>2 DEF Pipeline, RunsInOrder
<1>. QED  BY <1>1, <1>3 DEF Pipeline

LEMMA RestartKeeps ==
    ASSUME TypeOK, Pipeline, UNCHANGED <<comments, reviews>>,
           \A q \in 1 .. Len(runs') :
              \/ runs'[q].stage = "review"
              \/ q \in 1 .. Len(runs) /\ runs'[q] = CancelledRun(runs[q])
    PROVE  Pipeline'
<1>1. Sourced'  BY DEF Pipeline, Sourced
<1>2. RunsInOrder'
  <2>. SUFFICES ASSUME NEW q \in 1 .. Len(runs'),
                       runs'[q].stage \in {"publish", "post", "upload",
                                                       "success"}
                PROVE  /\ runs'[q].stage \in {"publish", "post"} =>
                             Summarised(q)'
                       /\ runs'[q].stage \in {"upload", "success"} =>
                             Published(q)'
    BY DEF RunsInOrder
  <2>1. q \in 1 .. Len(runs) /\ runs'[q] = CancelledRun(runs[q])
    OBVIOUS
  <2>2. runs[q] \in ReviewerRun  BY <2>1, ElementOfSeq DEF TypeOK
  <2>3. runs[q].stage \in Unfinished => runs'[q].stage = "cancelled"
    BY <2>1, <2>2 DEF CancelledRun, ReviewerRun
  <2>4. runs'[q] = runs[q]  BY <2>1, <2>3 DEF CancelledRun
  <2>5. runs[q].stage = "success"
    BY <2>3, <2>4 DEF Unfinished
  <2>6. Published(q)  BY <2>1, <2>5 DEF Pipeline, RunsInOrder
  <2>. QED  BY <2>4, <2>5, <2>6, RunKept
<1>. QED  BY <1>1, <1>2 DEF Pipeline

LEMMA StartRunKeeps == ASSUME TypeOK, Pipeline, StartRun PROVE Pipeline'
<1>1. Len(runs) \in Nat  BY LenProperties DEF TypeOK
<1>2. UNCHANGED <<comments, reviews>>  BY DEF StartRun
<1>. QED  BY <1>1, <1>2, StartRunEffect, RestartKeeps

LEMMA RerunKeeps == ASSUME TypeOK, Pipeline, NEW r, Rerun(r) PROVE Pipeline'
<1>1. UNCHANGED <<comments, reviews>>  BY DEF Rerun
<1>. QED  BY <1>1, RerunEffect, RestartKeeps

\* A run goes on to a stage it has earned, and nothing is written.
LEMMA ProceedKeeps ==
    ASSUME TypeOK, Pipeline, NEW r, NEW stage \in Stage,
           StageOf(r) # "unlisted", Proceed(r, stage),
           UNCHANGED <<comments, reviews>>,
           stage \in {"publish", "post"} => Summarised(r),
           stage \in {"upload", "success"} => Published(r)
    PROVE  Pipeline'
<1>1. Sourced'  BY DEF Pipeline, Sourced
<1>2. /\ r \in 1 .. Len(runs) /\ runs[r] \in ReviewerRun
      /\ Len(runs') = Len(runs)
      /\ \A q \in 1 .. Len(runs) : q # r => runs'[q] = runs[q]
      /\ runs'[r] = [runs[r] EXCEPT !.stage = stage]
  BY Listed, ProceedEffect
<1>3. /\ runs'[r].attempt = runs[r].attempt /\ runs'[r].head = runs[r].head
      /\ runs'[r].stage = stage
  BY <1>2 DEF ReviewerRun
<1>4. \A q \in 1 .. Len(runs) :
         /\ Summarised(q)' <=> Summarised(q)
         /\ Published(q)' <=> Published(q)
  BY <1>2, <1>3, RunKept
<1>5. RunsInOrder'
  BY <1>2, <1>3, <1>4 DEF Pipeline, RunsInOrder
<1>. QED  BY <1>1, <1>5 DEF Pipeline

LEMMA WriteSummaryKeeps ==
    ASSUME TypeOK, Pipeline, NEW r, NEW verdict \in Verdicts,
           WriteSummary(r, verdict)
    PROVE  Pipeline'
<1>. DEFINE new == [run |-> r, attempt |-> runs[r].attempt,
                    verdict |-> verdict]
<1>1. r \in 1 .. Len(runs) /\ runs[r] \in ReviewerRun
      /\ runs[r].stage = "review"
  BY Listed DEF WriteSummary
<1>2. new \in Comment /\ new.run = r  BY <1>1 DEF Comment, ReviewerRun
<1>3. runs' = runs /\ reviews' = reviews /\ comments' = Append(comments, new)
  BY DEF WriteSummary
<1>. HIDE DEF new
<1>4. /\ Len(comments) \in Nat /\ Len(comments') = Len(comments) + 1
      /\ \A k \in 1 .. Len(comments) : comments'[k] = comments[k]
      /\ comments'[Len(comments) + 1] = new
  BY <1>2, <1>3, AppendProperties, LenProperties DEF TypeOK
<1>5. Sourced'
  BY <1>3, <1>4 DEF Pipeline, Sourced
<1>6. ASSUME NEW q, q # r
      PROVE  /\ SummariesOf(q)' = SummariesOf(q)
             /\ Summarised(q)' <=> Summarised(q)
  BY <1>2, <1>3, <1>4, <1>6 DEF SummariesOf, Summarised
<1>7. ASSUME NEW q \in 1 .. Len(runs), Published(q), q # r
      PROVE  Published(q)'
  BY <1>3, <1>6, <1>7 DEF Published, ReviewsOf
<1>8. RunsInOrder'
  BY <1>1, <1>3, <1>6, <1>7 DEF Pipeline, RunsInOrder
<1>. QED  BY <1>5, <1>8 DEF Pipeline

LEMMA RecordKeeps == ASSUME TypeOK, Pipeline, NEW r, Record(r) PROVE Pipeline'
<1>1. /\ StageOf(r) # "unlisted" /\ UNCHANGED <<comments, reviews>>
  BY DEF Record
<1>2. CASE Cardinality(SummariesOf(r)) = 1 /\ Proceed(r, "publish")
  <2>1. SummariesOf(r) \subseteq 1 .. Len(comments) /\ Len(comments) \in Nat
    BY SummariesType, LenProperties DEF TypeOK
  <2>2. Summarised(r)
    BY <1>2, <2>1, SetOfOne DEF Summarised
  <2>. QED  BY <1>1, <1>2, <2>2, ProceedKeeps DEF Stage, Unfinished
<1>3. CASE Proceed(r, "failure")
  BY <1>1, <1>3, ProceedKeeps DEF Stage, Outcomes
<1>. QED  BY <1>2, <1>3 DEF Record

LEMMA CheckHeadKeeps ==
    ASSUME TypeOK, Pipeline, NEW r, CheckHead(r) PROVE Pipeline'
<1>1. /\ StageOf(r) = "publish" /\ UNCHANGED <<comments, reviews>>
  BY DEF CheckHead
<1>2. Summarised(r)  BY <1>1, Listed DEF Pipeline, RunsInOrder
<1>. QED
  BY <1>1, <1>2, ProceedKeeps DEF CheckHead, Stage, Unfinished, Outcomes

LEMMA CompleteKeeps ==
    ASSUME TypeOK, Pipeline, NEW r, Complete(r) PROVE Pipeline'
<1>1. /\ StageOf(r) = "upload" /\ UNCHANGED <<comments, reviews>>
  BY DEF Complete
<1>2. r \in 1 .. Len(runs) /\ runs[r].stage = "upload"
  BY <1>1, Listed
<1>3. Published(r)  BY <1>2 DEF Pipeline, RunsInOrder
<1>. QED
  BY <1>1, <1>3, ProceedKeeps DEF Complete, Stage, Outcomes
\* Publish leaves the run with the one review, or fails.
LEMMA PublishKeeps ==
    ASSUME TypeOK, Pipeline, NEW r, Publish(r) PROVE Pipeline'
<1>1. /\ StageOf(r) = "post" /\ comments' = comments
      /\ r \in 1 .. Len(runs) /\ runs[r] \in ReviewerRun
      /\ runs[r].stage = "post"
  <2>1. StageOf(r) = "post" /\ comments' = comments  BY DEF Publish
  <2>. QED  BY <2>1, Listed
<1>2. Summarised(r)  BY <1>1 DEF Pipeline, RunsInOrder
<1>3. CASE reviews' = reviews /\ Proceed(r, "failure")
  BY <1>1, <1>3, ProceedKeeps DEF Stage, Outcomes
<1>4. CASE ~(reviews' = reviews /\ Proceed(r, "failure"))
  <2>. DEFINE h == runs[r].head
              there == ReviewsOf(r, h)
  <2>1. PICK c \in SummariesOf(r) :
           /\ reviews' \in Bridge!After(reviews, ReviewFrom(r, c))
           /\ Proceed(r, "upload") \/ Proceed(r, "failure")
    BY <1>4 DEF Publish
  <2>2. SummariesOf(r) = {c} /\ c \in 1 .. Len(comments)
    BY <1>2, <2>1, SummariesType DEF Summarised
  <2>3. CASE there # {}
    <3>1. /\ reviews' = reviews
          /\ \E k \in 1 .. Len(reviews) :
                there = {k} /\ reviews[k].source = c
      BY <1>1, <2>1, <2>3, AfterEffect
    <3>2. Published(r)  BY <2>2, <3>1 DEF Published
    <3>. QED
      BY <1>1, <2>1, <3>1, <3>2, ProceedKeeps
      DEF Stage, Unfinished, Outcomes
  <2>4. CASE there = {}
    <3>. DEFINE new == ReviewFrom(r, c)
    <3>1. reviews' = Append(reviews, new)
      BY <1>1, <2>1, <2>4, AfterEffect
    <3>2. new \in Review  BY <1>1, ReviewFromFacts
    <3>3. /\ new.head = h /\ new.run = r /\ new.source = c
          /\ new.verdict = comments[c].verdict
      BY <1>1, ReviewFromFacts
    <3>. HIDE DEF new
    <3>4. /\ Len(reviews) \in Nat /\ Len(reviews') = Len(reviews) + 1
          /\ \A k \in 1 .. Len(reviews) : reviews'[k] = reviews[k]
          /\ reviews'[Len(reviews) + 1] = new
      BY <3>1, <3>2, AppendProperties, LenProperties DEF TypeOK
    <3>5. Sourced'
      BY <1>1, <2>2, <3>3, <3>4 DEF Pipeline, Sourced
    <3>6. PICK stage \in {"upload", "failure"} : Proceed(r, stage)
      BY <2>1
    <3>7. stage \in Stage  BY <3>6 DEF Stage, Unfinished, Outcomes
    <3>8. /\ Len(runs') = Len(runs)
          /\ \A q \in 1 .. Len(runs) : q # r => runs'[q] = runs[q]
          /\ runs'[r] = [runs[r] EXCEPT !.stage = stage]
      BY <1>1, <3>6, <3>7, ProceedEffect
    <3>9. /\ runs'[r].head = h /\ runs'[r].attempt = runs[r].attempt
          /\ runs'[r].stage = stage
      BY <1>1, <3>8 DEF ReviewerRun
    <3>10. \A q \in 1 .. Len(runs) :
              /\ SummariesOf(q)' = SummariesOf(q)
              /\ Summarised(q)' <=> Summarised(q)
      <4>1. \A q \in 1 .. Len(runs) : runs'[q].attempt = runs[q].attempt
        BY <3>8, <3>9
      <4>2. \A q \in 1 .. Len(runs) : SummariesOf(q)' = SummariesOf(q)
        BY <1>1, <4>1 DEF SummariesOf
      <4>. QED  BY <4>2 DEF Summarised
    <3>11. ASSUME NEW q \in 1 .. Len(runs), q # r, Published(q)
           PROVE  Published(q)'
      <4>1. PICK k \in 1 .. Len(reviews) :
               /\ ReviewsOf(q, runs[q].head) = {k}
               /\ SummariesOf(q) = {reviews[k].source}
        BY <3>11 DEF Published
      <4>2. ReviewsOf(q, runs[q].head)' = ReviewsOf(q, runs[q].head)
        BY <3>3, <3>4, <3>8, <3>11 DEF ReviewsOf
      <4>. QED  BY <3>4, <3>10, <4>1, <4>2 DEF Published
    <3>12. Published(r)'
      <4>1. ReviewsOf(r, runs[r].head)' = {Len(reviews) + 1}
        BY <2>4, <3>3, <3>4, <3>9 DEF ReviewsOf
      <4>2. SummariesOf(r)' = {reviews'[Len(reviews) + 1].source}
        BY <1>1, <2>2, <3>3, <3>4, <3>10
      <4>. QED  BY <3>4, <4>1, <4>2 DEF Published
    <3>13. RunsInOrder'
      BY <3>6, <3>8, <3>9, <3>10, <3>11, <3>12 DEF Pipeline, RunsInOrder
    <3>. QED  BY <3>5, <3>13 DEF Pipeline
  <2>. QED  BY <2>3, <2>4
<1>. QED  BY <1>3, <1>4

LEMMA PipelineStep ==
    ASSUME TypeOK, Pipeline, [Next]_vars PROVE Pipeline'
<1>. USE DEF reviewer
<1>1. CASE StartRun  BY <1>1, StartRunKeeps
<1>2. ASSUME NEW r, ReviewerStep(r) PROVE Pipeline'
  BY <1>2, RerunKeeps, WriteSummaryKeeps, RecordKeeps, CheckHeadKeeps,
     PublishKeeps, CompleteKeeps DEF ReviewerStep
<1>3. CASE MarkReady  BY <1>3, PipelineKept DEF MarkReady
<1>4. ASSUME NEW h, Push(h) PROVE Pipeline'
  BY <1>4, PipelineKept DEF Push
<1>5. ASSUME NEW b, UpdateMain(b) PROVE Pipeline'
  BY <1>5, PipelineKept DEF UpdateMain
<1>6. CASE JobStep \/ Kill  BY <1>6, JobStepType, PipelineKept
<1>7. CASE Tick  BY <1>7, PipelineKept DEF Tick
<1>8. CASE UNCHANGED vars  BY <1>8, PipelineKept DEF vars
<1>. QED
  BY <1>1, <1>2, <1>3, <1>4, <1>5, <1>6, <1>7, <1>8 DEF Next
-----------------------------------------------------------------------------
(* What the poll has read *)

Evidence == HeadRead /\ RunRead /\ BlobRead /\ ReviewRead

\* A change of what the poll has read is noted, and nothing noted is forgotten.
LEMMA NoteEffect ==
    ASSUME TypeOK, GreenEnded, NEW what \in {"head", "main", "runs"},
           Note(what)
    PROVE  /\ moved \subseteq moved'
           /\ job.stage \in {"runs", "blobs", "reviews"} \/ Green =>
                 (what = "head" => what \in moved')
           /\ job.stage \in {"blobs", "reviews"} \/ Green =>
                 (what = "runs" => what \in moved')
           /\ job.stage = "reviews" \/ Green =>
                 (what = "main" => what \in moved')
<1>1. job.stage \in Reads \cup {"idle", "resolve", "ended"}
  BY DEF TypeOK, Job
<1>2. moved \in SUBSET {"head", "main", "runs"}  BY DEF TypeOK
<1>3. job.stage = "runs" => ReadBefore[job.stage] = {"head"}
  BY <1>1 DEF ReadBefore, GreenEnded, Green
<1>4. job.stage = "blobs" => ReadBefore[job.stage] = {"head", "runs"}
  BY <1>1 DEF ReadBefore, GreenEnded, Green
<1>5. job.stage = "reviews" \/ Green =>
         ReadBefore[job.stage] = {"head", "runs", "main"}
  BY <1>1 DEF ReadBefore, GreenEnded, Green
<1>6. moved' = IF what \in ReadBefore[job.stage] THEN moved \cup {what}
               ELSE moved
  BY DEF Note
<1>. QED  BY <1>2, <1>3, <1>4, <1>5, <1>6

\* Nothing is claimed of a job that is not in the middle of a poll or green.
LEMMA NothingRead ==
    ASSUME job'.stage \notin {"runs", "blobs", "reviews"}, job'.exit # "green"
    PROVE  Evidence' /\ GreenEnded'
BY DEF Evidence, HeadRead, RunRead, BlobRead, ReviewRead, Green, GreenEnded

LEMMA GiveUpForgets ==
    ASSUME TypeOK, GreenEnded, job.stage # "ended", NEW reason,
           GiveUpOrSleep(reason)
    PROVE  Evidence' /\ GreenEnded'
<1>1. job.exit # "green"  BY DEF GreenEnded, Green
<1>2. job'.stage \in {"pull", "ended"} /\ job'.exit \in {"red", job.exit}
  BY GiveUpCases, EndRedType, SleepType
<1>. QED  BY <1>1, <1>2, NothingRead

\* The branch or main moves.
LEMMA BranchKeeps ==
    ASSUME TypeOK, GreenEnded, Evidence, job' = job,
           UNCHANGED <<runs, reviews>>,
           \/ Note("head") /\ main' = main
           \/ Note("main") /\ head' = head
           \/ UNCHANGED <<head, main, moved>>
    PROVE  Evidence' /\ GreenEnded'
<1>1. moved \subseteq moved'  BY NoteEffect
<1>2. HeadRead'
  BY <1>1, NoteEffect DEF Evidence, HeadRead, Green
<1>3. BlobRead'
  BY <1>1, NoteEffect DEF Evidence, BlobRead, Green
<1>4. RunRead' /\ ReviewRead' /\ GreenEnded'
  BY <1>1
  DEF Evidence, RunRead, ReviewRead, GreenEnded, Green, NewestOf, ReviewsOf
<1>. QED  BY <1>2, <1>3, <1>4 DEF Evidence

\* The reviewer goes on: another run is listed or a listed one changes.
LEMMA ReviewerKeeps ==
    ASSUME TypeOK, GreenEnded, Evidence, job' = job,
           UNCHANGED <<head, main>>,
           Note("runs") \/ (runs' = runs /\ moved' = moved),
           Len(runs') >= Len(runs), Len(runs') \in Nat,
           \A q \in 1 .. Len(runs) : runs'[q].head = runs[q].head,
           Green => /\ Len(reviews') \in Nat /\ Len(reviews') >= Len(reviews)
                    /\ \A k \in 1 .. Len(reviews) : reviews'[k] = reviews[k]
                    /\ ReviewsOf(job.matched, job.head)'
                          = ReviewsOf(job.matched, job.head)
    PROVE  Evidence' /\ GreenEnded'
<1>0. Len(runs) \in Nat /\ Len(reviews) \in Nat
  BY LenProperties DEF TypeOK
<1>1. moved \subseteq moved'  BY NoteEffect
<1>2. HeadRead' /\ BlobRead' /\ GreenEnded'
  BY <1>1 DEF Evidence, HeadRead, BlobRead, GreenEnded, Green
<1>3. RunRead'
  <2>. SUFFICES ASSUME job.stage \in {"blobs", "reviews"} \/ Green
                PROVE  /\ job.matched \in 1 .. Len(runs')
                       /\ runs'[job.matched].head = job.head
                       /\ "runs" \notin moved' => NewestOf(job.head)'
    BY DEF RunRead, Green
  <2>1. /\ job.matched \in 1 .. Len(runs)
        /\ runs[job.matched].head = job.head
        /\ "runs" \notin moved => NewestOf(job.head)
    BY DEF Evidence, RunRead
  <2>2. "runs" \notin moved' => runs' = runs /\ "runs" \notin moved
    BY <1>1, NoteEffect
  <2>. QED  BY <1>0, <2>1, <2>2 DEF NewestOf
<1>4. ReviewRead'
  BY <1>0 DEF Evidence, ReviewRead, Green
<1>. QED  BY <1>2, <1>3, <1>4 DEF Evidence

LEMMA JobOfKeeps ==
    ASSUME TypeOK, GreenEnded, Evidence, NEW waits, JobOf(waits),
           UNCHANGED <<runs, reviews>>,
           \/ Note("head") /\ main' = main
           \/ UNCHANGED <<head, main, moved>>
    PROVE  Evidence' /\ GreenEnded'
<1>1. CASE job' = job  BY <1>1, BranchKeeps
<1>2. CASE job.stage = "idle" /\ job' = [job EXCEPT !.stage = "resolve",
                                                    !.waits = waits]
  <2>1. job.exit # "green"  BY <1>2 DEF GreenEnded, Green
  <2>2. job'.stage = "resolve" /\ job'.exit = job.exit
    BY <1>2 DEF TypeOK, Job
  <2>. QED  BY <2>1, <2>2, NothingRead
<1>. QED  BY <1>1, <1>2 DEF JobOf

\* A review is posted for a run that has none of its head, so never for the
\* run a green job went by.
LEMMA ReviewerEvidence ==
    ASSUME TypeOK, GreenEnded, Evidence, NEW r, ReviewerStep(r)
    PROVE  Evidence' /\ GreenEnded'
<1>1. Len(runs) \in Nat /\ Len(reviews) \in Nat  BY LenProperties DEF TypeOK
<1>2. /\ job' = job /\ head' = head /\ main' = main
      /\ Len(runs') = Len(runs)
      /\ \A q \in 1 .. Len(runs) : runs'[q].head = runs[q].head
      /\ Note("runs") \/ (runs' = runs /\ moved' = moved)
  BY ReviewerStepType
<1>3. CASE reviews' = reviews
  <2>1. ReviewsOf(job.matched, job.head)' = ReviewsOf(job.matched, job.head)
    BY <1>2, <1>3 DEF ReviewsOf
  <2>. QED  BY <1>1, <1>2, <1>3, <2>1, ReviewerKeeps
<1>4. CASE reviews' # reviews
  <2>1. Publish(r)
    BY <1>4 DEF ReviewerStep, Rerun, WriteSummary, Record, CheckHead, Complete
  <2>2. PICK new \in Review :
           /\ ReviewsOf(r, runs[r].head) = {}
           /\ new.run = r
           /\ reviews' = Append(reviews, new)
    BY <1>4, <2>1, PublishEffect, ReviewFromFacts
  <2>3. /\ Len(reviews') = Len(reviews) + 1
        /\ \A k \in 1 .. Len(reviews) : reviews'[k] = reviews[k]
        /\ reviews'[Len(reviews) + 1] = new
    BY <2>2, AppendProperties DEF TypeOK
  <2>4. ASSUME Green PROVE job.matched # r
    BY <2>2, <2>4 DEF Evidence, RunRead, ReviewRead, Green
  <2>5. Green => ReviewsOf(job.matched, job.head)'
                    = ReviewsOf(job.matched, job.head)
    BY <1>1, <1>2, <2>2, <2>3, <2>4 DEF ReviewsOf
  <2>. QED  BY <1>1, <1>2, <2>3, <2>5, ReviewerKeeps
<1>. QED  BY <1>3, <1>4

LEMMA StartRunEvidence ==
    ASSUME TypeOK, GreenEnded, Evidence, StartRun
    PROVE  Evidence' /\ GreenEnded'
<1>1. Len(runs) \in Nat /\ Len(reviews) \in Nat  BY LenProperties DEF TypeOK
<1>2. \A q \in 1 .. Len(runs) : CancelledRun(runs[q]).head = runs[q].head
  BY ElementOfSeq DEF CancelledRun, ReviewerRun, TypeOK
<1>3. /\ Len(runs') = Len(runs) + 1
      /\ \A q \in 1 .. Len(runs) : runs'[q].head = runs[q].head
  BY <1>2, StartRunEffect
<1>4. /\ job' = job /\ head' = head /\ main' = main /\ reviews' = reviews
      /\ Note("runs")
  BY DEF StartRun
<1>5. ReviewsOf(job.matched, job.head)' = ReviewsOf(job.matched, job.head)
  BY <1>4 DEF ReviewsOf
<1>. QED  BY <1>1, <1>3, <1>4, <1>5, ReviewerKeeps

\* Each read of a poll establishes its part of the evidence.
LEMMA JobEvidence ==
    ASSUME TypeOK, GreenEnded, Evidence, JobStep \/ Kill
    PROVE  Evidence' /\ GreenEnded'
<1>0. job \in Job /\ UNCHANGED <<head, main, runs, comments, reviews>>
  BY JobStepType DEF TypeOK, reviewer
<1>1. ASSUME EndRed PROVE Evidence' /\ GreenEnded'
  BY <1>1, EndRedType, NothingRead
<1>2. ASSUME NEW reason, GiveUpOrSleep(reason), job.stage # "ended"
      PROVE  Evidence' /\ GreenEnded'
  BY <1>2, GiveUpForgets
<1>3. job.stage # "ended" => job.exit # "green"
  BY DEF GreenEnded, Green
<1>4. CASE Resolve
  <2>1. CASE EndRed  BY <1>1, <2>1
  <2>2. CASE ~EndRed
    <3>1. job' = [job EXCEPT !.stage = "pull", !.head = head]
      BY <1>4, <2>2 DEF Resolve
    <3>2. job'.stage = "pull" /\ job'.exit = job.exit
      BY <1>0, <3>1 DEF Job
    <3>. QED  BY <1>3, <1>4, <3>2, NothingRead DEF Resolve
  <2>. QED  BY <2>1, <2>2
<1>5. CASE ReadPull
  <2>1. job.stage # "ended"  BY <1>5 DEF ReadPull
  <2>2. CASE head = job.head
    <3>1. Continue("runs")  BY <1>5, <2>2 DEF ReadPull
    <3>2. job'.stage = "runs" /\ job'.head = job.head /\ job'.exit = job.exit
      BY <3>1, ContinueType DEF Reads
    <3>. QED
      BY <1>0, <1>3, <2>1, <2>2, <3>2
      DEF Evidence, HeadRead, RunRead, BlobRead, ReviewRead, Green, GreenEnded
  <2>3. CASE head # job.head
    BY <1>2, <1>5, <2>1, <2>3 DEF ReadPull
  <2>. QED  BY <2>2, <2>3
<1>6. CASE ReadRuns
  <2>1. job.stage = "runs"  BY <1>6 DEF ReadRuns
  <2>2. CASE \E reason : GiveUpOrSleep(reason)
    BY <1>2, <2>1, <2>2
  <2>3. CASE ~\E reason : GiveUpOrSleep(reason)
    <3>. DEFINE m == Latest(job.head)
    <3>1. /\ m # 0 /\ runs[m].stage = "success"
          /\ job' = [job EXCEPT !.stage = "blobs", !.matched = m]
          /\ moved' = moved
      BY <1>6, <2>3 DEF ReadRuns
    <3>2. /\ m \in 0 .. Len(runs) /\ runs[m].head = job.head
          /\ \A r \in 1 .. Len(runs) : runs[r].head = job.head => r <= m
      <4>1. job.head \in Heads  BY <1>0 DEF Job
      <4>. QED  BY <3>1, <4>1, LatestFacts
    <3>. HIDE DEF m
    <3>3. /\ job'.stage = "blobs" /\ job'.head = job.head
          /\ job'.matched = m /\ job'.exit = job.exit
      BY <1>0, <3>1 DEF Job
    <3>4. Len(runs) \in Nat  BY LenProperties DEF TypeOK
    <3>5. m \in 1 .. Len(runs)  BY <3>1, <3>2, <3>4
    <3>6. NewestOf(job.head)'
      BY <1>0, <3>1, <3>2, <3>3 DEF NewestOf
    <3>7. HeadRead'
      BY <1>0, <2>1, <3>1, <3>3 DEF Evidence, HeadRead
    <3>8. RunRead'
      BY <1>0, <3>2, <3>3, <3>5, <3>6 DEF RunRead
    <3>. QED
      BY <1>3, <2>1, <3>3, <3>7, <3>8
      DEF Evidence, BlobRead, ReviewRead, Green, GreenEnded
  <2>. QED  BY <2>2, <2>3
<1>7. CASE ReadBlobs
  <2>1. job.stage = "blobs"  BY <1>7 DEF ReadBlobs
  <2>2. CASE WorkflowAt[job.head] = main
    <3>1. Continue("reviews")  BY <1>7, <2>2 DEF ReadBlobs
    <3>2. /\ job'.stage = "reviews" /\ job'.head = job.head
          /\ job'.exit = job.exit /\ job'.matched = job.matched
          /\ moved' = moved
      BY <3>1, ContinueType DEF Reads
    <3>. QED
      BY <1>0, <1>3, <2>1, <2>2, <3>2
      DEF Evidence, HeadRead, RunRead, BlobRead, ReviewRead, Green,
          GreenEnded, NewestOf
  <2>3. CASE WorkflowAt[job.head] # main
    BY <1>2, <1>7, <2>1, <2>3 DEF ReadBlobs
  <2>. QED  BY <2>2, <2>3
<1>8. CASE ReadReviews
  <2>1. job.stage = "reviews"  BY <1>8 DEF ReadReviews
  <2>2. CASE \E reason : GiveUpOrSleep(reason)
    BY <1>2, <2>1, <2>2
  <2>3. CASE ~\E reason : GiveUpOrSleep(reason)
    <3>1. PICK k \in ReviewsOf(job.matched, job.head) :
             /\ ReviewsOf(job.matched, job.head) = {k}
             /\ reviews[k].verdict # "REPAIR_REQUIRED"
             /\ job' = [job EXCEPT !.stage = "ended", !.exit = "green"]
             /\ moved' = moved
      BY <1>8, <2>3 DEF ReadReviews
    <3>2. k \in 1 .. Len(reviews)  BY <3>1 DEF ReviewsOf
    <3>3. /\ job'.stage = "ended" /\ job'.head = job.head
          /\ job'.matched = job.matched
      BY <1>0, <3>1 DEF Job
    <3>4. ReviewsOf(job.matched, job.head)' = {k}
      BY <1>0, <3>1, <3>3 DEF ReviewsOf
    <3>5. ReviewRead'  BY <1>0, <3>1, <3>2, <3>4 DEF ReviewRead
    <3>6. HeadRead' /\ RunRead' /\ BlobRead'
      BY <1>0, <2>1, <3>1, <3>3
      DEF Evidence, HeadRead, RunRead, BlobRead, NewestOf
    <3>. QED  BY <3>3, <3>5, <3>6 DEF Evidence, GreenEnded
  <2>. QED  BY <2>2, <2>3
<1>9. CASE Expire \/ Kill  BY <1>1, <1>9 DEF Expire, Kill
<1>10. CASE Refused  BY <1>2, <1>10 DEF Refused, Reads
<1>. QED  BY <1>4, <1>5, <1>6, <1>7, <1>8, <1>9, <1>10 DEF JobStep

LEMMA EvidenceStep ==
    ASSUME TypeOK, GreenEnded, Evidence, [Next]_vars
    PROVE  Evidence' /\ GreenEnded'
<1>. USE DEF reviewer
<1>1. CASE MarkReady  BY <1>1, JobOfKeeps DEF MarkReady
<1>2. ASSUME NEW h \in Heads, Push(h) PROVE Evidence' /\ GreenEnded'
  BY <1>2, JobOfKeeps DEF Push
<1>3. ASSUME NEW b \in Blobs, UpdateMain(b) PROVE Evidence' /\ GreenEnded'
  BY <1>3, BranchKeeps DEF UpdateMain
<1>4. CASE StartRun  BY <1>4, StartRunEvidence
<1>5. ASSUME NEW r, ReviewerStep(r) PROVE Evidence' /\ GreenEnded'
  BY <1>5, ReviewerEvidence
<1>6. CASE JobStep \/ Kill  BY <1>6, JobEvidence
<1>7. CASE Tick  BY <1>7, BranchKeeps DEF Tick
<1>8. CASE UNCHANGED vars  BY <1>8, BranchKeeps DEF vars
<1>. QED
  BY <1>1, <1>2, <1>3, <1>4, <1>5, <1>6, <1>7, <1>8 DEF Next

-----------------------------------------------------------------------------
(* Refused answers *)

\* Every refused answer is retried at most once, and the retries are counted.
LEMMA CountedStep ==
    ASSUME TypeOK, GreenEnded, Counted, [Next]_vars
    PROVE  Counted'
<1>. USE DEF reviewer
<1>0. /\ job \in Job /\ errors \in Nat /\ Retries \in Nat
      /\ job.retries \in 0 .. Retries
      /\ job.stage \in Reads \cup {"idle", "resolve", "ended"}
  BY BoundAssumption DEF TypeOK, Job
<1>1. CASE job' = job /\ errors' = errors
  BY <1>1 DEF Counted, Green
<1>2. ASSUME NEW waits, JobOf(waits), errors' = errors PROVE Counted'
  <2>1. CASE job' = job  BY <1>1, <1>2, <2>1
  <2>2. CASE job' # job
    <3>1. job.stage = "idle" /\ job' = [job EXCEPT !.stage = "resolve",
                                                  !.waits = waits]
      BY <1>2, <2>2 DEF JobOf
    <3>2. /\ job'.stage = "resolve" /\ job'.retries = job.retries
          /\ job'.exit = job.exit
      BY <1>0, <3>1 DEF Job
    <3>. QED  BY <1>2, <3>1, <3>2 DEF Counted, Reads, Green
  <2>. QED  BY <2>1, <2>2
<1>3. errors <= Retries + 1 /\ (job.stage # "ended" => errors <= Retries)
  BY <1>0 DEF Counted
<1>4. ASSUME EndRed, errors' <= Retries + 1 PROVE Counted'
  <2>1. job'.stage = "ended" /\ job'.exit = "red"  BY <1>4, EndRedType
  <2>. QED  BY <1>4, <2>1 DEF Counted, Reads, Green
<1>5. ASSUME NEW n \in 0 .. Retries, Sleep(n), errors' = n,
             job.exit # "green"
      PROVE  Counted'
  <2>1. job'.stage = "pull" /\ job'.exit = job.exit /\ job'.retries = n
    BY <1>5, SleepType
  <2>. QED  BY <1>5, <2>1 DEF Counted, Reads, Green
<1>6. ASSUME NEW reason, reason # "API_ERROR", GiveUpOrSleep(reason),
             errors' = errors, job.stage \in Reads
      PROVE  Counted'
  <2>1. job.exit # "green" /\ errors = job.retries
    BY <1>6 DEF GreenEnded, Green, Reads, Counted
  <2>. QED  BY <1>0, <1>3, <1>4, <1>5, <1>6, <2>1, GiveUpCases
<1>7. ASSUME NEW stage \in Reads, job.stage \in Reads, errors' = errors,
             job'.stage = stage, job'.retries = job.retries,
             job'.exit = job.exit
      PROVE  Counted'
  BY <1>7 DEF Counted, Reads, Green, GreenEnded
<1>8. CASE Resolve
  <2>1. CASE EndRed  BY <1>3, <1>4, <1>8, <2>1 DEF Resolve
  <2>2. CASE ~EndRed
    <3>1. job' = [job EXCEPT !.stage = "pull", !.head = head]
      BY <1>8, <2>2 DEF Resolve
    <3>2. /\ job'.stage = "pull" /\ job'.exit = job.exit
          /\ job'.retries = job.retries
      BY <1>0, <3>1 DEF Job
    <3>. QED
      BY <1>8, <3>2 DEF Resolve, Counted, Reads, Green, GreenEnded
  <2>. QED  BY <2>1, <2>2
<1>9. CASE ReadPull
  <2>1. job.stage \in Reads /\ errors' = errors  BY <1>9 DEF ReadPull, Reads
  <2>2. CASE Continue("runs")
    BY <1>7, <2>1, <2>2, ContinueType DEF Reads
  <2>3. CASE ~Continue("runs")
    BY <1>6, <1>9, <2>1, <2>3 DEF ReadPull
  <2>. QED  BY <2>2, <2>3
<1>10. CASE ReadRuns
  <2>1. job.stage \in Reads /\ errors' = errors
    BY <1>10 DEF ReadRuns, Reads
  <2>2. CASE \E reason : reason # "API_ERROR" /\ GiveUpOrSleep(reason)
    BY <1>6, <2>1, <2>2
  <2>3. CASE ~\E reason : reason # "API_ERROR" /\ GiveUpOrSleep(reason)
    <3>1. job' = [job EXCEPT !.stage = "blobs", !.matched = Latest(job.head)]
      BY <1>10, <2>3 DEF ReadRuns
    <3>2. /\ job'.stage = "blobs" /\ job'.exit = job.exit
          /\ job'.retries = job.retries
      BY <1>0, <3>1 DEF Job
    <3>. QED  BY <1>7, <2>1, <3>2 DEF Reads
  <2>. QED  BY <2>2, <2>3
<1>11. CASE ReadBlobs
  <2>1. job.stage \in Reads /\ errors' = errors
    BY <1>11 DEF ReadBlobs, Reads
  <2>2. CASE Continue("reviews")
    BY <1>7, <2>1, <2>2, ContinueType DEF Reads
  <2>3. CASE ~Continue("reviews")
    BY <1>6, <1>11, <2>1, <2>3 DEF ReadBlobs
  <2>. QED  BY <2>2, <2>3
<1>12. CASE ReadReviews
  <2>1. job.stage \in Reads /\ job.stage # "ended" /\ errors' = errors
    BY <1>12 DEF ReadReviews, Reads
  <2>2. CASE \E reason : reason # "API_ERROR" /\ GiveUpOrSleep(reason)
    BY <1>6, <2>1, <2>2
  <2>3. CASE ~\E reason : reason # "API_ERROR" /\ GiveUpOrSleep(reason)
    <3>1. job' = [job EXCEPT !.stage = "ended", !.exit = "green"]
      BY <1>12, <2>3 DEF ReadReviews
    <3>2. job'.stage = "ended" /\ errors' <= Retries
      BY <1>0, <1>3, <2>1, <3>1 DEF Job
    <3>. QED  BY <1>0, <2>1, <3>2 DEF Counted, Reads
  <2>. QED  BY <2>2, <2>3
<1>13. CASE Refused
  <2>1. /\ job.stage \in Reads /\ errors' = errors + 1
        /\ GiveUpOrSleep("API_ERROR")
    BY <1>13 DEF Refused
  <2>2. job.exit # "green" /\ errors = job.retries
    BY <2>1 DEF GreenEnded, Green, Reads, Counted
  <2>. QED  BY <1>0, <1>4, <1>5, <2>1, <2>2, GiveUpCases
<1>14. CASE Expire \/ Kill
  <2>1. EndRed /\ errors' = errors  BY <1>14 DEF Expire, Kill
  <2>. QED  BY <1>3, <1>4, <2>1
<1>15. CASE MarkReady  BY <1>2, <1>15 DEF MarkReady
<1>16. ASSUME NEW h, Push(h) PROVE Counted'  BY <1>2, <1>16 DEF Push
<1>17. ASSUME NEW b, UpdateMain(b) PROVE Counted'
  BY <1>1, <1>17 DEF UpdateMain
<1>18. CASE StartRun  BY <1>1, <1>18 DEF StartRun
<1>19. ASSUME NEW r, ReviewerStep(r) PROVE Counted'
  BY <1>1, <1>19, ReviewerStepType
<1>20. CASE Tick  BY <1>1, <1>20 DEF Tick
<1>21. CASE UNCHANGED vars  BY <1>1, <1>21 DEF vars
<1>. QED
  BY <1>8, <1>9, <1>10, <1>11, <1>12, <1>13, <1>14, <1>15, <1>16, <1>17,
     <1>18, <1>19, <1>20, <1>21 DEF Next, JobStep

-----------------------------------------------------------------------------
(* The theorems *)

\* IInv holds at first (Initially) and every step keeps it.
LEMMA Inductive == IInv /\ [Next]_vars => IInv'
<1>. SUFFICES ASSUME IInv, [Next]_vars PROVE IInv'  OBVIOUS
<1>1. TypeOK /\ Pipeline /\ GreenEnded /\ Evidence /\ Counted
  BY DEF IInv, Pipeline, Evidence
<1>2. TypeOK'  BY <1>1, TypeStep
<1>3. Pipeline'  BY <1>1, PipelineStep
<1>4. Evidence' /\ GreenEnded'  BY <1>1, EvidenceStep
<1>5. Counted'  BY <1>1, CountedStep
<1>. QED
  BY <1>2, <1>3, <1>4, <1>5 DEF IInv, Pipeline, Evidence

\* A reviewer run that is completed with success has exactly one review of its
\* head, written from the one summary of the attempt that succeeded, however
\* often it was cancelled, failed or run again before.
THEOREM SuccessIsOwnReviewAlways == SafetySpec => []SuccessIsOwnReview
<1>1. IInv => SuccessIsOwnReview
  <2>. SUFFICES ASSUME IInv, NEW r \in 1 .. Len(runs),
                       runs[r].stage = "success"
                PROVE  \E k \in 1 .. Len(reviews) :
                          /\ ReviewsOf(r, runs[r].head) = {k}
                          /\ SummariesOf(r) = {reviews[k].source}
                          /\ comments[reviews[k].source].attempt
                                = runs[r].attempt
                          /\ reviews[k].verdict
                                = comments[reviews[k].source].verdict
    BY DEF SuccessIsOwnReview
  <2>1. PICK k \in 1 .. Len(reviews) :
           /\ ReviewsOf(r, runs[r].head) = {k}
           /\ SummariesOf(r) = {reviews[k].source}
    BY DEF IInv, RunsInOrder, Published
  <2>2. comments[reviews[k].source].attempt = runs[r].attempt
    BY <2>1 DEF SummariesOf
  <2>3. reviews[k].verdict = comments[reviews[k].source].verdict
    BY DEF IInv, Sourced
  <2>. QED  BY <2>1, <2>2, <2>3
<1>. QED  BY <1>1, Initially, Inductive, PTL DEF SafetySpec

\* The job is green only on one acceptable review of the head it judged, by
\* its newest run, completed with success; what has changed of the branch, the
\* runs or main changed after the poll had read it.
THEOREM GreenIsEvidenceAlways == SafetySpec => []GreenIsEvidence
<1>1. IInv => GreenIsEvidence
  BY DEF IInv, GreenIsEvidence, Green, HeadRead, RunRead, NewestOf, BlobRead,
         ReviewRead
<1>. QED  BY <1>1, Initially, Inductive, PTL DEF SafetySpec

\* No more than Retries refused answers are retried across all the polls of a
\* job; the next one ends it, and not green.
THEOREM ErrorsAreBoundedAlways == SafetySpec => []ErrorsAreBounded
<1>1. IInv => ErrorsAreBounded
  <2>1. ASSUME IInv PROVE /\ Retries \in Nat /\ errors \in Nat
                          /\ job.retries \in 0 .. Retries
                          /\ job.stage \in Reads
                                \cup {"idle", "resolve", "ended"}
    BY <2>1, BoundAssumption DEF IInv, TypeOK, Job
  <2>. QED
    BY <2>1 DEF IInv, Counted, ErrorsAreBounded, Green
<1>. QED  BY <1>1, Initially, Inductive, PTL DEF SafetySpec

-----------------------------------------------------------------------------
(* The safe part of GreenWhenEvident *)

\* The poll has read nothing but what the evidence says, or it would poll again.
OnTrack ==
    /\ job.stage \in Reads
    /\ Evident
    /\ \/ job.waits
       \/ job.stage \in {"pull", "runs"}
       \/ job.matched = Latest(job.head)

\* While the evidence stays, the job keeps on or is green, unless the time or
\* the retries run out.
StaysOnTrack ==
    OnTrack => \/ OnTrack'
               \/ job'.exit = "green"
               \/ ~Evident' \/ late' \/ errors' > Retries

\* LatestFacts, of the next state.
LEMMA LatestFactsNext ==
    ASSUME TypeOK', NEW h \in Heads
    PROVE  /\ Latest(h)' \in 0 .. Len(runs')
           /\ Latest(h)' # 0 => runs'[Latest(h)'].head = h
           /\ \A r \in 1 .. Len(runs') : runs'[r].head = h => r <= Latest(h)'
<1>. DEFINE matching == {r \in 1 .. Len(runs') : runs'[r].head = h}
<1>1. Len(runs') \in Nat  BY LenProperties DEF TypeOK
<1>2. CASE matching = {}
  BY <1>1, <1>2 DEF Latest
<1>3. CASE matching # {}
  <2>1. \E x \in matching : \A y \in matching : y <= x
    BY <1>1, <1>3, LargestExists
  <2>2. Latest(h)' \in matching /\ \A y \in matching : y <= Latest(h)'
    BY <1>3, <2>1 DEF Latest
  <2>. QED  BY <1>1, <2>2
<1>. QED  BY <1>2, <1>3

\* The newest run stays the newest while no newer one is listed.
LEMMA LatestKept ==
    ASSUME TypeOK, TypeOK', NEW h \in Heads, Len(runs') >= Len(runs),
           \A q \in 1 .. Len(runs) : runs'[q].head = runs[q].head,
           Latest(h) # 0, Latest(h)' \in 0 .. Len(runs)
    PROVE  Latest(h)' = Latest(h)
<1>1. Len(runs) \in Nat /\ Len(runs') \in Nat  BY LenProperties DEF TypeOK
<1>2. /\ Latest(h) \in 1 .. Len(runs) /\ runs[Latest(h)].head = h
      /\ \A r \in 1 .. Len(runs) : runs[r].head = h => r <= Latest(h)
  BY <1>1, LatestFacts
<1>3. /\ Latest(h)' # 0 => runs'[Latest(h)'].head = h
      /\ \A r \in 1 .. Len(runs') : runs'[r].head = h => r <= Latest(h)'
  BY LatestFactsNext
<1>4. Latest(h) <= Latest(h)'  BY <1>1, <1>2, <1>3
<1>5. Latest(h)' <= Latest(h)  BY <1>1, <1>2, <1>3, <1>4
<1>. QED  BY <1>1, <1>2, <1>4, <1>5

\* A newer run is listed unfinished.
LEMMA LatestStays ==
    ASSUME TypeOK, TypeOK', NEW h \in Heads,
           Latest(h) # 0, runs'[Latest(h)'].stage = "success",
           StartRun \/ \E r : ReviewerStep(r)
    PROVE  Latest(h)' = Latest(h)
<1>1. Len(runs) \in Nat  BY LenProperties DEF TypeOK
<1>2. Latest(h)' \in 0 .. Len(runs')  BY LatestFactsNext
<1>3. CASE StartRun
  <2>1. /\ Len(runs') = Len(runs) + 1 /\ runs'[Len(runs) + 1].stage = "review"
        /\ \A q \in 1 .. Len(runs) : runs'[q] = CancelledRun(runs[q])
    BY <1>3, StartRunEffect
  <2>2. \A q \in 1 .. Len(runs) : CancelledRun(runs[q]).head = runs[q].head
    BY ElementOfSeq DEF CancelledRun, ReviewerRun, TypeOK
  <2>3. Latest(h)' \in 0 .. Len(runs)  BY <1>1, <1>2, <2>1
  <2>4. /\ Len(runs') >= Len(runs)
        /\ \A q \in 1 .. Len(runs) : runs'[q].head = runs[q].head
    BY <1>1, <2>1, <2>2
  <2>. QED  BY <2>3, <2>4, LatestKept
<1>4. CASE \E r : ReviewerStep(r)
  <2>1. /\ Len(runs') = Len(runs)
        /\ \A q \in 1 .. Len(runs) : runs'[q].head = runs[q].head
    BY <1>4, ReviewerStepType
  <2>. QED  BY <1>1, <1>2, <2>1, LatestKept
<1>. QED  BY <1>3, <1>4

\* What is not the job's cannot take it off the track.
LEMMA OthersKeepTrack ==
    ASSUME TypeOK, TypeOK', OnTrack, Evident', job' = job,
           \/ runs' = runs
           \/ StartRun
           \/ \E r : ReviewerStep(r)
    PROVE  OnTrack'
<1>1. PICK h \in Heads : h = job.head  BY DEF TypeOK, Job
<1>2. Latest(job.head)' = Latest(h)' /\ Latest(job.head) = Latest(h)
  BY <1>1 DEF Latest
<1>3. Latest(h) # 0  BY <1>2 DEF OnTrack, Evident
<1>4. runs'[Latest(h)'].stage = "success"  BY <1>2 DEF Evident
<1>5. Latest(h)' = Latest(h)
  <2>1. CASE runs' = runs  BY <2>1 DEF Latest
  <2>2. CASE StartRun \/ \E r : ReviewerStep(r)
    BY <1>3, <1>4, <2>2, LatestStays
  <2>. QED  BY <2>1, <2>2
<1>. QED  BY <1>2, <1>5 DEF OnTrack

\* A reason to wait is waited for.
LEMMA SleepsOn ==
    ASSUME TypeOK, Evident', late' = late, ~late', NEW reason,
           GiveUpOrSleep(reason),
           reason \notin {"RUN_NOT_SUCCESS", "REVIEWER_WORKFLOW_MODIFIED"},
           IF reason = "API_ERROR" THEN job.retries < Retries ELSE job.waits
    PROVE  OnTrack'
<1>1. job.retries \in 0 .. Retries /\ Retries \in Nat
  BY BoundAssumption DEF TypeOK, Job
<1>2. PICK n \in 0 .. Retries : Sleep(n)
  BY <1>1 DEF GiveUpOrSleep
<1>3. job'.stage = "pull"  BY <1>2, SleepType
<1>. QED  BY <1>3 DEF OnTrack, Reads

LEMMA JobKeepsTrack ==
    ASSUME IInv, TypeOK', OnTrack, JobStep \/ Kill,
           Evident', ~late', errors' <= Retries
    PROVE  OnTrack' \/ job'.exit = "green"
<1>. DEFINE h == job.head
            r == Latest(h)
<1>0. /\ TypeOK /\ job \in Job /\ h \in Heads
      /\ job.stage \in Reads /\ ~late /\ late' = late
      /\ UNCHANGED <<head, main, runs, comments, reviews>>
  BY JobStepType DEF IInv, TypeOK, Job, OnTrack, reviewer
<1>1. /\ head = h /\ main = WorkflowAt[h] /\ r # 0
      /\ runs[r].stage = "success"
      /\ \A k \in ReviewsOf(r, h) : reviews[k].verdict = "CLEAN"
  BY DEF OnTrack, Evident
<1>2. ~Resolve /\ ~Expire /\ ~Kill
  BY <1>0 DEF Resolve, Expire, Kill, Reads
<1>3. CASE ReadPull
  <2>1. Continue("runs")  BY <1>1, <1>3 DEF ReadPull
  <2>2. job'.stage = "runs"  BY <1>0, <2>1, ContinueType DEF Reads
  <2>. QED  BY <2>2 DEF OnTrack, Reads
<1>4. CASE ReadRuns
  <2>1. job' = [job EXCEPT !.stage = "blobs", !.matched = r]
    BY <1>1, <1>4 DEF ReadRuns, Unfinished, Outcomes
  <2>2. job'.stage = "blobs" /\ job'.matched = r /\ job'.head = h
    BY <1>0, <2>1 DEF Job
  <2>3. Latest(h)' = r  BY <1>0, <2>2 DEF Latest
  <2>. QED  BY <2>2, <2>3 DEF OnTrack, Reads
<1>5. CASE ReadBlobs
  <2>1. job' = [job EXCEPT !.stage = "reviews"] /\ job.stage = "blobs"
    BY <1>1, <1>5 DEF ReadBlobs, Continue
  <2>2. /\ job'.stage = "reviews" /\ job'.matched = job.matched
        /\ job'.head = h /\ job'.waits = job.waits
    BY <1>0, <2>1 DEF Job
  <2>3. Latest(h)' = r  BY <1>0, <2>2 DEF Latest
  <2>4. job.waits \/ job.matched = r  BY <2>1 DEF OnTrack
  <2>. QED  BY <2>2, <2>3, <2>4 DEF OnTrack, Reads
<1>6. CASE ReadReviews
  <2>1. job.stage = "reviews"  BY <1>6 DEF ReadReviews
  <2>2. \/ \E reason \in {"REVIEW_EXECUTION_FAILED", "REVIEW_REPAIR_REQUIRED"} :
              GiveUpOrSleep(reason)
        \/ job'.exit = "green"
    BY <1>0, <1>6 DEF ReadReviews, Job
  <2>3. CASE job.waits
    BY <1>0, <2>2, <2>3, SleepsOn
  <2>4. CASE ~job.waits
    <3>1. job.matched = r  BY <2>1, <2>4 DEF OnTrack
    <3>2. r \in 1 .. Len(runs) /\ runs[r].head = h
      BY <1>0, <1>1, LatestFacts
    <3>3. PICK k \in 1 .. Len(reviews) : ReviewsOf(r, h) = {k}
      BY <1>1, <3>2 DEF IInv, RunsInOrder, Published
    <3>4. reviews[k].verdict = "CLEAN"  BY <1>1, <3>3
    <3>5. Cardinality(ReviewsOf(r, h)) = 1  BY <3>3, FS_Singleton
    <3>6. job' = [job EXCEPT !.stage = "ended", !.exit = "green"]
      BY <1>6, <3>1, <3>3, <3>4, <3>5 DEF ReadReviews
    <3>. QED  BY <1>0, <3>6 DEF Job
  <2>. QED  BY <2>3, <2>4
<1>7. CASE Refused
  <2>1. GiveUpOrSleep("API_ERROR") /\ errors' = errors + 1
    BY <1>7 DEF Refused
  <2>2. errors = job.retries  BY <1>0 DEF IInv, Counted
  <2>3. job.retries \in 0 .. Retries /\ Retries \in Nat
    BY <1>0, BoundAssumption DEF Job
  <2>4. job.retries < Retries  BY <2>1, <2>2, <2>3
  <2>. QED  BY <1>0, <2>1, <2>4, SleepsOn
<1>. QED
  BY <1>2, <1>3, <1>4, <1>5, <1>6, <1>7 DEF JobStep

\* A poll is never given up while the evidence it waits for is there and stays:
\* no step of the shell, of the reviewer or of GitHub ends the job red or leaves
\* it with an older run than the evidence, unless the time or the retries run
\* out.  GreenWhenEvident adds that the job gets to an end, by fairness.
THEOREM EvidenceIsNotGivenUp == SafetySpec => [][StaysOnTrack]_vars
<1>1. IInv /\ IInv' /\ [Next]_vars => [StaysOnTrack]_vars
  <2>. SUFFICES ASSUME IInv, IInv', [Next]_vars, OnTrack,
                       Evident', ~late', ~(errors' > Retries)
                PROVE  OnTrack' \/ job'.exit = "green"
    BY DEF StaysOnTrack
  <2>. USE DEF reviewer
  <2>1. TypeOK /\ TypeOK' /\ job.stage # "idle" /\ errors' <= Retries
    BY BoundAssumption DEF IInv, OnTrack, Reads, TypeOK
  <2>2. CASE JobStep \/ Kill  BY <2>1, <2>2, JobKeepsTrack
  <2>3. CASE job' = job /\ runs' = runs  BY <2>1, <2>3, OthersKeepTrack
  <2>4. CASE StartRun  BY <2>1, <2>4, OthersKeepTrack DEF StartRun
  <2>5. ASSUME NEW r, ReviewerStep(r) PROVE OnTrack'
    BY <2>1, <2>5, OthersKeepTrack, ReviewerStepType
  <2>6. CASE MarkReady  BY <2>1, <2>3, <2>6 DEF MarkReady, JobOf
  <2>7. ASSUME NEW h, Push(h) PROVE OnTrack' \/ job'.exit = "green"
    BY <2>1, <2>3, <2>7 DEF Push, JobOf
  <2>8. ASSUME NEW b, UpdateMain(b) PROVE OnTrack' \/ job'.exit = "green"
    BY <2>3, <2>8 DEF UpdateMain
  <2>9. CASE Tick  BY <2>3, <2>9 DEF Tick
  <2>10. CASE UNCHANGED vars  BY <2>3, <2>10 DEF vars
  <2>. QED
    BY <2>2, <2>4, <2>5, <2>6, <2>7, <2>8, <2>9, <2>10 DEF Next
<1>. QED  BY <1>1, Initially, Inductive, PTL DEF SafetySpec
-----------------------------------------------------------------------------
(* The bridge of a reviewer run keeps to Publication *)

Stages == [r \in 1 .. MaxStarts |-> Reached[StageOf(r)]]

Wanted == [r \in {q \in DOMAIN runs : SummariesOf(q) # {}} |->
             ReviewFrom(r, CHOOSE c \in SummariesOf(r) : TRUE)]

\* A run's going on is its invocation's going on, and no other's.
LEMMA BridgeMoves ==
    ASSUME TypeOK, NEW r \in 1 .. MaxStarts, StageOf(r) # "unlisted",
           NEW stage \in Stage, Proceed(r, stage), comments' = comments
    PROVE  /\ Stages' = [Stages EXCEPT ![r] = Reached[stage]]
           /\ Wanted' = Wanted
<1>1. DOMAIN runs = 1 .. Len(runs)  BY LenProperties DEF TypeOK
<1>2. /\ r \in 1 .. Len(runs) /\ runs' \in Seq(ReviewerRun)
      /\ Len(runs') = Len(runs)
      /\ \A q \in 1 .. Len(runs) : q # r => runs'[q] = runs[q]
      /\ runs'[r] = [runs[r] EXCEPT !.stage = stage]
  BY ProceedEffect
<1>3. DOMAIN runs' = 1 .. Len(runs)  BY <1>2, LenProperties
<1>4. runs[r] \in ReviewerRun  BY Listed
<1>5. /\ runs'[r].head = runs[r].head /\ runs'[r].attempt = runs[r].attempt
      /\ runs'[r].stage = stage
  BY <1>2, <1>4 DEF ReviewerRun
<1>6. \A q : StageOf(q)' = IF q = r THEN stage ELSE StageOf(q)
  BY <1>1, <1>2, <1>3, <1>5 DEF StageOf
<1>7. Stages' = [Stages EXCEPT ![r] = Reached[stage]]
  <2>1. Stages' = [q \in 1 .. MaxStarts |->
                     IF q = r THEN Reached[stage] ELSE Stages[q]]
    BY <1>6 DEF Stages, Reached
  <2>. QED  BY <2>1 DEF Stages
<1>8. \A q \in DOMAIN runs :
         /\ runs'[q].head = runs[q].head
         /\ SummariesOf(q)' = SummariesOf(q)
  <2>1. \A q \in DOMAIN runs : /\ runs'[q].head = runs[q].head
                               /\ runs'[q].attempt = runs[q].attempt
    BY <1>1, <1>2, <1>5
  <2>. QED  BY <2>1 DEF SummariesOf
<1>9. Wanted' = Wanted
  BY <1>1, <1>3, <1>8 DEF Wanted, ReviewFrom
<1>. QED  BY <1>7, <1>9

\* The review a summarised run is to publish is made from its one summary.
LEMMA WantedFrom ==
    ASSUME TypeOK, NEW r \in 1 .. Len(runs), Summarised(r),
           NEW c \in SummariesOf(r)
    PROVE  Wanted[r] = ReviewFrom(r, c)
<1>1. DOMAIN runs = 1 .. Len(runs)  BY LenProperties DEF TypeOK
<1>2. SummariesOf(r) = {c}  BY DEF Summarised
<1>3. (CHOOSE d \in SummariesOf(r) : TRUE) = c  BY <1>2
<1>. QED  BY <1>1, <1>2, <1>3 DEF Wanted

\* A run refuses only while its bridge is at work.
LEMMA FailureIsRefusal ==
    ASSUME TypeOK, NEW r \in 1 .. MaxStarts,
           StageOf(r) \in {"publish", "post"}, Proceed(r, "failure"),
           UNCHANGED <<head, comments, reviews>>
    PROVE  Bridge!Refuse(r)
<1>1. /\ Stages' = [Stages EXCEPT ![r] = Reached["failure"]]
      /\ Wanted' = Wanted
  BY BridgeMoves DEF Stage, Outcomes
<1>2. Stages[r] \in {"accepted", "cleared"} /\ Reached["failure"] = "refused"
  BY DEF Stages, Reached
<1>. QED
  BY <1>1, <1>2
  DEF Bridge!Refuse, Bridge!AtWork, Bridge!Become, Stages, Wanted

LEMMA CheckHeadPromised ==
    ASSUME TypeOK, Pipeline, NEW r \in 1 .. MaxStarts, CheckHead(r)
    PROVE  Bridge!Clear(r) \/ Bridge!Refuse(r)
<1>1. /\ StageOf(r) = "publish" /\ UNCHANGED <<head, comments, reviews>>
  BY DEF CheckHead
<1>2. CASE Proceed(r, "failure")  BY <1>1, <1>2, FailureIsRefusal
<1>3. CASE head = runs[r].head /\ Proceed(r, "post")
  <2>1. r \in 1 .. Len(runs) /\ runs[r].stage = "publish"  BY <1>1, Listed
  <2>2. Summarised(r)  BY <2>1 DEF Pipeline, RunsInOrder
  <2>3. PICK c \in SummariesOf(r) : TRUE  BY <2>2 DEF Summarised
  <2>4. Wanted[r].head = runs[r].head
    BY <2>1, <2>2, <2>3, WantedFrom, ReviewFromFacts
  <2>5. /\ Stages' = [Stages EXCEPT ![r] = Reached["post"]]
        /\ Wanted' = Wanted
    BY <1>1, <1>3, BridgeMoves DEF Stage, Unfinished
  <2>6. Stages[r] = "accepted" /\ Reached["post"] = "cleared"
    BY <1>1 DEF Stages, Reached
  <2>. QED
    BY <1>1, <1>3, <2>4, <2>5, <2>6
    DEF Bridge!Clear, Bridge!Become, Stages, Wanted
<1>. QED  BY <1>2, <1>3 DEF CheckHead

LEMMA PublishPromised ==
    ASSUME TypeOK, Pipeline, NEW r \in 1 .. MaxStarts, Publish(r)
    PROVE  Bridge!Publish(r) \/ Bridge!Refuse(r)
<1>1. /\ StageOf(r) = "post" /\ UNCHANGED <<head, comments>>
  BY DEF Publish
<1>2. CASE reviews' = reviews /\ Proceed(r, "failure")
  BY <1>1, <1>2, FailureIsRefusal
<1>3. CASE ~(reviews' = reviews /\ Proceed(r, "failure"))
  <2>1. PICK c \in SummariesOf(r) :
           reviews' \in Bridge!After(reviews, ReviewFrom(r, c))
    BY <1>3 DEF Publish
  <2>2. r \in 1 .. Len(runs) /\ runs[r].stage = "post"  BY <1>1, Listed
  <2>3. Summarised(r)  BY <2>2 DEF Pipeline, RunsInOrder
  <2>4. Wanted[r] = ReviewFrom(r, c)  BY <2>2, <2>3, WantedFrom
  <2>5. PICK stage \in {"upload", "failure"} : Proceed(r, stage)
    BY DEF Publish
  <2>6. /\ Stages' = [Stages EXCEPT ![r] = Reached[stage]]
        /\ Wanted' = Wanted
    BY <1>1, <2>5, BridgeMoves DEF Stage, Unfinished, Outcomes
  <2>7. Stages[r] = "cleared" /\ Reached[stage] \in {"published", "refused"}
    BY <1>1 DEF Stages, Reached
  <2>. QED
    BY <1>1, <2>1, <2>4, <2>6, <2>7
    DEF Bridge!Publish, Bridge!Become, Stages, Wanted
<1>. QED  BY <1>2, <1>3

\* What a reviewer run does with its bridge, for every history of pushes,
\* re-runs and cancellations, is what Publication allows one invocation: it is
\* cleared only while its head is the branch's, and its review is added only
\* where the list has none of this run and head.
THEOREM PublishesAsPromisedAlways == SafetySpec => PublishesAsPromised
<1>. DEFINE Promised ==
       \A r \in 1 .. MaxStarts : CheckHead(r) \/ Publish(r) =>
           Bridge!Clear(r) \/ Bridge!Publish(r) \/ Bridge!Refuse(r)
<1>1. IInv => Promised
  BY CheckHeadPromised, PublishPromised DEF IInv, Pipeline
<1>2. IInv /\ [Next]_vars => [Promised]_vars
  BY <1>1
<1>. HIDE DEF Promised
<1>3. SafetySpec => [][Promised]_vars
  BY <1>2, Initially, Inductive, PTL DEF SafetySpec
<1>. QED  BY <1>3 DEF PublishesAsPromised, Promised

-----------------------------------------------------------------------------
(* The safe part of Terminates *)

\* Reads a poll has before it, at most.
ReadsLeft == [pull |-> 4, runs |-> 3, blobs |-> 2, reviews |-> 1]

\* Past the deadline there is no other poll: every step of the shell ends the
\* job or brings this poll closer to its end, and nobody else sets it back.
EndsOnceLate ==
    late /\ job.stage \in Reads =>
        /\ late'
        /\ \/ job'.stage = "ended"
           \/ job' = job /\ ~JobStep
           \/ /\ job'.stage \in Reads
              /\ ReadsLeft[job'.stage] < ReadsLeft[job.stage]

LEMMA LateJobEnds ==
    ASSUME TypeOK, late, job.stage \in Reads, JobStep \/ Kill
    PROVE  \/ job'.stage = "ended"
           \/ /\ job'.stage \in Reads
              /\ ReadsLeft[job'.stage] < ReadsLeft[job.stage]
<1>1. ASSUME NEW reason, GiveUpOrSleep(reason) PROVE job'.stage = "ended"
  BY <1>1, EndRedType DEF GiveUpOrSleep
<1>2. CASE Resolve \/ ReadPull
  BY <1>2 DEF Resolve, ReadPull, Reads
<1>3. CASE ReadRuns
  <2>1. CASE \E reason : GiveUpOrSleep(reason)  BY <1>1, <2>1
  <2>2. CASE ~\E reason : GiveUpOrSleep(reason)
    <3>1. /\ job.stage = "runs"
          /\ job' = [job EXCEPT !.stage = "blobs", !.matched = Latest(job.head)]
      BY <1>3, <2>2 DEF ReadRuns
    <3>2. job'.stage = "blobs"  BY <3>1 DEF TypeOK, Job
    <3>. QED  BY <3>1, <3>2 DEF ReadsLeft, Reads
  <2>. QED  BY <2>1, <2>2
<1>4. CASE ReadBlobs
  <2>1. CASE \E reason : GiveUpOrSleep(reason)  BY <1>1, <2>1
  <2>2. CASE ~\E reason : GiveUpOrSleep(reason)
    <3>1. job.stage = "blobs" /\ Continue("reviews")
      BY <1>4, <2>2 DEF ReadBlobs
    <3>2. job'.stage = "reviews"  BY <3>1, ContinueType DEF Reads
    <3>. QED  BY <3>1, <3>2 DEF ReadsLeft, Reads
  <2>. QED  BY <2>1, <2>2
<1>5. CASE ReadReviews
  <2>1. CASE \E reason : GiveUpOrSleep(reason)  BY <1>1, <2>1
  <2>2. CASE ~\E reason : GiveUpOrSleep(reason)
    <3>1. job' = [job EXCEPT !.stage = "ended", !.exit = "green"]
      BY <1>5, <2>2 DEF ReadReviews
    <3>. QED  BY <3>1 DEF TypeOK, Job
  <2>. QED  BY <2>1, <2>2
<1>6. CASE Expire \/ Kill
  BY <1>6, EndRedType DEF Expire, Kill
<1>7. CASE Refused
  BY <1>1, <1>7 DEF Refused
<1>. QED  BY <1>2, <1>3, <1>4, <1>5, <1>6, <1>7 DEF JobStep

\* A job that is past its deadline takes at most four more steps: what the
\* shell does brings it to its end, and no push, run, re-run or merge sends it
\* back to an earlier read.  Terminates adds, by fairness, that they are taken.
THEOREM LateJobsEnd == SafetySpec => [][EndsOnceLate]_vars
<1>1. TypeOK /\ [Next]_vars => [EndsOnceLate]_vars
  <2>. SUFFICES ASSUME TypeOK, Next, late, job.stage \in Reads
                PROVE  EndsOnceLate
    BY DEF EndsOnceLate
  <2>1. job.stage # "idle" /\ late = TRUE  BY DEF Reads, TypeOK
  <2>2. CASE JobStep \/ Kill
    BY <2>1, <2>2, LateJobEnds, JobStepType DEF EndsOnceLate
  <2>3. CASE ~JobStep /\ ~Kill
    <3>1. /\ job' = job /\ late' = late
      <4>. USE DEF reviewer
      <4>1. CASE MarkReady  BY <2>1, <4>1 DEF MarkReady, JobOf
      <4>2. ASSUME NEW h, Push(h) PROVE job' = job /\ late' = late
        BY <2>1, <4>2 DEF Push, JobOf
      <4>3. ASSUME NEW b, UpdateMain(b) PROVE job' = job /\ late' = late
        BY <4>3 DEF UpdateMain
      <4>4. CASE StartRun  BY <4>4 DEF StartRun
      <4>5. ASSUME NEW r, ReviewerStep(r) PROVE job' = job /\ late' = late
        BY <4>5, ReviewerStepType
      <4>6. CASE Tick  BY <2>1, <4>6 DEF Tick
      <4>. QED
        BY <2>3, <4>1, <4>2, <4>3, <4>4, <4>5, <4>6 DEF Next
    <3>. QED  BY <2>1, <2>3, <3>1 DEF EndsOnceLate
  <2>. QED  BY <2>2, <2>3
<1>. QED  BY <1>1, TypeInit, TypeStep, PTL DEF SafetySpec
=============================================================================
