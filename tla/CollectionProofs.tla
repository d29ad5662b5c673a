-------------------------- MODULE CollectionProofs --------------------------
(***************************************************************************)
(* Proofs about Collection, for every set of heads, bases, files, policies *)
(* and invocations, every page size and every ceiling.                     *)
(***************************************************************************)
EXTENDS Collection, PagingProofs, FiniteSetTheorems

-----------------------------------------------------------------------------
(* Types *)

LEMMA PageSizeType == PageSize \in Nat \ {0} /\ Ceiling \in Nat \ {0}
BY PageAssumption, CeilingAssumption

\* changed_path_set collects every path of the comparison and no other.
LEMMA TouchedIsChanged ==
    ASSUME NEW list \in Seq(FileRecord)
    PROVE  Touched(list) = ChangedPaths(list)
<1>1. \A r \in Range(list) : /\ r.filename \in Paths
                             /\ r.previous \in Paths \cup {NoPath}
  <2>1. \A r \in Range(list) : r \in FileRecord
    BY LenProperties, ElementOfSeq DEF Range
  <2> QED
    BY <2>1 DEF FileRecord
<1> QED
  BY <1>1 DEF Touched, ChangedPaths

\* What rules/v0 emits stays inside the closed vocabularies.
LEMMA EvaluateType ==
    ASSUME NEW policy, NEW ev, ev.changed.records \in Seq(FileRecord)
    PROVE  Evaluate(policy, ev) \in Result
<1>1. Touched(ev.changed.records) \subseteq Paths
  <2>1. \A r \in Range(ev.changed.records) : r \in FileRecord
    BY LenProperties, ElementOfSeq DEF Range
  <2> QED
    BY <2>1 DEF Touched, FileRecord
<1>2. \A e : OutsidePaths(e, Touched(ev.changed.records)) \in SUBSET Paths
  BY <1>1 DEF OutsidePaths
<1>3. ProblemReasons(policy, ev) \in SUBSET Reasons
  BY DEF ProblemReasons, CoordinateReasons, DeclarationReasons, DriftReasons,
         PathReasons, Reasons
<1>4. ProblemDetails(ev) \in SUBSET Details
  BY DEF ProblemDetails, Details
<1>5. \A r \in SUBSET Reasons, d \in SUBSET Details :
         Indeterminate(r, d) \in Result
  BY DEF Indeterminate, Result
<1>6. \A o \in SUBSET Paths : Fails(o) \in Result
  BY DEF Fails, Result, Reasons, Details
<1>7. \A s : Passes(s) \in Result
  BY DEF Passes, Result, Reasons, Details
<1>8. Indeterminate({"EVIDENCE_AMBIGUOUS"}, {}) \in Result
  BY <1>5 DEF Reasons
<1> QED
  BY <1>2, <1>3, <1>4, <1>5, <1>6, <1>7, <1>8 DEF Evaluate

LEMMA InitTypeOK == Init => TypeOK
<1> SUFFICES ASSUME Init PROVE TypeOK
  OBVIOUS
<1>1. pr \in [head: Heads, base: Bases, body: Texts \cup {NoText}]
  BY TextAssumption DEF Init
<1>2. runs \in Seq(Nat) /\ superseded \in Nat /\ reviewed \in Nat
  <2>1. PICK n \in StartRuns : runs = [i \in 1 .. n |-> i]
    BY DEF Init
  <2>2. n \in Nat
    BY CountAssumption
  <2>3. [i \in 1 .. n |-> i] \in UNION {[1 .. m -> Nat] : m \in Nat}
    BY <2>2
  <2> QED
    BY <2>1, <2>3, SeqDef, CountAssumption DEF Init
<1>3. pull \in PullDocument
  BY DEF Init, NoPull, PullDocument
<1>4. /\ records \in Seq(FileRecord) /\ Len(records) <= Ceiling
      /\ checks \in Seq(Nat) /\ reviews \in Seq(Nat)
  BY EmptySeq, PageSizeType DEF Init
<1>5. result \in Result /\ atBind \in [runs: Nat, reviews: Nat]
  BY DEF Init, NoResult, Result
<1>6. request \in Requests /\ pc = "pull" /\ page = 1 /\ total = 0
  BY DEF Init
<1>7. /\ truncated \in BOOLEAN /\ blind \in BOOLEAN
      /\ errors \in SUBSET Stages
      /\ text \in Texts \cup {NoText} /\ observed \in Heads \cup {NoSha}
  BY DEF Init
<1> QED
  BY <1>1, <1>2, <1>3, <1>4, <1>5, <1>6, <1>7 DEF TypeOK

\* A new run goes before or behind the others.
LEMMA NewRun ==
    ASSUME TypeOK, NEW list, Created(list)
    PROVE  \E new \in Seq(Nat) :
              Len(new) = 1 /\ runs' \in {new \o list, list \o new}
<1>. DEFINE id == Len(runs) + superseded + 1
<1>1. runs \in Seq(Nat) /\ superseded \in Nat  BY DEF TypeOK
<1>2. id \in Nat  BY <1>1, LenProperties
<1>3. runs' \in {<<id>> \o list, list \o <<id>>}  BY DEF Created
<1>. HIDE DEF id
<1>4. <<id>> \in Seq(Nat) /\ Len(<<id>>) = 1  BY <1>2
<1>. QED  BY <1>3, <1>4

LEMMA CreatedType ==
    ASSUME TypeOK, NEW list \in Seq(Nat), Created(list)
    PROVE  /\ runs' \in Seq(Nat) /\ Len(runs') = Len(list) + 1
           /\ Len(list) \in Nat
<1>1. PICK new \in Seq(Nat) :
         Len(new) = 1 /\ runs' \in {new \o list, list \o new}
  BY NewRun
<1>2. Len(list) \in Nat  BY LenProperties
<1>3. /\ new \o list \in Seq(Nat)
      /\ Len(new \o list) = Len(new) + Len(list)
      /\ list \o new \in Seq(Nat)
      /\ Len(list \o new) = Len(list) + Len(new)
  BY ConcatProperties
<1>4. CASE runs' = new \o list  BY <1>1, <1>2, <1>3, <1>4
<1>5. CASE runs' = list \o new  BY <1>1, <1>2, <1>3, <1>5
<1>. QED  BY <1>1, <1>4, <1>5

\* The pull request's users keep it a pull request.
LEMMA EnvironmentTypeOK == TypeOK /\ Environment => TypeOK'
<1> SUFFICES ASSUME TypeOK, Environment PROVE TypeOK'
  OBVIOUS
<1>1. ASSUME NEW h \in Heads, Push(h) PROVE TypeOK'
  BY <1>1 DEF Push, TypeOK, files, listing, checkRuns
<1>2. ASSUME NEW b \in Bases, Retarget(b) PROVE TypeOK'
  BY <1>2 DEF Retarget, TypeOK, files, listing, checkRuns
<1>3. ASSUME NEW t \in Bodies, EditBody(t) PROVE TypeOK'
  BY <1>3, TextAssumption DEF EditBody, TypeOK, files, listing, history,
                                checkRuns
<1>4. ASSUME AddRun PROVE TypeOK'
  <2>1. runs' \in Seq(Nat)  BY <1>4, CreatedType DEF AddRun, TypeOK
  <2> QED
    BY <1>4, <2>1 DEF AddRun, TypeOK, files, listing, history
<1>5. ASSUME AddReview PROVE TypeOK'
  BY <1>5 DEF AddReview, TypeOK, files, listing, history, checkRuns
<1>6. ASSUME NEW k \in 1 .. Len(runs), Supersede(k) PROVE TypeOK'
  <2>1. Without(runs, k) \in Seq(Nat)  BY WithoutFacts DEF TypeOK
  <2>2. runs' \in Seq(Nat)  BY <1>6, <2>1, CreatedType DEF Supersede
  <2> QED
    BY <1>6, <2>2 DEF Supersede, TypeOK, files, listing, history
<1> QED
  BY <1>1, <1>2, <1>3, <1>4, <1>5, <1>6 DEF Environment

LEMMA ReadFilesTypeOK == TypeOK /\ ReadFiles => TypeOK'
<1> SUFFICES ASSUME TypeOK, ReadFiles PROVE TypeOK'
  OBVIOUS
<1> DEFINE items == PageOf(Files[pr.head][pr.base], page)
           taken == FirstOf(items, Ceiling - Len(records))
<1>1. items \in Seq(FileRecord)
  <2>1. Files[pr.head][pr.base] \in Seq(FileRecord) /\ page \in Nat \ {0}
    BY FilesAssumption DEF TypeOK
  <2>. QED  BY <2>1, PageOfFacts
<1>2. Ceiling - Len(records) \in Nat /\ Len(records) \in Nat /\ Ceiling \in Nat
  BY PageSizeType, LenProperties DEF TypeOK
<1>3. /\ taken \in Seq(FileRecord)
      /\ records \o taken \in Seq(FileRecord)
      /\ Len(records \o taken) <= Ceiling
      /\ Len(taken) \in Nat /\ Len(taken) <= Ceiling - Len(records)
  BY <1>1, <1>2, FirstOfFacts, ReceivedType, LenProperties
     DEF TypeOK, Smaller
<1>4. \A k \in KeptBeforeFailure(Len(taken)) :
         /\ records \o FirstOf(taken, k) \in Seq(FileRecord)
         /\ Len(records \o FirstOf(taken, k)) <= Ceiling
  <2> TAKE k \in KeptBeforeFailure(Len(taken))
  <2>1. k \in Nat /\ k <= Ceiling - Len(records)
    BY <1>2, <1>3 DEF KeptBeforeFailure
  <2> QED
    BY <1>2, <1>3, <2>1, ReceivedType, LenProperties DEF TypeOK
<1>5. records' \in Seq(FileRecord) /\ Len(records') <= Ceiling
  BY <1>3, <1>4 DEF ReadFiles
<1>6. /\ page' \in Nat \ {0} /\ pc' \in {"files", "checks"}
      /\ errors' \in SUBSET Stages
  <2>1. /\ page \in Nat \ {0} /\ pc = "files"
        /\ errors \in SUBSET Stages /\ "files" \in Stages
    BY DEF ReadFiles, TypeOK, Stages
  <2>2. \/ /\ page' = 1 /\ pc' = "checks" /\ errors' = errors
        \/ /\ page' = page + 1 /\ pc' = pc /\ errors' = errors
        \/ GiveUp("files", "checks")
    BY DEF ReadFiles
  <2> QED
    BY <2>1, <2>2 DEF GiveUp
<1>7. truncated' \in BOOLEAN
  BY DEF ReadFiles, TypeOK
<1> QED
  BY <1>5, <1>6, <1>7
     DEF ReadFiles, TypeOK, github, listing, history

\* Where a failing read leaves the control: the stage is over.
LEMMA GiveUpType ==
    ASSUME NEW stage \in Stages, NEW next, errors \in SUBSET Stages,
           GiveUp(stage, next)
    PROVE  page' = 1 /\ pc' = next /\ errors' \in SUBSET Stages
BY DEF GiveUp

LEMMA ReadChecksTypeOK == TypeOK /\ ReadChecks => TypeOK'
<1> SUFFICES ASSUME TypeOK, ReadChecks PROVE TypeOK'
  OBVIOUS
<1> DEFINE items == PageOf(runs, page)
<1>1. items \in Seq(Nat) /\ Len(items) \in Nat /\ Len(runs) \in Nat
  BY PageOfFacts, LenProperties DEF TypeOK
<1>2. "checks" \in Stages /\ page \in Nat \ {0} /\ errors \in SUBSET Stages
  BY DEF TypeOK, Stages
<1>3. checks' \in Seq(Nat)
  <2>1. checks \o items \in Seq(Nat)
    BY <1>1, ConcatProperties DEF TypeOK
  <2>2. \A k \in KeptBeforeFailure(Len(items)) :
           checks \o FirstOf(items, k) \in Seq(Nat)
    BY <1>1, ReceivedType DEF TypeOK, KeptBeforeFailure
  <2> QED
    BY <2>1, <2>2 DEF ReadChecks
<1>4. total' \in Nat
  BY <1>1 DEF ReadChecks, TypeOK
<1>5. /\ page' \in Nat \ {0} /\ pc' \in {"checks", "reviews"}
      /\ errors' \in SUBSET Stages
  <2>1. \/ /\ page' = 1 /\ pc' = "reviews"
           /\ errors' \in {errors, errors \cup {"checks"}}
        \/ page' = page + 1 /\ pc' = pc /\ errors' = errors
        \/ GiveUp("checks", "reviews")
    BY DEF ReadChecks
  <2>2. pc = "checks"
    BY DEF ReadChecks
  <2> QED
    BY <1>2, <2>1, <2>2, GiveUpType
<1> QED
  BY <1>3, <1>4, <1>5 DEF ReadChecks, TypeOK, github, files, history

LEMMA ReadReviewsTypeOK == TypeOK /\ ReadReviews => TypeOK'
<1> SUFFICES ASSUME TypeOK, ReadReviews PROVE TypeOK'
  OBVIOUS
<1> DEFINE list == [i \in 1 .. reviewed |-> i]
           items == PageOf(list, page)
<1>1. list \in Seq(Nat)
  <2>1. reviewed \in Nat
    BY DEF TypeOK
  <2>2. list \in [1 .. reviewed -> Nat]
    OBVIOUS
  <2> QED
    BY <2>1, <2>2, SeqDef
<1> HIDE DEF list
<1>2. items \in Seq(Nat) /\ Len(items) \in Nat
  BY <1>1, PageOfFacts, LenProperties DEF TypeOK
<1>3. "reviews" \in Stages /\ page \in Nat \ {0} /\ errors \in SUBSET Stages
  BY DEF TypeOK, Stages
<1>4. reviews' \in Seq(Nat)
  <2>1. reviews \o items \in Seq(Nat)
    BY <1>2, ConcatProperties DEF TypeOK
  <2>2. \A k \in KeptBeforeFailure(Len(items)) :
           reviews \o FirstOf(items, k) \in Seq(Nat)
    BY <1>2, ReceivedType DEF TypeOK, KeptBeforeFailure
  <2> QED
    BY <2>1, <2>2 DEF ReadReviews, list
<1>5. /\ page' \in Nat \ {0} /\ pc' \in {"reviews", "declaration"}
      /\ errors' \in SUBSET Stages
  <2>1. \/ /\ page' = 1 /\ pc' = "declaration"
           /\ errors' \in {errors, errors \cup {"reviews"}}
        \/ page' = page + 1 /\ pc' = pc /\ errors' = errors
        \/ GiveUp("reviews", "declaration")
    BY DEF ReadReviews
  <2>2. pc = "reviews"
    BY DEF ReadReviews
  <2> QED
    BY <1>3, <2>1, <2>2, GiveUpType
<1> QED
  BY <1>4, <1>5 DEF ReadReviews, TypeOK, github, files, listing, history

LEMMA ReadPullTypeOK == TypeOK /\ ReadPull => TypeOK'
<1> SUFFICES ASSUME TypeOK, ReadPull PROVE TypeOK'
  OBVIOUS
<1>1. Len(Files[pr.head][pr.base]) \in Nat
  BY FilesAssumption, LenProperties DEF TypeOK
<1>2. Len(runs) \in Nat
  BY LenProperties DEF TypeOK
<1>3. CASE pc' = "files"
  <2>1. PICK m \in Merges \cup {NoSha} :
           pull' = [head |-> pr.head, base |-> pr.base, merge |-> m,
                    body |-> pr.body,
                    changed_files |-> Len(Files[pr.head][pr.base])]
    BY <1>3 DEF ReadPull
  <2>2. pull' \in PullDocument /\ pull'.head \in Heads /\ pull'.base \in Bases
    BY <1>1, <2>1 DEF TypeOK, PullDocument
  <2>3. atBind' \in [runs: Nat, reviews: Nat]
    BY <1>2, <1>3 DEF ReadPull, TypeOK
  <2> QED
    BY <1>3, <2>2, <2>3 DEF ReadPull, TypeOK, github, files, listing
<1>4. CASE pc' = "unavailable"
  BY <1>4 DEF ReadPull, TypeOK, github, files, listing
<1> QED
  BY <1>3, <1>4 DEF ReadPull

LEMMA ReadDeclarationTypeOK == TypeOK /\ ReadDeclaration => TypeOK'
<1> SUFFICES ASSUME TypeOK, ReadDeclaration PROVE TypeOK'
  OBVIOUS
<1>1. pull.body \in Texts \cup {NoText} /\ pull.base \in Bases
  BY DEF TypeOK, PullDocument, ReadDeclaration
<1>2. request.pinned \in Texts \cup {NoText}
  BY RequestAssumption DEF TypeOK, Request
<1>3. Manifest[pull.base] \in Texts \cup {NoText}
  BY <1>1, TextAssumption
<1>4. text' \in Texts \cup {NoText}
  BY <1>1, <1>2, <1>3 DEF ReadDeclaration
<1>5. errors' \in SUBSET Stages
  BY DEF ReadDeclaration, TypeOK, Stages
<1> QED
  BY <1>4, <1>5 DEF ReadDeclaration, TypeOK, github, files, listing, history

LEMMA ReadBackTypeOK == TypeOK /\ ReadBack => TypeOK'
<1> SUFFICES ASSUME TypeOK, ReadBack PROVE TypeOK'
  OBVIOUS
<1>1. observed' \in Heads \cup {NoSha}
  BY DEF ReadBack, TypeOK
<1>2. errors' \in SUBSET Stages
  BY DEF ReadBack, TypeOK, Stages
<1>3. truncated' \in BOOLEAN
  BY DEF ReadBack, TypeOK
<1> QED
  BY <1>1, <1>2, <1>3 DEF ReadBack, TypeOK, github, listing, history

LEMMA JudgeTypeOK == TypeOK /\ Judge => TypeOK'
<1> SUFFICES ASSUME TypeOK, Judge PROVE TypeOK'
  OBVIOUS
<1>1. Evidence.changed.records \in Seq(FileRecord)
  BY DEF Evidence, TypeOK
<1>2. Evaluate(request.policy, Evidence) \in Result
  BY <1>1, EvaluateType
<1>3. result' \in Result /\ pc' \in {"refused", "done"}
  BY <1>2 DEF Judge, TypeOK
<1> QED
  BY <1>3 DEF Judge, TypeOK, github, files, listing, history

\* Type correctness of the command and of the pull request it reads.
THEOREM TypeCorrect == SafetySpec => []TypeOK
<1>1. Init => TypeOK
  BY InitTypeOK
<1>2. TypeOK /\ [Next]_vars => TypeOK'
  <2> SUFFICES ASSUME TypeOK, [Next]_vars PROVE TypeOK'
    OBVIOUS
  <2>1. CASE ReadPull
    BY <2>1, ReadPullTypeOK
  <2>2. CASE ReadFiles
    BY <2>2, ReadFilesTypeOK
  <2>3. CASE ReadChecks
    BY <2>3, ReadChecksTypeOK
  <2>4. CASE ReadReviews
    BY <2>4, ReadReviewsTypeOK
  <2>5. CASE ReadDeclaration
    BY <2>5, ReadDeclarationTypeOK
  <2>6. CASE ReadBack
    BY <2>6, ReadBackTypeOK
  <2>7. CASE Judge
    BY <2>7, JudgeTypeOK
  <2>8. CASE Environment
    BY <2>8, EnvironmentTypeOK
  <2>9. CASE UNCHANGED vars
    BY <2>9 DEF TypeOK, vars, github, files, listing, history
  <2> QED
    BY <2>1, <2>2, <2>3, <2>4, <2>5, <2>6, <2>7, <2>8, <2>9
       DEF Next, Command
<1> QED
  BY <1>1, <1>2, PTL DEF SafetySpec

-----------------------------------------------------------------------------
(* The inductive invariant behind DecidedIsTrue and PartialNeverDecides *)

\* What GitHub lists for the bound head and base.
Listed == Files[pull.head][pull.base]

BoundCount ==
    pc \notin {"pull", "unavailable"} => pull.changed_files = Len(Listed)

Untouched == pc = "pull" => page = 1 /\ records = <<>>

\* A change of base is the one move that makes the base differ.
BaseKept == Reading /\ ~blind => pr.base = pull.base

\* While the head is where it was bound it has never left, so every page read
\* so far was a page of the bound listing.
RecordsKept ==
    ~blind /\ pr.head = pull.head =>
        /\ pc = "files" => /\ PrefixOf(records, Listed)
                           /\ Len(records) = (page - 1) * PageSize
        /\ Reading /\ pc # "files" /\ ~truncated => records = Listed

\* The head read back is the bound one only if it was there all the time.
RecordsConfirmed ==
    /\ pc = "evaluate" /\ ~blind /\ ~truncated
    /\ observed = pull.head
    => records = Listed

TextKept ==
    pc \in {"readback", "evaluate"} =>
        LET source == request.policy.source
        IN  ~CollectedInline =>
               /\ source = "pr_body_allowlist" => text \in {NoText, pull.body}
               /\ source = "file" => text \in {NoText, Manifest[pull.base]}

\* Which stages may have reported an error so far.
ErrorsSoFar ==
    /\ pc \in {"pull", "files"} => errors = {}
    /\ pc = "checks" => errors \subseteq {"files"}
    /\ pc = "reviews" => errors \subseteq {"files", "checks"}
    /\ pc = "declaration" => errors \subseteq {"files", "checks", "reviews"}
    /\ pc = "readback" =>
          errors \subseteq {"files", "checks", "reviews", "declaration"}

\* Every error leaves a mark that rules/v0 looks at.
ErrorsMarked ==
    /\ "files" \in errors => truncated
    /\ "declaration" \in errors => text = NoText /\ ~CollectedInline
    /\ pc = "evaluate" =>
          /\ errors \cap {"count", "checks", "reviews"} # {} => truncated
          /\ errors \cap {"readback", "merge"} # {} => observed = NoSha

Judged ==
    /\ pc # "done" => result = NoResult
    /\ pc = "done" => DecidedIsTrue /\ PartialNeverDecides

Kept ==
    /\ BoundCount /\ Untouched /\ BaseKept /\ RecordsKept /\ RecordsConfirmed /\ TextKept
    /\ ErrorsSoFar /\ ErrorsMarked /\ Judged

IInv == TypeOK /\ Kept

LEMMA InitKept == Init => Kept
<1> SUFFICES ASSUME Init PROVE Kept
  OBVIOUS
<1>1. /\ pc = "pull" /\ page = 1 /\ records = <<>> /\ errors = {}
      /\ result = NoResult
  BY DEF Init
<1> QED
  BY <1>1 DEF Kept, BoundCount, Untouched, BaseKept, Reading, RecordsKept,
              RecordsConfirmed, TextKept, ErrorsSoFar, ErrorsMarked, Judged

\* Binding: the prefix received of the listing just bound is the empty one.
LEMMA ReadPullKept == IInv /\ ReadPull => Kept'
<1> SUFFICES ASSUME IInv, ReadPull PROVE Kept'
  OBVIOUS
<1>1. /\ pc = "pull" /\ page = 1 /\ records = <<>> /\ errors = {}
      /\ result = NoResult
  BY DEF IInv, Kept, Untouched, ErrorsSoFar, Judged, ReadPull
<1>2. /\ pr' = pr /\ records' = <<>> /\ page' = 1 /\ errors' = {}
      /\ result' = NoResult /\ blind' = blind
  BY <1>1 DEF ReadPull, github, files
<1>3. CASE pc' = "unavailable"
  BY <1>2, <1>3 DEF Kept, BoundCount, Untouched, BaseKept, Reading,
     RecordsKept, RecordsConfirmed, TextKept, ErrorsSoFar, ErrorsMarked, Judged
<1>4. CASE pc' = "files"
  <2>1. /\ pull'.head = pr.head /\ pull'.base = pr.base
        /\ pull'.changed_files = Len(Files[pr.head][pr.base])
    BY <1>4 DEF ReadPull
  <2>2. BoundCount' /\ Untouched' /\ BaseKept'
    BY <1>2, <1>4, <2>1 DEF BoundCount, Untouched, BaseKept, Listed
  <2>3. RecordsKept'
    <3>1. Len(Listed') \in Nat
      BY <2>1, FilesAssumption, LenProperties DEF Listed, IInv, TypeOK
    <3>2. Len(records') = 0 /\ 0 = (page' - 1) * PageSize
      BY <1>2, EmptySeq, PageSizeType
    <3>3. PrefixOf(records', Listed')
      BY <3>1, <3>2 DEF PrefixOf
    <3> QED
      BY <1>4, <3>2, <3>3 DEF RecordsKept
  <2> QED
    BY <1>2, <1>4, <2>2, <2>3 DEF Kept, RecordsConfirmed, TextKept,
       ErrorsSoFar, ErrorsMarked, Judged
<1> QED
  BY <1>3, <1>4 DEF ReadPull

\* The head leaves the bound one, or the move is noted; the base never changes
\* unnoted; nothing the command holds changes.
LEMMA EnvironmentKept == IInv /\ Environment => Kept'
<1> SUFFICES ASSUME IInv, Environment PROVE Kept'
  OBVIOUS
<1>1. /\ Reading
      /\ UNCHANGED <<request, pc, pull, page, records, truncated, errors, text,
                     observed, result>>
  BY DEF Environment, Push, Retarget, EditBody, AddRun, Supersede, AddReview, files
<1>2. ~blind' => ~blind /\ pr'.base = pr.base
  BY DEF Environment, Push, Retarget, EditBody, AddRun, Supersede, AddReview, history,
         IInv, TypeOK
<1>3. ~blind' /\ pr'.head = pull.head => pr.head = pull.head
  BY DEF Environment, Push, Retarget, EditBody, AddRun, Supersede, AddReview, history,
         IInv, TypeOK
<1>4. BaseKept'
  BY <1>1, <1>2 DEF IInv, Kept, BaseKept, Reading
<1>5. RecordsKept'
  BY <1>1, <1>2, <1>3 DEF IInv, Kept, RecordsKept, Reading, Listed, PrefixOf
<1>6. RecordsConfirmed' /\ Judged'
  BY <1>1 DEF IInv, Kept, RecordsConfirmed, Judged, Reading
<1>7. BoundCount' /\ Untouched' /\ TextKept' /\ ErrorsSoFar' /\ ErrorsMarked'
  BY <1>1 DEF IInv, Kept, BoundCount, Untouched, TextKept, ErrorsSoFar,
              ErrorsMarked, Listed, CollectedInline
<1> QED
  BY <1>4, <1>5, <1>6, <1>7 DEF Kept

\* One page of the bound listing extends the prefix received; the listing is
\* left with all of it received, or marked truncated.
LEMMA ReadFilesRecords ==
    ASSUME IInv, ReadFiles, ~blind, pr.head = pull.head
    PROVE  /\ pc' = "files" => /\ PrefixOf(records', Listed)
                               /\ Len(records') = (page' - 1) * PageSize
           /\ pc' = "checks" /\ ~truncated' => records' = Listed
<1> DEFINE k == Len(records)
           items == PageOf(Listed, page)
           taken == FirstOf(items, Ceiling - k)
<1>1. /\ pc = "files" /\ page \in Nat \ {0} /\ pr.base = pull.base
      /\ records \in Seq(FileRecord) /\ k \in Nat /\ k <= Ceiling
      /\ PrefixOf(records, Listed) /\ k = (page - 1) * PageSize
      /\ pull.changed_files = Len(Listed)
  BY LenProperties DEF ReadFiles, IInv, Kept, TypeOK, BaseKept, Reading,
     RecordsKept, BoundCount
<1>2. Listed = Files[pr.head][pr.base]
  BY <1>1 DEF Listed
<1>3. Listed \in Seq(FileRecord) /\ Len(Listed) \in Nat /\ k <= Len(Listed)
  BY <1>1, <1>2, FilesAssumption, LenProperties DEF IInv, TypeOK, PrefixOf
<1>4. /\ items \in Seq(FileRecord) /\ Len(items) <= PageSize
      /\ Len(items) = Smaller(PageSize, Len(Listed) - k)
      /\ \A i \in 1 .. Len(items) : items[i] = Listed[k + i]
  BY <1>1, <1>3, PageOfFacts
<1>5. /\ taken \in Seq(FileRecord)
      /\ Len(taken) = Smaller(Ceiling - k, Len(items))
      /\ \A i \in 1 .. Len(taken) : taken[i] = items[i]
  BY <1>1, <1>4, PageSizeType, FirstOfFacts
<1>6. /\ Len(items) \in Nat /\ Len(items) <= Len(Listed) - k
      /\ Len(taken) \in Nat /\ Len(taken) <= Len(items)
  <2>1. Len(Listed) - k \in Nat /\ Ceiling - k \in Nat /\ PageSize \in Nat
    BY <1>1, <1>3, PageSizeType
  <2>2. Len(items) \in Nat /\ Len(items) <= Len(Listed) - k
    BY <1>4, <2>1, SmallerFacts
  <2>3. Len(taken) \in Nat /\ Len(taken) <= Len(items)
    BY <1>5, <2>1, <2>2, SmallerFacts
  <2> QED
    BY <2>2, <2>3
<1>7. /\ PrefixOf(records \o taken, Listed)
      /\ Len(records \o taken) = k + Len(taken)
  <2>1. \A i \in 1 .. Len(taken) : taken[i] = Listed[k + i]
    BY <1>4, <1>5, <1>6
  <2>2. k + Len(taken) <= Len(Listed)
    BY <1>1, <1>3, <1>6
  <2> QED
    BY <1>1, <1>3, <1>5, <2>1, <2>2, PrefixGrows
<1> HIDE DEF k, items, taken
<1>8. \/ /\ records' = records \o taken
         /\ Len(records') >= Ceiling \/ Len(items) < PageSize
         /\ truncated' = (\/ Len(records') >= Ceiling
                          \/ Len(records') # pull.changed_files)
         /\ pc' = "checks"
      \/ /\ records' = records \o taken
         /\ ~(Len(records') >= Ceiling \/ Len(items) < PageSize)
         /\ page' = page + 1 /\ pc' = "files"
      \/ truncated' /\ pc' = "checks"
  BY <1>1, <1>2 DEF ReadFiles, GiveUp, k, items, taken
<1>9. CASE /\ records' = records \o taken
           /\ truncated' = (\/ Len(records') >= Ceiling
                            \/ Len(records') # pull.changed_files)
           /\ pc' = "checks"
  <2>1. ASSUME ~truncated' PROVE records' = Listed
    <3>1. Len(records') = Len(Listed)
      BY <1>1, <1>9, <2>1
    <3>2. records' \in Seq(FileRecord)
      BY <1>1, <1>5, <1>9, ConcatProperties
    <3> QED
      BY <1>3, <1>7, <1>9, <3>1, <3>2, PrefixFull
  <2> QED
    BY <1>9, <2>1
<1>10. CASE /\ records' = records \o taken
            /\ ~(Len(records') >= Ceiling \/ Len(items) < PageSize)
            /\ page' = page + 1 /\ pc' = "files"
  <2>1. Len(taken) = PageSize
    BY <1>1, <1>4, <1>5, <1>6, <1>7, <1>10, PageSizeType DEF Smaller
  <2>2. (page' - 1) * PageSize = (page - 1) * PageSize + PageSize
    BY <1>1, <1>10, PageSizeType
  <2>3. Len(records') = (page' - 1) * PageSize
    BY <1>1, <1>7, <1>10, <2>1, <2>2 DEF k
  <2> QED
    BY <1>7, <1>10, <2>3
<1> QED
  BY <1>8, <1>9, <1>10

LEMMA ReadFilesKept == IInv /\ ReadFiles => Kept'
<1> SUFFICES ASSUME IInv, ReadFiles PROVE Kept'
  OBVIOUS
<1>1. /\ pc = "files" /\ pc' \in {"files", "checks"}
      /\ UNCHANGED <<pr, request, pull, text, observed, result, blind>>
      /\ errors = {} /\ result = NoResult
  BY DEF ReadFiles, GiveUp, github, history, IInv, Kept, ErrorsSoFar, Judged
<1>2. \/ errors' = {} 
      \/ errors' = {"files"} /\ truncated' /\ pc' = "checks"
  BY <1>1 DEF ReadFiles, GiveUp
<1>3. RecordsKept'
  BY <1>1, ReadFilesRecords DEF RecordsKept, Listed
<1>4. BoundCount' /\ BaseKept'
  BY <1>1 DEF IInv, Kept, BoundCount, BaseKept, Reading, Listed
<1>5. Untouched' /\ RecordsConfirmed' /\ TextKept' /\ Judged'
  BY <1>1 DEF Untouched, RecordsConfirmed, TextKept, Judged
<1>6. ErrorsSoFar' /\ ErrorsMarked'
  BY <1>1, <1>2 DEF ErrorsSoFar, ErrorsMarked
<1> QED
  BY <1>3, <1>4, <1>5, <1>6 DEF Kept

\* Two reads that touch neither the records nor their completeness mark.
LEMMA ReadChecksKept == IInv /\ ReadChecks => Kept'
<1> SUFFICES ASSUME IInv, ReadChecks PROVE Kept'
  OBVIOUS
<1>1. /\ pc = "checks" /\ pc' \in {"checks", "reviews"}
      /\ UNCHANGED <<pr, request, pull, records, truncated, text, observed,
                     result, blind>>
      /\ errors \subseteq {"files"} /\ result = NoResult
  BY DEF ReadChecks, GiveUp, github, files, history, IInv, Kept, ErrorsSoFar,
         Judged
<1>2. \/ errors' = errors
      \/ errors' = errors \cup {"checks"} /\ pc' = "reviews"
  BY DEF ReadChecks, GiveUp
<1>3. BoundCount' /\ BaseKept' /\ RecordsKept'
  BY <1>1 DEF IInv, Kept, BoundCount, BaseKept, RecordsKept, Reading, Listed
<1>4. Untouched' /\ RecordsConfirmed' /\ TextKept' /\ Judged'
  BY <1>1 DEF Untouched, RecordsConfirmed, TextKept, Judged
<1>5. ErrorsSoFar' /\ ErrorsMarked'
  BY <1>1, <1>2 DEF IInv, Kept, ErrorsSoFar, ErrorsMarked
<1> QED
  BY <1>3, <1>4, <1>5 DEF Kept

LEMMA ReadReviewsKept == IInv /\ ReadReviews => Kept'
<1> SUFFICES ASSUME IInv, ReadReviews PROVE Kept'
  OBVIOUS
<1>1. /\ pc = "reviews" /\ pc' \in {"reviews", "declaration"}
      /\ UNCHANGED <<pr, request, pull, records, truncated, text, observed,
                     result, blind>>
      /\ errors \subseteq {"files", "checks"} /\ result = NoResult
  BY DEF ReadReviews, GiveUp, github, files, history, IInv, Kept, ErrorsSoFar,
         Judged
<1>2. \/ errors' = errors
      \/ errors' = errors \cup {"reviews"} /\ pc' = "declaration"
  BY DEF ReadReviews, GiveUp
<1>3. BoundCount' /\ BaseKept' /\ RecordsKept'
  BY <1>1 DEF IInv, Kept, BoundCount, BaseKept, RecordsKept, Reading, Listed
<1>4. Untouched' /\ RecordsConfirmed' /\ TextKept' /\ Judged'
  BY <1>1 DEF Untouched, RecordsConfirmed, TextKept, Judged
<1>5. ErrorsSoFar' /\ ErrorsMarked'
  BY <1>1, <1>2 DEF IInv, Kept, ErrorsSoFar, ErrorsMarked
<1> QED
  BY <1>3, <1>4, <1>5 DEF Kept

LEMMA ReadDeclarationKept == IInv /\ ReadDeclaration => Kept'
<1> SUFFICES ASSUME IInv, ReadDeclaration PROVE Kept'
  OBVIOUS
<1>1. /\ pc = "declaration" /\ pc' = "readback"
      /\ UNCHANGED <<pr, request, pull, records, truncated, observed, result,
                     blind>>
      /\ errors \subseteq {"files", "checks", "reviews"} /\ result = NoResult
  BY DEF ReadDeclaration, github, files, history, IInv, Kept, ErrorsSoFar,
         Judged
<1>2. \/ errors' = errors
      \/ /\ errors' = errors \cup {"declaration"}
         /\ text' = NoText /\ ~CollectedInline
  BY DEF ReadDeclaration
<1>3. TextKept'
  BY <1>1 DEF ReadDeclaration, TextKept, CollectedInline
<1>4. BoundCount' /\ BaseKept' /\ RecordsKept'
  BY <1>1 DEF IInv, Kept, BoundCount, BaseKept, RecordsKept, Reading, Listed
<1>5. Untouched' /\ RecordsConfirmed' /\ Judged'
  BY <1>1 DEF Untouched, RecordsConfirmed, Judged
<1>6. ErrorsSoFar' /\ ErrorsMarked'
  BY <1>1, <1>2 DEF IInv, Kept, ErrorsSoFar, ErrorsMarked, CollectedInline
<1> QED
  BY <1>3, <1>4, <1>5, <1>6 DEF Kept

\* The read-back: a head equal to the bound one confirms the records.
LEMMA ReadBackKept == IInv /\ ReadBack => Kept'
<1> SUFFICES ASSUME IInv, ReadBack PROVE Kept'
  OBVIOUS
<1>1. /\ pc = "readback" /\ pc' = "evaluate"
      /\ UNCHANGED <<pr, request, pull, records, text, result, blind>>
      /\ errors \subseteq {"files", "checks", "reviews", "declaration"}
      /\ result = NoResult
  BY DEF ReadBack, github, history, IInv, Kept, ErrorsSoFar, Judged
<1>2. /\ observed' \in {pr.head, NoSha}
      /\ truncated \/ IncompleteStages \cap errors' # {} <=> truncated'
      /\ errors \subseteq errors'
      /\ errors' \subseteq errors \cup {"readback", "count", "merge"}
      /\ errors' \cap {"readback", "merge"} # {} => observed' = NoSha
  BY <1>1 DEF ReadBack
<1>3. RecordsConfirmed'
  <2>1. pull.head # NoSha
    BY <1>1, CommitAssumption DEF IInv, TypeOK
  <2> QED
    BY <1>1, <1>2, <2>1 DEF RecordsConfirmed, IInv, Kept, RecordsKept, Reading,
       Listed
<1>4. TextKept'
  BY <1>1 DEF IInv, Kept, TextKept, CollectedInline
<1>5. BoundCount' /\ BaseKept' /\ RecordsKept'
  BY <1>1 DEF IInv, Kept, BoundCount, BaseKept, RecordsKept, Reading, Listed
<1>6. Untouched' /\ Judged' /\ ErrorsSoFar'
  BY <1>1 DEF Untouched, Judged, ErrorsSoFar
<1>7. ErrorsMarked'
  BY <1>1, <1>2 DEF IInv, Kept, ErrorsMarked, CollectedInline, IncompleteStages
<1> QED
  BY <1>3, <1>4, <1>5, <1>6, <1>7 DEF Kept

\* What rules/v0 has established when it gives a verdict.
LEMMA EvaluateDecides ==
    ASSUME NEW policy, NEW ev,
           Evaluate(policy, ev).verdict \in {"PASS", "FAIL"}
    PROVE  LET outside == OutsidePaths(ParsedEntries(policy, ev.text),
                                       Touched(ev.changed.records))
           IN  /\ policy.known
               /\ ~MissingDeclaration(policy, ev.subject.base, ev.text, ev.bound)
               /\ ~AmbiguousDeclaration(policy, ev.text, ev.bound)
               /\ ev.observed # NoSha /\ ev.observed = ev.subject.head
               /\ ~ev.changed.truncated
               /\ Evaluate(policy, ev).verdict =
                     IF outside = {} THEN "PASS" ELSE "FAIL"
               /\ Evaluate(policy, ev).outside = outside
<1> DEFINE outside == OutsidePaths(ParsedEntries(policy, ev.text),
                                   Touched(ev.changed.records))
<1>1. policy.known
  BY DEF Evaluate, Indeterminate
<1>2. ProblemReasons(policy, ev) = {}
  BY <1>1 DEF Evaluate, Indeterminate
<1>3. /\ DeclarationReasons(policy, ev) = {}
      /\ DriftReasons(ev) = {} /\ PathReasons(ev.changed) = {}
  BY <1>2 DEF ProblemReasons
<1>4. /\ ~MissingDeclaration(policy, ev.subject.base, ev.text, ev.bound)
      /\ ~AmbiguousDeclaration(policy, ev.text, ev.bound)
  BY <1>3 DEF DeclarationReasons
<1>5. ev.observed # NoSha /\ ev.observed = ev.subject.head
  BY <1>3 DEF DriftReasons
<1>6. ~ev.changed.truncated
  BY <1>3 DEF PathReasons, ChangedSetComplete
<1>7. CASE outside = {}
  <2>1. Evaluate(policy, ev) = Passes(ev.subject)
    BY <1>1, <1>2, <1>7 DEF Evaluate
  <2> QED
    BY <1>1, <1>4, <1>5, <1>6, <1>7, <2>1 DEF Passes
<1>8. CASE outside # {}
  <2>1. Evaluate(policy, ev) = Fails(outside)
    BY <1>1, <1>2, <1>8 DEF Evaluate
  <2> QED
    BY <1>1, <1>4, <1>5, <1>6, <1>8, <2>1 DEF Fails
<1> QED
  BY <1>7, <1>8

\* A verdict, or nothing claimed.
LEMMA EvaluateAnswers ==
    ASSUME NEW policy, NEW ev
    PROVE  \/ Evaluate(policy, ev).verdict \in {"PASS", "FAIL"}
           \/ /\ Evaluate(policy, ev).verdict = "INDETERMINATE"
              /\ Evaluate(policy, ev).outside = {}
BY DEF Evaluate, Indeterminate, Fails, Passes

\* The declaration in hand, once rules/v0 accepts it, spells out the entries
\* that were declared for the bound subject.
LEMMA AcceptedScope ==
    ASSUME IInv, pc = "evaluate", request.policy.known,
           ~MissingDeclaration(request.policy, pull.base, text, Evidence.bound),
           ~AmbiguousDeclaration(request.policy, text, Evidence.bound)
    PROVE  /\ ParsedEntries(request.policy, text) =
                 DeclaredScope(request.policy, pull.base, pull.body)
           /\ ~Inline(request.policy) => text # NoText
<1>1. request.policy.source \in Sources
  BY RequestAssumption DEF IInv, TypeOK, Request, PolicyDocument
<1>2. CollectedInline <=> Inline(request.policy)
  BY DEF CollectedInline
<1>3. CASE Inline(request.policy)
  BY <1>3 DEF ParsedEntries, DeclaredScope
<1>4. CASE ~Inline(request.policy)
  <2>1. text # NoText /\ ~DigestDiffers(request.policy, text)
    BY <1>4 DEF MissingDeclaration, AmbiguousDeclaration
  <2>2. /\ request.policy.source = "pr_body_allowlist" => text = pull.body
        /\ request.policy.source = "file" => text = Manifest[pull.base]
        /\ request.policy.source = "pinned" => text = request.policy.pin
    BY <1>2, <1>4, <2>1 DEF IInv, Kept, TextKept, DigestDiffers
  <2> QED
    BY <1>1, <1>4, <2>1, <2>2 DEF ParsedEntries, DeclaredScope, Sources
<1> QED
  BY <1>3, <1>4

\* The verdict of a confirmed bundle is the truth about the bound subject.
LEMMA JudgeIsTrue ==
    ASSUME IInv, Judge, pc' = "done", Decided'
    PROVE  /\ errors = {}
           /\ ~blind => Outcome' = TrueOutcome(BoundSubject)
<1> DEFINE policy == request.policy
           outside == OutsidePaths(ParsedEntries(policy, text), Touched(records))
<1>1. pc = "evaluate" /\ result' = Evaluate(policy, Evidence)
  BY DEF Judge
<1>2. /\ Evidence.text = text /\ Evidence.observed = observed
      /\ Evidence.changed.records = records
      /\ Evidence.changed.truncated = truncated
      /\ Evidence.subject.head = pull.head /\ Evidence.subject.base = pull.base
  BY DEF Evidence, Subject
<1> HIDE DEF policy
<1>3. Evaluate(policy, Evidence).verdict \in {"PASS", "FAIL"}
  BY <1>1 DEF Decided
<1>4. /\ policy.known
      /\ ~MissingDeclaration(policy, pull.base, text, Evidence.bound)
      /\ ~AmbiguousDeclaration(policy, text, Evidence.bound)
      /\ observed # NoSha /\ observed = pull.head /\ ~truncated
      /\ result'.verdict = IF outside = {} THEN "PASS" ELSE "FAIL"
      /\ result'.outside = outside
  BY <1>1, <1>2, <1>3, EvaluateDecides
<1>5. /\ ParsedEntries(policy, text) =
            DeclaredScope(policy, pull.base, pull.body)
      /\ ~Inline(policy) => text # NoText
  BY <1>1, <1>4, AcceptedScope DEF policy
<1>6. errors = {}
  <2>1. /\ "files" \notin errors
        /\ errors \cap {"count", "checks", "reviews"} = {}
        /\ errors \cap {"readback", "merge"} = {}
    BY <1>1, <1>4 DEF IInv, Kept, ErrorsMarked
  <2>2. "declaration" \notin errors
    BY <1>4, <1>5 DEF IInv, Kept, ErrorsMarked, CollectedInline, policy
  <2>3. errors \subseteq Stages
    BY DEF IInv, TypeOK
  <2> QED
    BY <2>1, <2>2, <2>3 DEF Stages
<1>7. ASSUME ~blind PROVE Outcome' = TrueOutcome(BoundSubject)
  <2>1. records = Files[pull.head][pull.base]
    BY <1>1, <1>4, <1>7 DEF IInv, Kept, RecordsConfirmed, Listed
  <2>2. /\ BoundSubject.policy = policy /\ BoundSubject.head = pull.head
        /\ BoundSubject.base = pull.base /\ BoundSubject.body = pull.body
    BY DEF BoundSubject, policy
  <2>3. Touched(records) = ChangedPaths(records)
    BY TouchedIsChanged DEF IInv, TypeOK
  <2> QED
    BY <1>4, <1>5, <2>1, <2>2, <2>3 DEF TrueOutcome, Outcome
<1> QED
  BY <1>6, <1>7

LEMMA JudgeKept == IInv /\ Judge => Kept'
<1> SUFFICES ASSUME IInv, Judge PROVE Kept'
  OBVIOUS
<1>1. /\ pc = "evaluate" /\ pc' \in {"refused", "done"}
      /\ UNCHANGED <<pr, request, pull, records, truncated, errors, text,
                     observed, blind>>
  BY DEF Judge, github, files, history, IInv, Kept, Judged
<1>2. Judged'
  <2>1. CASE pc' = "refused"
    BY <1>1, <2>1 DEF Judge, IInv, Kept, Judged
  <2>2. CASE pc' = "done"
    <3>1. Decided' => errors' = {} /\ (~blind' => Outcome' = TrueOutcome(BoundSubject'))
      BY <1>1, <2>2, JudgeIsTrue DEF BoundSubject
    <3> QED
      BY <2>2, <3>1 DEF Judged, DecidedIsTrue, PartialNeverDecides
  <2> QED
    BY <1>1, <2>1, <2>2
<1>3. BoundCount'
  BY <1>1 DEF IInv, Kept, BoundCount, Listed
<1>4. Untouched' /\ BaseKept' /\ RecordsKept' /\ RecordsConfirmed' /\ TextKept'
  BY <1>1 DEF Untouched, BaseKept, RecordsKept, RecordsConfirmed, TextKept,
              Reading
<1>5. ErrorsSoFar' /\ ErrorsMarked'
  BY <1>1 DEF IInv, Kept, ErrorsSoFar, ErrorsMarked, CollectedInline
<1> QED
  BY <1>2, <1>3, <1>4, <1>5 DEF Kept

LEMMA StutterKept == IInv /\ UNCHANGED vars => Kept'
BY DEF vars, github, files, listing, history, IInv, Kept, BoundCount,
       Untouched, BaseKept, RecordsKept, RecordsConfirmed, TextKept,
       ErrorsSoFar, ErrorsMarked, Judged, Listed, PrefixOf, Reading,
       CollectedInline, DecidedIsTrue, PartialNeverDecides, Decided, Outcome,
       BoundSubject

\* The strengthened invariant holds in every behaviour.
THEOREM Inductive == SafetySpec => []IInv
<1>1. Init => IInv
  BY InitTypeOK, InitKept DEF IInv
<1>2. IInv /\ [Next]_vars /\ TypeOK' => IInv'
  <2> SUFFICES ASSUME IInv, [Next]_vars PROVE Kept'
    BY DEF IInv
  <2> QED
    BY ReadPullKept, ReadFilesKept, ReadChecksKept, ReadReviewsKept,
       ReadDeclarationKept, ReadBackKept, JudgeKept, EnvironmentKept,
       StutterKept DEF Next, Command
<1>3. SafetySpec => []TypeOK
  BY TypeCorrect
<1> QED
  BY <1>1, <1>2, <1>3, PTL DEF SafetySpec

\* Both in one, from the invariant's last part.
LEMMA InvariantImplies == IInv => DecidedIsTrue /\ PartialNeverDecides
BY DEF IInv, Kept, Judged, DecidedIsTrue, PartialNeverDecides, Decided, NoResult

\* No PASS and no FAIL of a pull request that moved while its pages were read
\* is about anything but the bound head, base and declaration.
THEOREM DecidedIsTrueAlways == SafetySpec => []DecidedIsTrue
BY Inductive, InvariantImplies, PTL

\* No failed read ever ends in a PASS or a FAIL.
THEOREM PartialNeverDecidesAlways == SafetySpec => []PartialNeverDecides
BY Inductive, InvariantImplies, PTL

-----------------------------------------------------------------------------
(* collect_evidence and evaluate keep the promise *)

Unanswered == NoClaim("none")

\* A subject is not the absence of one.
LEMMA BoundIsSomething == BoundSubject # Unanswered
<1>1. DOMAIN BoundSubject = {"policy", "head", "base", "body"}
  BY DEF BoundSubject
<1>2. DOMAIN Unanswered = {"verdict", "outside"}
  BY DEF Unanswered, NoClaim
<1> QED
  BY <1>1, <1>2

LEMMA AnswerBefore ==
    ASSUME IInv, pc \notin {"done", "refused", "unavailable"}
    PROVE  Answer = Unanswered
BY DEF IInv, Kept, Judged, Answer, Outcome, NoResult, NoClaim, Unanswered

LEMMA InitPromised == Init => Promise!Init
BY DEF Init, Promise!Init, Answer, Outcome, NoResult, NoClaim

LEMMA ReadPullPromised ==
    IInv /\ TypeOK' /\ ReadPull => Promise!Bind \/ Promise!Abstain
<1> SUFFICES ASSUME IInv, TypeOK', ReadPull
             PROVE  Promise!Bind \/ Promise!Abstain
  OBVIOUS
<1>1. pc = "pull" /\ Answer = Unanswered
  BY AnswerBefore DEF ReadPull
<1>2. UNCHANGED <<request, result, blind>>
  BY DEF ReadPull
<1>3. CASE pc' = "files"
  <2>1. Answer' = Answer
    BY <1>1, <1>2, <1>3 DEF Answer, Outcome
  <2>2. BoundSubject' \in [policy: PolicyDocument, head: Heads, base: Bases,
                           body: Texts \cup {NoText}]
    BY <1>3, RequestAssumption
       DEF TypeOK, PullDocument, Request, BoundSubject
  <2> QED
    BY <1>1, <1>2, <1>3, <2>1, <2>2 DEF Promise!Bind, Unanswered
<1>4. CASE pc' = "unavailable"
  BY <1>1, <1>2, <1>4 DEF Promise!Abstain, Answer, NoClaim, Unanswered
<1> QED
  BY <1>3, <1>4 DEF ReadPull

\* The reads after the first are not visible in the promise.
LEMMA ReadingPromised ==
    ASSUME IInv, \/ ReadFiles \/ ReadChecks \/ ReadReviews
                 \/ ReadDeclaration \/ ReadBack
    PROVE  UNCHANGED Promise!vars
<1>1. /\ UNCHANGED <<request, pull, result, blind>>
      /\ pc \notin {"pull", "done", "refused", "unavailable"}
      /\ pc' \notin {"pull", "done", "refused", "unavailable"}
  BY DEF ReadFiles, ReadChecks, ReadReviews, ReadDeclaration, ReadBack, GiveUp,
         history
<1> QED
  BY <1>1 DEF Promise!vars, Answer, Outcome, BoundSubject

LEMMA EnvironmentPromised ==
    IInv /\ Environment => Promise!Disturb \/ UNCHANGED Promise!vars
<1> SUFFICES ASSUME IInv, Environment
             PROVE  Promise!Disturb \/ UNCHANGED Promise!vars
  OBVIOUS
<1>1. Reading /\ UNCHANGED <<request, pc, pull, result>>
  BY DEF Environment, Push, Retarget, EditBody, AddRun, Supersede, AddReview
<1>2. blind' = blind \/ blind' = TRUE
  BY DEF Environment, Push, Retarget, EditBody, AddRun, Supersede, AddReview, history,
         IInv, TypeOK
<1>3. Answer = Unanswered /\ Answer' = Answer /\ BoundSubject' = BoundSubject
  BY <1>1, AnswerBefore DEF Reading, Answer, Outcome, BoundSubject
<1> QED
  BY <1>1, <1>2, <1>3, BoundIsSomething
     DEF Promise!Disturb, Promise!vars, Reading, Unanswered

LEMMA JudgePromised ==
    IInv /\ Judge => Promise!Abstain \/ Promise!Decide \/ Promise!Guess
<1> SUFFICES ASSUME IInv, Judge
             PROVE  Promise!Abstain \/ Promise!Decide \/ Promise!Guess
  OBVIOUS
<1>1. /\ pc = "evaluate" /\ pc' \in {"refused", "done"}
      /\ UNCHANGED <<request, pull, blind>>
      /\ BoundSubject' = BoundSubject
      /\ Answer = Unanswered
  BY AnswerBefore DEF Judge, history, BoundSubject
<1>2. CASE pc' = "refused"
  BY <1>1, <1>2 DEF Promise!Abstain, Answer, NoClaim, Unanswered
<1>3. CASE pc' = "done" /\ Decided'
  <2>1. Answer' = Outcome' /\ Answer'.verdict \in {"PASS", "FAIL"}
    BY <1>3 DEF Answer, Outcome, Decided
  <2>2. CASE blind
    <3>1. Answer' # Unanswered
      BY <2>1 DEF Unanswered, NoClaim
    <3> QED
      BY <1>1, <1>3, <2>2, <3>1 DEF Promise!Guess, Unanswered
  <2>3. CASE ~blind
    <3>1. Answer' = TrueOutcome(BoundSubject)
      BY <1>3, <2>1, <2>3, JudgeIsTrue
    <3> QED
      BY <1>1, <1>3, <3>1, BoundIsSomething DEF Promise!Decide, Unanswered
  <2> QED
    BY <2>2, <2>3 DEF IInv, TypeOK
<1>4. CASE pc' = "done" /\ ~Decided'
  <2>1. result' = Evaluate(request.policy, Evidence)
    BY <1>4 DEF Judge
  <2>2. result'.verdict = "INDETERMINATE" /\ result'.outside = {}
    BY <1>4, <2>1, EvaluateAnswers DEF Decided
  <2>3. Answer' = NoClaim("INDETERMINATE")
    BY <1>4, <2>2 DEF Answer, Outcome, NoClaim
  <2> QED
    BY <1>1, <1>4, <2>3 DEF Promise!Abstain, Unanswered
<1> QED
  BY <1>1, <1>2, <1>3, <1>4

\* Every behaviour of the command, with GitHub changing under it and requests
\* failing, is one the abstract specification allows.
THEOREM Refinement == SafetySpec => KeepsPromise
<1>1. Init => Promise!Init
  BY InitPromised
<1>2. IInv /\ TypeOK' /\ [Next]_vars => [Promise!Next]_(Promise!vars)
  <2> SUFFICES ASSUME IInv, TypeOK', [Next]_vars
               PROVE  [Promise!Next]_(Promise!vars)
    OBVIOUS
  <2>1. CASE ReadPull
    BY <2>1, ReadPullPromised DEF Promise!Next
  <2>2. CASE \/ ReadFiles \/ ReadChecks \/ ReadReviews
             \/ ReadDeclaration \/ ReadBack
    BY <2>2, ReadingPromised
  <2>3. CASE Judge
    BY <2>3, JudgePromised DEF Promise!Next
  <2>4. CASE Environment
    BY <2>4, EnvironmentPromised DEF Promise!Next
  <2>5. CASE UNCHANGED vars
    BY <2>5 DEF vars, history, Promise!vars, Answer, Outcome, BoundSubject
  <2> QED
    BY <2>1, <2>2, <2>3, <2>4, <2>5 DEF Next, Command
<1>3. SafetySpec => []IInv /\ []TypeOK
  BY Inductive, TypeCorrect, PTL
<1> QED
  BY <1>1, <1>2, <1>3, PTL DEF SafetySpec, KeepsPromise, Promise!Spec

-----------------------------------------------------------------------------
(* The check runs and reviews a decided receipt lists *)

Bound == pc \notin {"pull", "unavailable"}

\* The check runs of the bound head that are listed have different ids, given
\* one after the other to those that are listed and those that were replaced.
Numbered ==
    /\ IsInjective(runs)
    /\ Range(runs) \subseteq 1 .. Len(runs) + superseded

\* There are never fewer check runs or reviews than before.
Begun == Bound => atBind.runs <= Len(runs) /\ atBind.reviews <= reviewed

\* The check runs received lie in the list without a gap: no run was put
\* between them while they were read.
Consecutive ==
    \E k \in 0 .. Len(runs) :
        /\ k + Len(checks) <= Len(runs)
        /\ \A j \in 1 .. Len(checks) : checks[j] = runs[k + j]

\* As long as the list has the length its first page gave and no run of it was
\* replaced, what was received is its beginning, in whole pages.
ChecksSoFar ==
    /\ pc \in {"pull", "files"} => checks = <<>>
    /\ pc = "checks" /\ page = 1 => checks = <<>>
    /\ pc = "checks" /\ page # 1 =>
          /\ total <= Len(runs)
          /\ total = Len(runs) /\ superseded = 0 =>
                /\ PrefixOf(checks, runs)
                /\ Len(checks) = (page - 1) * PageSize
    /\ /\ Bound /\ pc \notin {"files", "checks"} /\ "checks" \notin errors
       /\ superseded = 0
       => Consecutive

\* Whatever was replaced, no run is received twice, and in the end as many
\* were received as there were at one instant, of all there had been by then.
ChecksCounted ==
    "checks" \notin errors =>
        /\ IsInjective(checks)
        /\ Range(checks) \subseteq 1 .. Len(runs) + superseded
        /\ Bound /\ pc \notin {"files", "checks"} =>
              /\ Len(checks) = total /\ atBind.runs <= total
              /\ Range(checks) \subseteq 1 .. total + superseded

ReviewsDone == 1 .. atBind.reviews \subseteq Range(reviews)

\* Reviews are listed in the order of their ids: whole pages of them so far.
ReviewsSoFar ==
    /\ pc \in {"pull", "files", "checks"} => reviews = <<>>
    /\ pc = "reviews" => /\ Len(reviews) = (page - 1) * PageSize
                         /\ Len(reviews) <= reviewed
                         /\ \A i \in 1 .. Len(reviews) : reviews[i] = i
    /\ Bound /\ pc \notin {"files", "checks", "reviews"}
             /\ "reviews" \notin errors => ReviewsDone

Admitted == pc = "done" => DecidedScopeIsAdmissible

Lists ==
    Numbered /\ Begun /\ ChecksSoFar /\ ChecksCounted /\ ReviewsSoFar

LEMMA EmptyList == IsInjective(<<>>) /\ Range(<<>>) = {} /\ Len(<<>>) = 0
<1>1. DOMAIN <<>> = {}  OBVIOUS
<1>. QED  BY <1>1, EmptySeq DEF IsInjective, Range

LEMMA InitLists == Init => Lists /\ Admitted
<1>. SUFFICES ASSUME Init PROVE Lists /\ Admitted  OBVIOUS
<1>1. pc = "pull" /\ checks = <<>> /\ reviews = <<>> /\ superseded = 0
  BY DEF Init
<1>2. Numbered
  <2>1. PICK n \in StartRuns : runs = [i \in 1 .. n |-> i]  BY DEF Init
  <2>2. n \in Nat  BY CountAssumption
  <2>3. Len(runs) \in Nat /\ DOMAIN runs = 1 .. Len(runs)
    BY InitTypeOK, LenProperties DEF TypeOK
  <2>4. Len(runs) = n  BY <2>1, <2>2, <2>3
  <2>. QED  BY <1>1, <2>1, <2>2, <2>4 DEF Numbered, Range, IsInjective
<1>3. ChecksCounted  BY <1>1, EmptyList DEF ChecksCounted, Bound
<1>. QED
  BY <1>1, <1>2, <1>3
  DEF Lists, Begun, Bound, ChecksSoFar, ReviewsSoFar, Admitted

\* The new run has an id of its own.
LEMMA CreatedNumbered ==
    ASSUME TypeOK, Numbered, NEW list \in Seq(Nat), Created(list),
           IsInjective(list), Range(list) \subseteq Range(runs)
    PROVE  /\ IsInjective(runs')
           /\ Range(runs') \subseteq 1 .. Len(runs) + superseded + 1
<1>. DEFINE id == Len(runs) + superseded + 1
            new == <<id>>
<1>1. Len(runs) \in Nat /\ superseded \in Nat /\ id \in Nat
  BY LenProperties DEF TypeOK
<1>2. new \in Seq(Nat) /\ DOMAIN new = {1} /\ new[1] = id  BY <1>1
<1>3. runs' \in {new \o list, list \o new}  BY DEF Created
<1>. HIDE DEF new
<1>4. IsInjective(new) /\ Range(new) = {id}
  BY <1>2 DEF IsInjective, Range
<1>5. id \notin Range(list)  BY <1>1 DEF Numbered
<1>6. NoRepeat(new, list) /\ NoRepeat(list, new)
  BY <1>4, <1>5 DEF NoRepeat
<1>7. IsInjective(new \o list) /\ IsInjective(list \o new)
  BY <1>2, <1>4, <1>6, InjectiveGrows
<1>8. /\ Range(new \o list) = Range(new) \cup Range(list)
      /\ Range(list \o new) = Range(list) \cup Range(new)
  BY <1>2, RangeConcatenation
<1>9. Range(runs') = Range(list) \cup {id}  BY <1>3, <1>4, <1>8
<1>10. Range(list) \subseteq 1 .. id /\ id \in 1 .. id
  BY <1>1 DEF Numbered
<1>. QED  BY <1>3, <1>7, <1>9, <1>10

\* The others keep their order, one place further behind or where they were.
LEMMA CreatedPlaces ==
    ASSUME TypeOK, Created(runs)
    PROVE  \E s \in {0, 1} : \A j \in 1 .. Len(runs) : runs'[s + j] = runs[j]
<1>0. runs \in Seq(Nat)  BY DEF TypeOK
<1>1. Len(runs) \in Nat /\ runs \in Seq(Nat)  BY <1>0, LenProperties
<1>2. PICK new \in Seq(Nat) :
         Len(new) = 1 /\ runs' \in {new \o runs, runs \o new}
  BY NewRun
<1>3. CASE runs' = new \o runs
  <2>1. \A i \in 1 .. 1 + Len(runs) :
           (new \o runs)[i] = IF i <= 1 THEN new[i] ELSE runs[i - 1]
    <3>1. \A i \in 1 .. Len(new) + Len(runs) : (new \o runs)[i] =
             IF i <= Len(new) THEN new[i] ELSE runs[i - Len(new)]
      BY <1>1, ConcatProperties
    <3>. QED  BY <1>2, <3>1
  <2>2. ASSUME NEW j \in 1 .. Len(runs) PROVE runs'[1 + j] = runs[j]
    <3>1. 1 + j \in 1 .. 1 + Len(runs) /\ ~(1 + j <= 1) /\ (1 + j) - 1 = j
      BY <1>1
    <3>. QED  BY <1>3, <2>1, <3>1
  <2>. QED  BY <2>2
<1>4. CASE runs' = runs \o new
  <2>1. \A i \in 1 .. Len(runs) + 1 :
           (runs \o new)[i] =
              IF i <= Len(runs) THEN runs[i] ELSE new[i - Len(runs)]
    <3>1. \A i \in 1 .. Len(runs) + Len(new) : (runs \o new)[i] =
             IF i <= Len(runs) THEN runs[i] ELSE new[i - Len(runs)]
      BY <1>1, ConcatProperties
    <3>. QED  BY <1>2, <3>1
  <2>2. ASSUME NEW j \in 1 .. Len(runs) PROVE runs'[0 + j] = runs[j]
    <3>1. 0 + j \in 1 .. Len(runs) + 1 /\ 0 + j <= Len(runs) /\ 0 + j = j
      BY <1>1
    <3>. QED  BY <1>4, <2>1, <3>1
  <2>. QED  BY <2>2
<1>. QED  BY <1>2, <1>3, <1>4

\* More runs, listed or replaced, make room for what was received.
LEMMA CountedGrows ==
    ASSUME TypeOK, ChecksCounted,
           UNCHANGED <<pc, checks, total, errors, atBind>>,
           Len(runs') \in Nat, superseded' \in Nat,
           Len(runs) <= Len(runs'), superseded <= superseded'
    PROVE  ChecksCounted'
<1>0. runs \in Seq(Nat) /\ superseded \in Nat /\ total \in Nat
  BY DEF TypeOK
<1>1. Len(runs) \in Nat /\ superseded \in Nat /\ total \in Nat
  BY <1>0, LenProperties
<1>2. /\ 1 .. Len(runs) + superseded \subseteq 1 .. Len(runs') + superseded'
      /\ 1 .. total + superseded \subseteq 1 .. total + superseded'
  <2>1. \A a, b, c, d \in Nat :
           a <= b /\ c <= d => 1 .. a + c \subseteq 1 .. b + d
    OBVIOUS
  <2>2. total <= total  BY <1>1
  <2>. QED  BY <1>1, <2>1, <2>2
<1>. QED  BY <1>2 DEF ChecksCounted, Bound

LEMMA AddRunLists == IInv /\ Lists /\ AddRun => Lists'
<1>. SUFFICES ASSUME IInv, Lists, AddRun PROVE Lists'  OBVIOUS
<1>0. TypeOK /\ Created(runs) /\ runs \in Seq(Nat)
  BY DEF AddRun, IInv, TypeOK
<1>1. /\ Len(runs) \in Nat /\ Len(runs') = Len(runs) + 1
      /\ Len(checks) \in Nat /\ total \in Nat /\ superseded \in Nat
  BY <1>0, CreatedType, LenProperties DEF TypeOK
<1>2. PICK s \in {0, 1} : \A j \in 1 .. Len(runs) : runs'[s + j] = runs[j]
  BY <1>0, CreatedPlaces
<1>3. UNCHANGED <<superseded, reviewed, pc, page, checks, total, reviews,
                  errors, atBind>>
  BY DEF AddRun, listing, history
<1>4. Numbered'
  <2>1. /\ IsInjective(runs')
        /\ Range(runs') \subseteq 1 .. Len(runs) + superseded + 1
    BY <1>0, CreatedNumbered DEF Lists, Numbered
  <2>2. Len(runs') + superseded' = Len(runs) + superseded + 1
    BY <1>1, <1>3
  <2>. QED  BY <2>1, <2>2 DEF Numbered
<1>5. Begun' /\ ReviewsSoFar'
  BY <1>1, <1>3 DEF IInv, TypeOK, Lists, Begun, Bound, ReviewsSoFar,
                    ReviewsDone
<1>6. Consecutive => Consecutive'
  <2>. SUFFICES ASSUME NEW k \in 0 .. Len(runs),
                       k + Len(checks) <= Len(runs),
                       \A j \in 1 .. Len(checks) : checks[j] = runs[k + j]
                PROVE  Consecutive'
    BY DEF Consecutive
  <2>1. s + k \in 0 .. Len(runs') /\ (s + k) + Len(checks) <= Len(runs')
    BY <1>1
  <2>2. ASSUME NEW j \in 1 .. Len(checks)
        PROVE  checks[j] = runs'[(s + k) + j]
    <3>1. k + j \in 1 .. Len(runs) /\ s + (k + j) = (s + k) + j  BY <1>1
    <3>2. runs'[s + (k + j)] = runs[k + j]  BY <1>2, <3>1
    <3>. QED  BY <3>1, <3>2
  <2>. QED  BY <1>3, <2>1, <2>2 DEF Consecutive
<1>7. ChecksSoFar'
  BY <1>1, <1>3, <1>6 DEF Lists, ChecksSoFar, Bound
<1>8. ChecksCounted'
  BY <1>0, <1>1, <1>3, CountedGrows DEF Lists
<1>. QED  BY <1>4, <1>5, <1>7, <1>8 DEF Lists

LEMMA SupersedeLists ==
    ASSUME IInv, Lists, NEW k \in 1 .. Len(runs), Supersede(k)
    PROVE  Lists'
<1>. DEFINE rest == Without(runs, k)
<1>0. TypeOK /\ Created(rest) /\ runs \in Seq(Nat)
  BY DEF Supersede, IInv, TypeOK
<1>1. /\ rest \in Seq(Nat) /\ Len(rest) = Len(runs) - 1
      /\ IsInjective(rest) /\ Range(rest) \subseteq Range(runs)
  BY <1>0, WithoutFacts, WithoutInjective DEF Lists, Numbered
<1>. HIDE DEF rest
<1>2. /\ Len(runs) \in Nat /\ Len(runs') = Len(runs)
      /\ superseded \in Nat /\ superseded' = superseded + 1
  <2>1. Len(runs) \in Nat /\ superseded \in Nat
    BY <1>0, LenProperties DEF TypeOK
  <2>2. Len(runs') = Len(rest) + 1  BY <1>0, <1>1, CreatedType
  <2>3. superseded' = superseded + 1  BY DEF Supersede
  <2>. QED  BY <1>1, <2>1, <2>2, <2>3
<1>3. UNCHANGED <<reviewed, pc, page, checks, total, reviews, errors, atBind>>
  BY DEF Supersede, listing, history
<1>4. Numbered'
  <2>1. /\ IsInjective(runs')
        /\ Range(runs') \subseteq 1 .. Len(runs) + superseded + 1
    BY <1>0, <1>1, CreatedNumbered DEF Lists
  <2>2. Len(runs') + superseded' = Len(runs) + superseded + 1
    BY <1>2
  <2>. QED  BY <2>1, <2>2 DEF Numbered
<1>5. Begun' /\ ReviewsSoFar'
  BY <1>2, <1>3 DEF Lists, Begun, Bound, ReviewsSoFar, ReviewsDone
<1>6. ChecksSoFar'
  BY <1>2, <1>3 DEF Lists, ChecksSoFar, Bound
<1>7. ChecksCounted'
  BY <1>0, <1>2, <1>3, CountedGrows DEF Lists
<1>. QED  BY <1>4, <1>5, <1>6, <1>7 DEF Lists

\* The rest of GitHub's changes: a review is submitted, or nothing is listed.
LEMMA EnvironmentLists == IInv /\ Lists /\ Environment => Lists'
<1>. SUFFICES ASSUME IInv, Lists, Environment, ~AddRun,
                     \A k \in 1 .. Len(runs) : ~Supersede(k)
              PROVE  Lists'
  BY AddRunLists, SupersedeLists
<1>1. UNCHANGED <<runs, superseded, pc, page, checks, total, reviews, errors,
                  atBind>>
  BY DEF Environment, Push, Retarget, EditBody, AddReview, listing, history,
         checkRuns
<1>2. reviewed \in Nat /\ reviewed' \in {reviewed, reviewed + 1}
  BY DEF Environment, Push, Retarget, EditBody, AddReview, IInv, TypeOK
<1>3. Numbered' /\ ChecksSoFar' /\ ChecksCounted'
  BY <1>1 DEF Lists, Numbered, ChecksSoFar, ChecksCounted, Consecutive, Bound,
              PrefixOf
<1>4. /\ Len(reviews) \in Nat
      /\ Bound => atBind.reviews \in Nat
  BY LenProperties DEF IInv, TypeOK
<1>5. Begun' /\ ReviewsSoFar'
  BY <1>1, <1>2, <1>4 DEF Lists, Begun, Bound, ReviewsSoFar, ReviewsDone
<1>. QED  BY <1>3, <1>5 DEF Lists

LEMMA ReadPullLists == IInv /\ Lists /\ ReadPull => Lists'
<1>. SUFFICES ASSUME IInv, Lists, ReadPull PROVE Lists'  OBVIOUS
<1>1. UNCHANGED <<runs, superseded, reviewed, checks, reviews, errors>>
      /\ pc = "pull" /\ pc' \in {"files", "unavailable"}
  BY DEF ReadPull, github, listing
<1>2. pc' = "files" => atBind' = [runs |-> Len(runs), reviews |-> reviewed]
  BY DEF ReadPull
<1>3. Len(runs) \in Nat /\ reviewed \in Nat
  BY LenProperties DEF IInv, TypeOK
<1>. QED
  BY <1>1, <1>2, <1>3
  DEF Lists, Numbered, Begun, Bound, ChecksSoFar, ChecksCounted, ReviewsSoFar

LEMMA ReadFilesLists == IInv /\ Lists /\ ReadFiles => Lists'
<1>. SUFFICES ASSUME IInv, Lists, ReadFiles PROVE Lists'  OBVIOUS
<1>1. /\ UNCHANGED <<runs, superseded, reviewed, checks, reviews, atBind>>
      /\ pc = "files" /\ pc' \in {"files", "checks"}
      /\ pc' = "checks" => page' = 1
      /\ errors \subseteq errors'
  BY DEF ReadFiles, GiveUp, github, listing, history
<1>. QED
  BY <1>1
  DEF Lists, Numbered, Begun, Bound, ChecksSoFar, ChecksCounted, ReviewsSoFar

\* A page of the check runs, while none was added since the first one and
\* none was ever replaced.
LEMMA ReadChecksGrow ==
    ASSUME IInv, Lists, pc = "checks", superseded = 0,
           page = 1 \/ total = Len(runs)
    PROVE  LET items == PageOf(runs, page)
           IN  /\ PrefixOf(checks \o items, runs)
               /\ checks \o items \in Seq(Nat)
               /\ Len(items) <= PageSize
               /\ Len(items) = PageSize =>
                     Len(checks \o items) = page * PageSize
<1>. DEFINE k == (page - 1) * PageSize
            items == PageOf(runs, page)
<1>1. /\ runs \in Seq(Nat) /\ Len(runs) \in Nat /\ page \in Nat \ {0}
      /\ checks \in Seq(Nat) /\ PageSize \in Nat
  BY LenProperties, PageSizeType DEF IInv, TypeOK
<1>2. PrefixOf(checks, runs) /\ Len(checks) = k
  <2>1. CASE page = 1
    <3>1. checks = <<>> /\ Len(checks) = 0 /\ k = 0
      BY <1>1, <2>1, EmptySeq DEF Lists, ChecksSoFar
    <3>. QED  BY <1>1, <3>1 DEF PrefixOf
  <2>2. CASE page # 1  BY <2>2 DEF Lists, ChecksSoFar
  <2>. QED  BY <2>1, <2>2
<1>3. k \in Nat /\ k <= Len(runs) /\ page * PageSize = k + PageSize
  BY <1>1, <1>2, LenProperties DEF PrefixOf
<1>4. /\ items \in Seq(Nat) /\ Len(items) <= PageSize
      /\ Len(items) = Smaller(PageSize, Len(runs) - k)
      /\ \A i \in 1 .. Len(items) : items[i] = runs[k + i]
  BY <1>1, <1>3, PageOfFacts
<1>. HIDE DEF k, items
<1>5. Len(items) <= Len(runs) - k
  BY <1>1, <1>3, <1>4, SmallerFacts
<1>6. /\ PrefixOf(checks \o items, runs)
      /\ Len(checks \o items) = k + Len(items)
  <2>1. /\ Len(items) \in Nat /\ Len(checks) + Len(items) <= Len(runs)
        /\ \A i \in 1 .. Len(items) : items[i] = runs[Len(checks) + i]
    BY <1>1, <1>2, <1>3, <1>4, <1>5, LenProperties
  <2>2. /\ PrefixOf(checks \o items, runs)
        /\ Len(checks \o items) = Len(checks) + Len(items)
    BY <1>1, <1>2, <1>4, <2>1, PrefixGrows
  <2>. QED  BY <1>2, <2>2
<1>7. checks \o items \in Seq(Nat)  BY <1>1, <1>4, ConcatProperties
<1>. QED  BY <1>3, <1>4, <1>6, <1>7 DEF items

\* A page repeats nothing and lists nothing that was never created.
LEMMA ReadChecksCount ==
    ASSUME IInv, Lists, pc = "checks", NoRepeat(checks, PageOf(runs, page))
    PROVE  LET items == PageOf(runs, page)
           IN  /\ IsInjective(checks \o items)
               /\ Range(checks \o items) \subseteq 1 .. Len(runs) + superseded
<1>. DEFINE items == PageOf(runs, page)
<1>1. runs \in Seq(Nat) /\ checks \in Seq(Nat) /\ page \in Nat \ {0}
  BY DEF IInv, TypeOK
<1>2. items \in Seq(Nat)  BY <1>1, PageOfFacts
<1>3. "checks" \notin errors  BY DEF IInv, Kept, ErrorsSoFar
<1>4. IsInjective(checks \o items)
  BY <1>1, <1>2, <1>3, InjectiveGrows DEF Lists, ChecksCounted
<1>5. Range(items) \subseteq Range(runs)
  <2>1. DOMAIN items = 1 .. Len(items) /\ DOMAIN runs = 1 .. Len(runs)
    BY <1>1, <1>2, LenProperties
  <2>2. \A i \in 1 .. Len(items) : \E j \in 1 .. Len(runs) : items[i] = runs[j]
    BY <1>1, PageIsPart
  <2>. QED  BY <2>1, <2>2 DEF Range
<1>6. Range(checks \o items) = Range(checks) \cup Range(items)
  BY <1>1, <1>2, RangeConcatenation
<1>. QED  BY <1>3, <1>4, <1>5, <1>6 DEF Lists, Numbered, ChecksCounted

LEMMA ReadChecksLists == IInv /\ Lists /\ ReadChecks => Lists'
<1>. SUFFICES ASSUME IInv, Lists, ReadChecks PROVE Lists'  OBVIOUS
<1>. DEFINE items == PageOf(runs, page)
<1>1. /\ UNCHANGED <<runs, superseded, reviewed, reviews, atBind>>
      /\ pc = "checks" /\ pc' \in {"checks", "reviews"}
      /\ errors \subseteq {"files"}
  BY DEF ReadChecks, GiveUp, github, history, IInv, Kept, ErrorsSoFar
<1>2. pc' = "reviews" => page' = 1  BY <1>1 DEF ReadChecks, GiveUp
<1>3. Numbered' /\ Begun'
  BY <1>1 DEF Lists, Numbered, Begun, Bound
<1>4. ReviewsSoFar'
  <2>1. reviews = <<>> /\ Len(reviews) = 0
    BY <1>1, EmptySeq DEF Lists, ReviewsSoFar
  <2>2. pc' = "reviews" => Len(reviews') = (page' - 1) * PageSize
    BY <1>1, <1>2, <2>1, PageSizeType
  <2>. QED
    BY <1>1, <2>1, <2>2 DEF ReviewsSoFar, Bound, IInv, TypeOK
<1>5. CASE "checks" \in errors' /\ pc' = "reviews"
  <2>1. ChecksSoFar' /\ ChecksCounted'
    BY <1>5 DEF ChecksSoFar, ChecksCounted
  <2>. QED  BY <1>3, <1>4, <2>1 DEF Lists
<1>6. CASE ~("checks" \in errors' /\ pc' = "reviews")
  <2>1. /\ total' = (IF page = 1 THEN Len(runs) ELSE total)
        /\ Len(runs) = total'
        /\ NoRepeat(checks, items)
        /\ checks' = checks \o items
        /\ \/ pc' = "reviews" /\ Len(checks') = total'
           \/ /\ pc' = "checks" /\ page' = page + 1
              /\ ~(Len(items) < PageSize)
    BY <1>1, <1>6 DEF ReadChecks, GiveUp
  <2>2. /\ Len(runs) \in Nat /\ Len(items) \in Nat
        /\ page \in Nat \ {0} /\ PageSize \in Nat /\ runs \in Seq(Nat)
    <3>1. runs \in Seq(Nat) /\ page \in Nat \ {0}  BY DEF IInv, TypeOK
    <3>2. items \in Seq(Nat)  BY <3>1, PageOfFacts
    <3>. QED  BY <3>1, <3>2, LenProperties, PageSizeType
  <2>3. ASSUME superseded = 0
        PROVE  /\ PrefixOf(checks', runs) /\ checks' \in Seq(Nat)
               /\ Len(items) <= PageSize
               /\ Len(items) = PageSize => Len(checks') = page * PageSize
    BY <1>1, <2>1, <2>3, ReadChecksGrow
  <2>4. /\ IsInjective(checks')
        /\ Range(checks') \subseteq 1 .. Len(runs) + superseded
    BY <1>1, <2>1, ReadChecksCount
  <2>5. atBind.runs <= Len(runs)
    BY <1>1 DEF Lists, Begun, Bound
  <2>. HIDE DEF items
  <2>6. ChecksCounted'
    BY <1>1, <2>1, <2>4, <2>5 DEF ChecksCounted, Bound
  <2>7. CASE pc' = "reviews" /\ Len(checks') = total'
    <3>1. ASSUME superseded = 0 PROVE Consecutive'
      <4>1. checks' = runs
        BY <2>1, <2>2, <2>3, <2>7, <3>1, PrefixFull
      <4>2. \A j \in 1 .. Len(runs) : runs[j] = runs[0 + j]
        BY <2>2
      <4>. QED  BY <1>1, <2>2, <4>1, <4>2 DEF Consecutive
    <3>2. ChecksSoFar'  BY <1>1, <2>7, <3>1 DEF ChecksSoFar
    <3>. QED  BY <1>3, <1>4, <2>6, <3>2 DEF Lists
  <2>8. CASE /\ pc' = "checks" /\ page' = page + 1
             /\ ~(Len(items) < PageSize)
    <3>1. page' # 1 /\ total' <= Len(runs')
      BY <1>1, <2>1, <2>2, <2>8
    <3>2. ASSUME superseded = 0
          PROVE  /\ PrefixOf(checks, runs)'
                 /\ Len(checks') = (page' - 1) * PageSize
      <4>1. PrefixOf(checks, runs)'  BY <1>1, <2>3, <3>2 DEF PrefixOf
      <4>2. Len(items) <= PageSize
            /\ (Len(items) = PageSize => Len(checks') = page * PageSize)
        BY <2>3, <3>2
      <4>3. Len(items) = PageSize  BY <2>2, <2>8, <4>2
      <4>4. page' - 1 = page  BY <2>2, <2>8
      <4>. QED  BY <4>1, <4>2, <4>3, <4>4
    <3>3. ChecksSoFar'  BY <1>1, <2>8, <3>1, <3>2 DEF ChecksSoFar
    <3>. QED  BY <1>3, <1>4, <2>6, <3>3 DEF Lists
  <2>. QED  BY <2>1, <2>7, <2>8
<1>. QED  BY <1>5, <1>6

LEMMA ReadReviewsLists == IInv /\ Lists /\ ReadReviews => Lists'
<1>. SUFFICES ASSUME IInv, Lists, ReadReviews PROVE Lists'  OBVIOUS
<1>. DEFINE list == [i \in 1 .. reviewed |-> i]
            items == PageOf(list, page)
            k == (page - 1) * PageSize
<1>1. /\ UNCHANGED <<runs, superseded, reviewed, checks, total, atBind>>
      /\ pc = "reviews" /\ pc' \in {"reviews", "declaration"}
      /\ errors \subseteq {"files", "checks"}
  BY DEF ReadReviews, GiveUp, github, listing, history, IInv, Kept,
         ErrorsSoFar
<1>2. "checks" \notin errors' => "checks" \notin errors
  BY DEF ReadReviews, GiveUp
<1>3. Numbered' /\ Begun'
  BY <1>1 DEF Lists, Numbered, Begun, Bound
<1>4. ChecksSoFar' /\ ChecksCounted'
  BY <1>1, <1>2
  DEF Lists, ChecksSoFar, ChecksCounted, Bound, Consecutive
<1>5. /\ reviewed \in Nat /\ reviews \in Seq(Nat) /\ page \in Nat \ {0}
      /\ PageSize \in Nat \ {0} /\ atBind.reviews \in Nat
      /\ atBind.reviews <= reviewed
  BY <1>1, PageSizeType DEF IInv, TypeOK, Lists, Begun, Bound
<1>6. list \in Seq(Nat) /\ Len(list) = reviewed
      /\ \A i \in 1 .. reviewed : list[i] = i
  <2>1. list \in [1 .. reviewed -> Nat]  OBVIOUS
  <2>2. list \in Seq(Nat)  BY <1>5, <2>1, SeqDef
  <2>3. DOMAIN list = 1 .. reviewed  OBVIOUS
  <2>4. Len(list) \in Nat /\ DOMAIN list = 1 .. Len(list)
    BY <2>2, LenProperties
  <2>5. Len(list) = reviewed
    <3>. HIDE DEF list
    <3>. QED  BY <1>5, <2>3, <2>4
  <2>. QED  BY <2>2, <2>5
<1>. HIDE DEF list
<1>7. /\ Len(reviews) = k /\ k \in Nat /\ k <= reviewed
      /\ \A i \in 1 .. Len(reviews) : reviews[i] = i
      /\ page * PageSize = k + PageSize
  BY <1>1, <1>5 DEF Lists, ReviewsSoFar
<1>8. /\ items \in Seq(Nat) /\ Len(items) \in Nat
      /\ Len(items) = Smaller(PageSize, reviewed - k)
      /\ \A i \in 1 .. Len(items) : items[i] = list[k + i]
  <2>1. /\ items \in Seq(Nat)
        /\ Len(items) = Smaller(PageSize, Len(list) - k)
        /\ \A i \in 1 .. Len(items) : items[i] = list[k + i]
    BY <1>5, <1>6, <1>7, PageOfFacts
  <2>. HIDE DEF items, k
  <2>. QED  BY <1>6, <2>1, LenProperties
<1>. HIDE DEF items, k
<1>9. Len(items) <= PageSize /\ Len(items) <= reviewed - k
  BY <1>5, <1>7, <1>8, SmallerFacts
<1>10. /\ reviews \o items \in Seq(Nat)
       /\ Len(reviews \o items) = k + Len(items)
       /\ \A i \in 1 .. k + Len(items) : (reviews \o items)[i] = i
  <2>1. PrefixOf(reviews, list)
    BY <1>5, <1>6, <1>7 DEF PrefixOf
  <2>2. /\ PrefixOf(reviews \o items, list)
        /\ Len(reviews \o items) = k + Len(items)
    <3>1. /\ Len(reviews) + Len(items) <= Len(list)
          /\ \A i \in 1 .. Len(items) : items[i] = list[Len(reviews) + i]
      BY <1>5, <1>6, <1>7, <1>8, <1>9
    <3>2. /\ PrefixOf(reviews \o items, list)
          /\ Len(reviews \o items) = Len(reviews) + Len(items)
      BY <1>5, <1>6, <1>8, <2>1, <3>1, PrefixGrows
    <3>. QED  BY <1>7, <3>2
  <2>3. \A i \in 1 .. k + Len(items) : i \in 1 .. reviewed
    BY <1>5, <1>7, <1>8, <1>9
  <2>. QED
    BY <1>5, <1>6, <1>8, <2>2, <2>3, ConcatProperties DEF PrefixOf
<1>11. CASE "reviews" \in errors' /\ pc' = "declaration"
  <2>1. ReviewsSoFar'  BY <1>11 DEF ReviewsSoFar
  <2>. QED  BY <1>3, <1>4, <2>1 DEF Lists
<1>12. CASE ~("reviews" \in errors' /\ pc' = "declaration")
  <2>1. /\ reviews' = reviews \o items
        /\ \/ Len(items) < PageSize /\ pc' = "declaration"
           \/ /\ Len(items) = PageSize /\ ~(reviewed > page * PageSize)
              /\ pc' = "declaration"
           \/ /\ Len(items) = PageSize /\ page' = page + 1
              /\ pc' = "reviews"
    BY <1>1, <1>12 DEF ReadReviews, GiveUp, CutShort, items, list
  <2>2. CASE pc' = "declaration"
    <3>1. k + Len(items) = reviewed
      BY <1>5, <1>7, <1>8, <1>9, <2>1, <2>2 DEF Smaller
    <3>2. ASSUME NEW i \in 1 .. atBind.reviews
          PROVE  i \in Range(reviews')
      <4>1. i \in 1 .. k + Len(items)  BY <1>5, <3>1
      <4>2. DOMAIN reviews' = 1 .. k + Len(items)
        BY <1>10, <2>1, LenProperties
      <4>. QED  BY <1>10, <2>1, <4>1, <4>2 DEF Range
    <3>3. ReviewsSoFar'
      BY <1>1, <2>2, <3>2 DEF ReviewsSoFar, ReviewsDone
    <3>. QED  BY <1>3, <1>4, <3>3 DEF Lists
  <2>3. CASE pc' = "reviews"
    <3>1. Len(items) = PageSize /\ page' = page + 1
      BY <2>1, <2>3
    <3>2. /\ Len(reviews') = (page' - 1) * PageSize
          /\ Len(reviews') <= reviewed
      BY <1>5, <1>7, <1>9, <1>10, <2>1, <3>1
    <3>3. \A i \in 1 .. Len(reviews') : reviews'[i] = i
      BY <1>10, <2>1
    <3>4. ReviewsSoFar'
      BY <1>1, <2>3, <3>2, <3>3 DEF ReviewsSoFar
    <3>. QED  BY <1>3, <1>4, <3>4 DEF Lists
  <2>. QED  BY <2>1, <2>2, <2>3
<1>. QED  BY <1>11, <1>12

\* Afterwards nothing is received, and no error is taken back.
LEMMA LaterLists ==
    IInv /\ Lists /\ (ReadDeclaration \/ ReadBack \/ Judge) => Lists'
<1>. SUFFICES ASSUME IInv, Lists, ReadDeclaration \/ ReadBack \/ Judge
              PROVE  Lists'
  OBVIOUS
<1>1. /\ UNCHANGED <<runs, superseded, reviewed, checks, total, reviews, atBind>>
      /\ errors \subseteq errors'
      /\ pc \in {"declaration", "readback", "evaluate"}
      /\ pc' \in {"readback", "evaluate", "refused", "done"}
  BY DEF ReadDeclaration, ReadBack, Judge, github, listing, history
<1>. QED
  BY <1>1
  DEF Lists, Numbered, Begun, Bound, ChecksSoFar, ChecksCounted, Consecutive,
      ReviewsSoFar, ReviewsDone

-----------------------------------------------------------------------------
(* The scope of a decided receipt *)

\* What rules/v0 has accepted when it gives a verdict.
LEMMA EvaluateAdmits ==
    ASSUME NEW policy, NEW ev,
           Evaluate(policy, ev).verdict \in {"PASS", "FAIL"}
    PROVE  /\ policy.trust # "none"
           /\ ~CompileRefused(ParsedEntries(policy, ev.text))
           /\ ~PathsRefused(ev.changed.records)
<1>1. policy.known  BY DEF Evaluate, Indeterminate
<1>2. ProblemReasons(policy, ev) = {}
  BY <1>1 DEF Evaluate, Indeterminate
<1>3. DeclarationReasons(policy, ev) = {} /\ PathReasons(ev.changed) = {}
  BY <1>2 DEF ProblemReasons
<1>4. /\ ~MissingDeclaration(policy, ev.subject.base, ev.text, ev.bound)
      /\ ~AmbiguousDeclaration(policy, ev.text, ev.bound)
  BY <1>3 DEF DeclarationReasons
<1>5. ~CompileRefused(ParsedEntries(policy, ev.text))
  BY <1>4 DEF AmbiguousDeclaration, ParsedEntries
<1>. QED  BY <1>3, <1>4, <1>5 DEF MissingDeclaration, PathReasons

LEMMA JudgeAdmits == IInv /\ Judge => Admitted'
<1>. SUFFICES ASSUME IInv, Judge, pc' = "done", Decided'
              PROVE  DecidedScopeIsAdmissible'
  BY DEF Admitted, DecidedScopeIsAdmissible
<1>. DEFINE policy == request.policy
<1>1. /\ pc = "evaluate" /\ result' = Evaluate(policy, Evidence)
      /\ ~ConfigurationRefused(policy)
      /\ UNCHANGED <<request, pull, records>>
  BY DEF Judge, files
<1>2. /\ Evidence.text = text /\ Evidence.changed.records = records
      /\ Evidence.subject.base = pull.base
  BY DEF Evidence, Subject
<1>3. policy.source \in Sources /\ policy.trust \in Trusts
  BY RequestAssumption DEF IInv, TypeOK, Request, PolicyDocument
<1>. HIDE DEF policy
<1>4. Evaluate(policy, Evidence).verdict \in {"PASS", "FAIL"}
  BY <1>1 DEF Decided
<1>5. /\ policy.known /\ policy.trust # "none"
      /\ ~MissingDeclaration(policy, pull.base, text, Evidence.bound)
      /\ ~AmbiguousDeclaration(policy, text, Evidence.bound)
      /\ ~CompileRefused(ParsedEntries(policy, text))
      /\ ~PathsRefused(records)
  BY <1>2, <1>4, EvaluateDecides, EvaluateAdmits
<1>6. ParsedEntries(policy, text) =
         DeclaredScope(policy, pull.base, pull.body)
  BY <1>1, <1>5, AcceptedScope DEF policy
<1>7. policy.source = "pr_body_allowlist" /\ ~Inline(policy) =>
         policy.trust = "advisory"
  BY <1>1, <1>3, <1>5 DEF ConfigurationRefused, Trusts
<1>8. Touched(records) = ChangedPaths(records)
  BY TouchedIsChanged DEF IInv, TypeOK
<1>9. /\ ChangedPaths(records) \cap RefusedPaths = {}
      /\ \A pair \in Collisions : ~(pair \subseteq ChangedPaths(records))
  BY <1>5, <1>8 DEF PathsRefused
<1>10. /\ DeclaredScope(policy, pull.base, pull.body) # {}
       /\ DeclaredScope(policy, pull.base, pull.body) \cap RefusedEntries = {}
  BY <1>5, <1>6 DEF CompileRefused
<1>11. /\ request'.policy = policy /\ pull'.base = pull.base
       /\ pull'.body = pull.body /\ records' = records
  BY <1>1 DEF policy
<1>. QED
  BY <1>5, <1>7, <1>9, <1>10, <1>11 DEF DecidedScopeIsAdmissible

LEMMA AdmittedKept ==
    IInv /\ Admitted /\ (Environment \/ UNCHANGED vars) => Admitted'
<1>1. Environment => pc # "done" /\ pc' = pc
  BY DEF Environment, Push, Retarget, EditBody, AddRun, Supersede, AddReview, Reading
<1>2. UNCHANGED vars => (Admitted => Admitted')
  BY DEF vars, files, Admitted, DecidedScopeIsAdmissible, Decided
<1>. QED  BY <1>1, <1>2 DEF Admitted

LEMMA ListsStep == IInv /\ Lists /\ Admitted /\ [Next]_vars => Lists' /\ Admitted'
<1>. SUFFICES ASSUME IInv, Lists, Admitted, [Next]_vars
              PROVE  Lists' /\ Admitted'
  OBVIOUS
<1>1. Lists'
  <2>1. CASE UNCHANGED vars
    BY <2>1
    DEF vars, github, listing, history, Lists, Numbered, Begun, Bound,
        ChecksSoFar, ChecksCounted, Consecutive, PrefixOf, ReviewsSoFar,
        ReviewsDone
  <2>2. CASE Next
    BY <2>2, EnvironmentLists, ReadPullLists, ReadFilesLists,
       ReadChecksLists, ReadReviewsLists, LaterLists DEF Next, Command
  <2>. QED  BY <2>1, <2>2
<1>2. Admitted'
  <2>1. CASE Judge  BY <2>1, JudgeAdmits
  <2>2. CASE \/ ReadPull \/ ReadFiles \/ ReadChecks \/ ReadReviews
             \/ ReadDeclaration \/ ReadBack
    <3>1. pc' # "done"
      BY <2>2 DEF ReadPull, ReadFiles, ReadChecks, ReadReviews,
                  ReadDeclaration, ReadBack, GiveUp
    <3>. QED  BY <3>1 DEF Admitted
  <2>3. CASE Environment \/ UNCHANGED vars  BY <2>3, AdmittedKept
  <2>. QED  BY <2>1, <2>2, <2>3 DEF Next, Command
<1>. QED  BY <1>1, <1>2

\* What is received in pages is kept track of in every behaviour.
THEOREM ListsInductive == SafetySpec => [](IInv /\ Lists /\ Admitted)
<1>1. Init => Lists /\ Admitted  BY InitLists
<1>2. SafetySpec => []IInv  BY Inductive
<1>. QED  BY <1>1, <1>2, ListsStep, PTL DEF SafetySpec

\* A list of different numbers, as many as `n`, of the first n + m misses at
\* most m of the first n.
LEMMA MissingAreFew ==
    ASSUME NEW list \in Seq(Nat), IsInjective(list), NEW m \in Nat,
           NEW a \in Nat, a <= Len(list),
           Range(list) \subseteq 1 .. Len(list) + m
    PROVE  Cardinality((1 .. a) \ Range(list)) <= m
<1>. DEFINE n == Len(list)
            R == Range(list)
            all == 1 .. n + m
            missing == all \ R
<1>1. n \in Nat /\ DOMAIN list = 1 .. n  BY LenProperties
<1>2. /\ IsFiniteSet(1 .. n) /\ Cardinality(1 .. n) = n
      /\ IsFiniteSet(all) /\ Cardinality(all) = n + m
  <2>1. \A k \in Nat : IsFiniteSet(1 .. k) /\ Cardinality(1 .. k) = k
    <3>. TAKE k \in Nat
    <3>1. /\ IsFiniteSet(1 .. k)
          /\ Cardinality(1 .. k) = IF 1 > k THEN 0 ELSE k - 1 + 1
      BY FS_Interval
    <3>. QED  BY <3>1
  <2>. QED  BY <1>1, <2>1
<1>3. IsFiniteSet(R) /\ Cardinality(R) = n  BY CountedRange
<1>4. IsFiniteSet(missing)  BY <1>2, FS_Subset
<1>5. /\ missing \cup R = all /\ missing \cap R = {}
      /\ (1 .. a) \ R \subseteq missing
  BY <1>1
<1>. HIDE DEF n, R, all, missing
<1>6. Cardinality(missing \cap R) = 0  BY <1>5, FS_EmptySet
<1>7. /\ Cardinality(missing) \in Nat
      /\ Cardinality(all) = Cardinality(missing) + Cardinality(R)
                               - Cardinality(missing \cap R)
  BY <1>3, <1>4, <1>5, FS_Union, FS_CardinalityType
<1>8. Cardinality(missing) = m  BY <1>1, <1>2, <1>3, <1>6, <1>7
<1>9. Cardinality((1 .. a) \ R) <= Cardinality(missing)
  BY <1>4, <1>5, FS_Subset
<1>. QED  BY <1>8, <1>9 DEF R

\* A decided receipt misses no more of the check runs there were when the head
\* was read than newer runs have replaced since; with none replaced it lists
\* those of one instant, without a gap, however many are created meanwhile.
THEOREM ChecksAreAccountedForAlways == SafetySpec => []ChecksAreAccountedFor
<1>1. IInv /\ Lists => ChecksAreAccountedFor
  <2>. SUFFICES ASSUME IInv, Lists, Decided
                PROVE  /\ Cardinality((1 .. atBind.runs) \ Range(checks))
                             <= superseded
                       /\ superseded = 0 =>
                             \E i \in 1 .. Len(runs) + 1 :
                                checks = SubSeq(runs, i, i + Len(checks) - 1)
    BY DEF ChecksAreAccountedFor
  <2>1. pc = "done" /\ errors = {}
    BY DEF IInv, Kept, Judged, PartialNeverDecides, Decided, NoResult
  <2>2. /\ Len(runs) \in Nat /\ Len(checks) \in Nat
        /\ runs \in Seq(Nat) /\ checks \in Seq(Nat)
        /\ superseded \in Nat /\ atBind.runs \in Nat
    BY LenProperties DEF IInv, TypeOK
  <2>3. Cardinality((1 .. atBind.runs) \ Range(checks)) <= superseded
    <3>1. /\ IsInjective(checks) /\ atBind.runs <= Len(checks)
          /\ Range(checks) \subseteq 1 .. Len(checks) + superseded
      BY <2>1 DEF Lists, ChecksCounted, Bound
    <3>. QED  BY <2>2, <3>1, MissingAreFew
  <2>4. ASSUME superseded = 0
        PROVE  \E i \in 1 .. Len(runs) + 1 :
                  checks = SubSeq(runs, i, i + Len(checks) - 1)
    <3>1. PICK k \in 0 .. Len(runs) :
             /\ k + Len(checks) <= Len(runs)
             /\ \A j \in 1 .. Len(checks) : checks[j] = runs[k + j]
      BY <2>1, <2>4 DEF Lists, ChecksSoFar, Bound, Consecutive
    <3>. DEFINE i == k + 1
                n == i + Len(checks) - 1
    <3>2. i \in 1 .. Len(runs) + 1 /\ n \in Nat /\ n <= Len(runs)
          /\ n - i + 1 = Len(checks)
      BY <2>2, <3>1
    <3>3. i \in Int /\ n \in Int /\ \A j \in i .. n : runs[j] \in Nat
      BY <2>2, <3>2, ElementOfSeq
    <3>4. \A j \in 1 .. Len(checks) : i + j - 1 = k + j
      BY <2>2
    <3>. HIDE DEF i, n
    <3>5. /\ SubSeq(runs, i, n) \in Seq(Nat)
          /\ Len(SubSeq(runs, i, n)) = IF i <= n THEN n - i + 1 ELSE 0
          /\ \A j \in 1 .. n - i + 1 : SubSeq(runs, i, n)[j] = runs[i + j - 1]
      BY <3>2, <3>3, SubSeqProperties
    <3>6. Len(SubSeq(runs, i, n)) = Len(checks)
      BY <2>2, <3>2, <3>5
    <3>7. \A j \in 1 .. Len(checks) : checks[j] = SubSeq(runs, i, n)[j]
      BY <3>1, <3>2, <3>4, <3>5
    <3>8. checks = SubSeq(runs, i, n)
      BY <2>2, <3>5, <3>6, <3>7, SeqEqual
    <3>. QED  BY <3>2, <3>8 DEF n
  <2>. QED  BY <2>3, <2>4
<1>. QED  BY <1>1, ListsInductive, PTL

\* A decided receipt misses no review submitted before the head was read, up
\* to the page ceiling and beyond it.
THEOREM ReviewsAreCompleteAlways == SafetySpec => []ReviewsAreComplete
<1>1. IInv /\ Lists => ReviewsAreComplete
  BY DEF IInv, Kept, Judged, PartialNeverDecides, Decided, NoResult, Lists,
         ReviewsSoFar, ReviewsDone, Bound, ReviewsAreComplete
<1>. QED  BY <1>1, ListsInductive, PTL

\* No verdict is given for a scope nobody may declare or the grammar refuses,
\* nor over paths that cannot be matched, whatever policy is asked for.
THEOREM DecidedScopeIsAdmissibleAlways ==
    SafetySpec => []DecidedScopeIsAdmissible
<1>1. IInv /\ Admitted => DecidedScopeIsAdmissible
  BY DEF IInv, Kept, Judged, Admitted, DecidedScopeIsAdmissible, Decided,
         NoResult
<1>. QED  BY <1>1, ListsInductive, PTL

-----------------------------------------------------------------------------
(* The safe part of Terminates *)

\* How many more steps the command can take: a listing of files is used up by
\* its records, one of check runs or reviews by its pages.
Remaining ==
    CASE pc = "pull" -> Ceiling + 2 * PageCeiling + 5
      [] pc = "files" -> Ceiling - Len(records) + 2 * PageCeiling + 4
      [] pc = "checks" -> PageCeiling - page + PageCeiling + 4
      [] pc = "reviews" -> PageCeiling - page + 4
      [] pc = "declaration" -> 3
      [] pc = "readback" -> 2
      [] pc = "evaluate" -> 1
      [] pc \in {"done", "refused", "unavailable"} -> 0

Descends ==
    /\ Remaining \in Nat
    /\ Command => Remaining' < Remaining
    /\ Environment => Remaining' = Remaining

\* The loops end at the ceiling.
WithinCeiling ==
    /\ pc = "files" => Len(records) < Ceiling
    /\ pc \in {"checks", "reviews"} => page <= PageCeiling

LEMMA PageCeilingType == PageCeiling \in Nat /\ PageCeiling >= 1
<1>1. PageSize \in Nat \ {0} /\ Ceiling \in Nat \ {0} /\ PageSize <= Ceiling
  BY PageSizeType, FirstPageAssumption
<1>. QED  BY <1>1 DEF PageCeiling

\* Where a step of the command leads, and with which page.
LEMMA CommandEffect ==
    ASSUME IInv, Command
    PROVE  \/ /\ pc = "pull" /\ page' = 1
              /\ pc' \in {"files", "unavailable"} /\ records' = <<>>
           \/ pc = "files" /\ pc' = "checks" /\ page' = 1
           \/ /\ pc = "files" /\ pc' = "files" /\ Len(records') < Ceiling
              /\ Len(records) < Len(records')
           \/ pc = "checks" /\ pc' = "reviews" /\ page' = 1
           \/ pc = "checks" /\ pc' = "checks" /\ page' = page + 1
              /\ page # PageCeiling
           \/ pc = "reviews" /\ pc' = "declaration"
           \/ pc = "reviews" /\ pc' = "reviews" /\ page' = page + 1
              /\ page < PageCeiling
           \/ pc = "declaration" /\ pc' = "readback"
           \/ pc = "readback" /\ pc' = "evaluate"
           \/ pc = "evaluate" /\ pc' \in {"done", "refused"}
<1>1. CASE ReadPull
  BY <1>1 DEF ReadPull, IInv, Kept, Untouched, files
<1>2. CASE ReadFiles
  <2>. DEFINE items == PageOf(Files[pr.head][pr.base], page)
              n == Ceiling - Len(records)
              taken == FirstOf(items, n)
  <2>1. pc = "files"  BY <1>2 DEF ReadFiles
  <2>2. CASE pc' = "checks" /\ page' = 1
    BY <2>1, <2>2
  <2>3. CASE ~(pc' = "checks" /\ page' = 1)
    <3>1. /\ records' = records \o taken
          /\ ~(Len(records') >= Ceiling \/ Len(items) < PageSize)
          /\ pc' = pc
      BY <1>2, <2>3 DEF ReadFiles, GiveUp
    <3>2. /\ PageSize \in Nat \ {0} /\ Ceiling \in Nat
          /\ records \in Seq(FileRecord) /\ Len(records) \in Nat
          /\ n \in Nat
      BY PageSizeType, LenProperties DEF IInv, TypeOK
    <3>3. items \in Seq(FileRecord) /\ Len(items) \in Nat
      BY PageOfFacts, FilesAssumption, LenProperties DEF IInv, TypeOK
    <3>. HIDE DEF items, n
    <3>4. /\ taken \in Seq(FileRecord) /\ Len(taken) \in Nat
          /\ Len(taken) = Smaller(n, Len(items))
      BY <3>2, <3>3, FirstOfFacts, LenProperties
    <3>. HIDE DEF taken
    <3>5. Len(records') = Len(records) + Len(taken)
      BY <3>1, <3>2, <3>4, ConcatProperties
    <3>6. Len(items) >= PageSize /\ Len(records') < Ceiling
      BY <3>1, <3>2, <3>3, <3>4, <3>5
    <3>7. Len(taken) > 0
      BY <3>2, <3>3, <3>4, <3>5, <3>6 DEF Smaller, n
    <3>8. Len(records) < Len(records')
      BY <3>2, <3>4, <3>5, <3>7
    <3>. QED  BY <2>1, <3>1, <3>6, <3>8
  <2>. QED  BY <2>2, <2>3
<1>3. CASE ReadChecks
  BY <1>3 DEF ReadChecks, GiveUp
<1>4. CASE ReadReviews
  BY <1>4 DEF ReadReviews, GiveUp
<1>5. CASE ReadDeclaration  BY <1>5 DEF ReadDeclaration
<1>6. CASE ReadBack  BY <1>6 DEF ReadBack
<1>7. CASE Judge  BY <1>7 DEF Judge
<1>. QED
  BY <1>1, <1>2, <1>3, <1>4, <1>5, <1>6, <1>7 DEF Command

LEMMA InitWithin == Init => WithinCeiling
BY DEF Init, WithinCeiling

LEMMA EnvironmentEffect == Environment => UNCHANGED <<pc, page, records>>
BY DEF Environment, Push, Retarget, EditBody, AddRun, Supersede, AddReview, files

LEMMA WithinStep == IInv /\ WithinCeiling /\ [Next]_vars => WithinCeiling'
<1>. SUFFICES ASSUME IInv, WithinCeiling, [Next]_vars PROVE WithinCeiling'
  OBVIOUS
<1>1. /\ PageCeiling \in Nat /\ PageCeiling >= 1 /\ page \in Nat \ {0}
      /\ Ceiling \in Nat \ {0}
  BY PageCeilingType, PageSizeType DEF IInv, TypeOK
<1>2. CASE Command
  <2>1. pc = "pull" => Len(records') < Ceiling \/ pc' = "unavailable"
    BY <1>1, <1>2, CommandEffect, EmptySeq
  <2>. QED  BY <1>1, <1>2, <2>1, CommandEffect DEF WithinCeiling
<1>3. CASE Environment
  BY <1>3, EnvironmentEffect DEF WithinCeiling
<1>4. CASE UNCHANGED vars
  BY <1>4 DEF vars, files, WithinCeiling
<1>. QED  BY <1>2, <1>3, <1>4 DEF Next

LEMMA RemainingType == IInv /\ WithinCeiling => Remaining \in Nat
<1>. SUFFICES ASSUME IInv, WithinCeiling PROVE Remaining \in Nat  OBVIOUS
<1>1. /\ PageCeiling \in Nat /\ page \in Nat /\ Ceiling \in Nat
      /\ Len(records) \in Nat
  BY PageCeilingType, PageSizeType, LenProperties DEF IInv, TypeOK
<1>2. pc \in {"pull", "files", "checks", "reviews", "declaration",
              "readback", "evaluate", "done", "refused", "unavailable"}
  BY DEF IInv, TypeOK
<1>3. CASE pc = "pull"  BY <1>1, <1>3 DEF Remaining
<1>4. CASE pc = "files"
  <2>1. Remaining = Ceiling - Len(records) + 2 * PageCeiling + 4
    BY <1>4 DEF Remaining
  <2>2. Len(records) < Ceiling  BY <1>4 DEF WithinCeiling
  <2>. QED  BY <1>1, <2>1, <2>2
<1>5. CASE pc \in {"checks", "reviews"}
  <2>1. Remaining = PageCeiling - page + PageCeiling + 4
           \/ Remaining = PageCeiling - page + 4
    BY <1>5 DEF Remaining
  <2>2. page <= PageCeiling  BY <1>5 DEF WithinCeiling
  <2>. QED  BY <1>1, <2>1, <2>2
<1>6. CASE pc \in {"declaration", "readback", "evaluate", "done", "refused",
                   "unavailable"}
  BY <1>6 DEF Remaining
<1>. QED  BY <1>2, <1>3, <1>4, <1>5, <1>6

LEMMA CommandDescends ==
    IInv /\ IInv' /\ WithinCeiling /\ Command => Remaining' < Remaining
<1>. SUFFICES ASSUME IInv, IInv', WithinCeiling, Command
              PROVE  Remaining' < Remaining
  OBVIOUS
<1>1. /\ PageCeiling \in Nat /\ page \in Nat /\ Ceiling \in Nat
      /\ Len(records) \in Nat /\ Len(records') \in Nat
      /\ Len(records) <= Ceiling
  BY PageCeilingType, PageSizeType, LenProperties DEF IInv, TypeOK
<1>2. CASE pc = "pull" \/ pc = "files"
  <2>1. \/ pc = "pull" /\ pc' \in {"files", "unavailable"}
        \/ pc = "files" /\ pc' = "checks" /\ page' = 1
        \/ pc = "files" /\ pc' = "files" /\ Len(records) < Len(records')
    BY <1>2, CommandEffect
  <2>2. CASE pc = "pull" /\ pc' \in {"files", "unavailable"}
    BY <1>1, <2>2 DEF Remaining
  <2>3. CASE pc = "files" /\ pc' = "checks" /\ page' = 1
    BY <1>1, <2>3 DEF Remaining
  <2>4. CASE pc = "files" /\ pc' = "files" /\ Len(records) < Len(records')
    BY <1>1, <2>4 DEF Remaining
  <2>. QED  BY <2>1, <2>2, <2>3, <2>4
<1>3. CASE pc = "checks" \/ pc = "reviews"
  <2>1. \/ pc = "checks" /\ pc' = "reviews" /\ page' = 1
        \/ pc = "checks" /\ pc' = "checks" /\ page' = page + 1
        \/ pc = "reviews" /\ pc' = "declaration"
        \/ pc = "reviews" /\ pc' = "reviews" /\ page' = page + 1
    BY <1>3, CommandEffect
  <2>2. page <= PageCeiling  BY <1>3 DEF WithinCeiling
  <2>. QED  BY <1>1, <2>1, <2>2 DEF Remaining
<1>4. CASE pc \notin {"pull", "files", "checks", "reviews"}
  <2>1. \/ pc = "declaration" /\ pc' = "readback"
        \/ pc = "readback" /\ pc' = "evaluate"
        \/ pc = "evaluate" /\ pc' \in {"done", "refused"}
    BY <1>4, CommandEffect
  <2>. QED  BY <2>1 DEF Remaining
<1>. QED  BY <1>2, <1>3, <1>4

\* collect_evidence cannot read for ever: every step of the command is one of a
\* number that is fixed when it starts, and nothing that is pushed, created or
\* submitted while it reads adds to them.  A listing of files that only grows
\* is used up by the records taken, one that shrinks ends at a short page.
THEOREM CommandIsBounded == SafetySpec => [][Descends]_vars
<1>1. SafetySpec => []WithinCeiling
  BY InitWithin, WithinStep, Inductive, PTL DEF SafetySpec
<1>2. IInv /\ IInv' /\ WithinCeiling /\ [Next]_vars => [Descends]_vars
  <2>1. Environment => Remaining' = Remaining
    BY EnvironmentEffect DEF Remaining
  <2>. QED
    BY <2>1, RemainingType, CommandDescends DEF Descends
<1>. QED  BY <1>1, <1>2, Inductive, PTL DEF SafetySpec
=============================================================================
