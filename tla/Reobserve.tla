----------------------------- MODULE Reobserve -----------------------------
(***************************************************************************)
(* `proof-check verify` without a bundle: reobserve_pull_request of        *)
(* src/proof_check/github_read.py reads the head, the number of files and  *)
(* the check runs of the pull request a receipt names, and                 *)
(* _online_differences of src/proof_check/cli.py says what has changed     *)
(* since the receipt was written.  Branch, base and check runs change      *)
(* between any two requests, and every request may fail.                   *)
(*                                                                         *)
(* A check run is its id and whether it has concluded; a pull request is   *)
(* its head and its base.  What verify prints here has no influence on its *)
(* exit status, which the receipt alone decides: that part is module       *)
(* Receipts.                                                               *)
(***************************************************************************)
EXTENDS Paging, FiniteSets

CONSTANTS
    Heads,         \* head commits the branch may point to
    Bases,         \* base commits it may be compared with
    FileCount,     \* FileCount[h][b]: number of files that differ
    PageCeiling,   \* _PAGE_CEILING, 30 in the code
    Started,       \* numbers of check runs a head may have at the start
    MaxRuns,       \* MaxRuns[h]: bound on the ids of the check runs of h
    NoSha,         \* no head commit
    NoCount        \* no number of files

ASSUME CountAssumption == FileCount \in [Heads -> [Bases -> Nat]]

ASSUME NoneAssumption == NoSha \notin Heads /\ NoCount \notin Nat

ASSUME CeilingAssumption == PageCeiling \in Nat \ {0}

ASSUME BoundAssumption == MaxRuns \in [Heads -> Nat]

ASSUME StartAssumption == Started \subseteq Nat

VARIABLES
    \* GitHub
    pull,          \* the pull request now: [head, base]
    runs,          \* runs[h]: the check runs of h, in listing order
    superseded,    \* superseded[h]: how many of h are listed no more
    \* the receipt
    recorded,      \* what it says: [head, count, checks]
    \* the command
    pc,            \* the request it makes next
    head,          \* the head it reports
    count,         \* the number of files it reports
    page, checks, total, errors,
    lines,         \* the differences it prints
    \* history, read by the properties only
    read,          \* the heads GitHub has answered
    listed         \* the ids listed at the first page of the check runs

checkRuns == <<runs, superseded>>
github == <<pull, checkRuns>>
listing == <<page, checks, total>>
command == <<recorded, pc, head, count, listing, errors, lines, read, listed>>
vars == <<github, command>>

-----------------------------------------------------------------------------
(* Seeded faults: wrong versions of definitions below, used by no behaviour *)

FaultNoCeiling(items) == Len(items) < PageSize \/ Len(checks') >= total'

FaultForget(codes) ==
    /\ pc' = "readback"
    /\ UNCHANGED <<errors, page>>

FaultForever(codes) ==
    /\ errors' = errors \cup codes
    /\ UNCHANGED <<page, pc>>

FaultKeepHead(h) == UNCHANGED <<head, errors>>

-----------------------------------------------------------------------------
(* Documents *)

CheckRun == [id: Nat, done: BOOLEAN]

Ids(list) == [i \in 1 .. Len(list) |-> list[i].id]

Lines == {"REOBSERVATION_UNAVAILABLE", "COORDINATE_DRIFT", "HEAD_MOVED",
          "FILE_COUNT_CHANGED", "CHECKS_CHANGED", "NO_REOBSERVED_DIFFERENCES"}

Codes == {"COORDINATES_UNAVAILABLE", "CHECK_RUNS_FAILED", "COORDINATE_DRIFT",
          "HEAD_READBACK_FAILED"}

Pending(n) == [i \in 1 .. n |-> [id |-> i, done |-> FALSE]]

\* The receipt was written when the model starts: its check runs are those
\* listed then, or the first of them if their collection failed.
Init ==
    /\ pull \in [head: Heads, base: Bases]
    /\ runs \in [Heads -> {Pending(n) : n \in Started}]
    /\ superseded = [h \in Heads |-> 0]
    /\ \E k \in 0 .. Len(runs[pull.head]) :
          recorded = [head |-> pull.head,
                      count |-> FileCount[pull.head][pull.base],
                      checks |-> Range(FirstOf(runs[pull.head], k))]
    /\ pc = "pull"
    /\ head = NoSha /\ count = NoCount
    /\ page = 1 /\ checks = <<>> /\ total = 0
    /\ errors = {}
    /\ lines = {}
    /\ read = <<>>
    /\ listed = {}

-----------------------------------------------------------------------------
(* GitHub *)

\* What changes after the last request is not looked at.
Reading == pc \in {"pull", "checks", "readback"}

Push(h) ==
    /\ Reading
    /\ h # pull.head
    /\ pull' = [pull EXCEPT !.head = h]
    /\ UNCHANGED <<checkRuns, command>>

Retarget(b) ==
    /\ Reading
    /\ b # pull.base
    /\ pull' = [pull EXCEPT !.base = b]
    /\ UNCHANGED <<checkRuns, command>>

\* A check run is created and joins `list`, which is what remains listed of h;
\* its place in the listing is GitHub's choice.
Created(h, list) ==
    LET id == Len(runs[h]) + superseded[h] + 1
        new == [id |-> id, done |-> FALSE]
    IN  /\ id <= MaxRuns[h]
        /\ \E later \in {<<new>> \o list, list \o <<new>>} :
              runs' = [runs EXCEPT ![h] = later]

AddRun(h) ==
    /\ Reading
    /\ Created(h, runs[h])
    /\ UNCHANGED <<pull, superseded, command>>

\* A check is run again: the request names no filter, so that GitHub lists
\* the latest run of each check, and the new one takes the old one's place.
Supersede(h, i) ==
    /\ Reading
    /\ Created(h, Without(runs[h], i))
    /\ superseded' = [superseded EXCEPT ![h] = @ + 1]
    /\ UNCHANGED <<pull, command>>

Conclude(h, i) ==
    /\ Reading
    /\ ~runs[h][i].done
    /\ runs' = [runs EXCEPT ![h][i].done = TRUE]
    /\ UNCHANGED <<pull, superseded, command>>

Environment ==
    \/ \E h \in Heads : Push(h)
    \/ \E b \in Bases : Retarget(b)
    \/ \E h \in Heads : AddRun(h)
    \/ \E h \in Heads : \E i \in 1 .. Len(runs[h]) :
          Supersede(h, i) \/ Conclude(h, i)

-----------------------------------------------------------------------------
(* The command *)

ReadPull ==
    /\ pc = "pull"
    /\ \/ /\ head' = pull.head
          /\ count' = FileCount[pull.head][pull.base]
          /\ read' = <<pull.head>>
          /\ pc' = "checks"
          /\ UNCHANGED errors
       \/ /\ errors' = {"COORDINATES_UNAVAILABLE"}
          /\ pc' = "print"
          /\ UNCHANGED <<head, count, read>>
    /\ UNCHANGED <<github, recorded, listing, lines, listed>>

\* The listing of the check runs is over: with `codes` if it failed.
GiveUp(codes) ==
    /\ errors' = errors \cup codes
    /\ pc' = "readback"
    /\ UNCHANGED page

LastPage(items) ==
    \/ Len(items) < PageSize
    \/ Len(checks') >= total'
    \/ page = PageCeiling

\* One page of commits/SHA/check-runs for the head first read.  total_count is
\* pinned by the first page; a page that reports another is an error.
ReadChecks ==
    /\ pc = "checks"
    /\ listed' = IF page = 1 THEN Range(Ids(runs[head])) ELSE listed
    /\ LET items == PageOf(runs[head], page)
       IN  \/ /\ total' = IF page = 1 THEN Len(runs[head]) ELSE total
              /\ Len(runs[head]) = total'
              /\ NoRepeat(Ids(checks), Ids(items))
              /\ checks' = checks \o items
              /\ IF LastPage(items)
                 THEN GiveUp(IF Len(checks') = total'
                             THEN {} ELSE {"CHECK_RUNS_FAILED"})
                 ELSE page' = page + 1 /\ UNCHANGED <<errors, pc>>
           \/ \E k \in KeptBeforeFailure(Len(items)) :
                 /\ NoRepeat(Ids(checks), Ids(FirstOf(items, k)))
                 /\ checks' = checks \o FirstOf(items, k)
                 /\ UNCHANGED total
                 /\ GiveUp({"CHECK_RUNS_FAILED"})
    /\ UNCHANGED <<github, recorded, head, count, lines, read>>

\* The head is read again; the report is about the one read last.
Settle(h) ==
    /\ head' = h
    /\ errors' = IF h = head THEN errors ELSE errors \cup {"COORDINATE_DRIFT"}

ReadBack ==
    /\ pc = "readback"
    /\ \/ Settle(pull.head) /\ read' = Append(read, pull.head)
       \/ /\ errors' = errors \cup {"HEAD_READBACK_FAILED"}
          /\ UNCHANGED <<head, read>>
    /\ pc' = "print"
    /\ UNCHANGED <<github, recorded, count, listing, lines, listed>>

\* Check runs are compared in the order of their ids: as sets.
Compared(list) == Range(list)

Differences ==
    (IF errors \ {"COORDINATE_DRIFT"} # {}
     THEN {"REOBSERVATION_UNAVAILABLE"} ELSE {})
    \cup (errors \cap {"COORDINATE_DRIFT"})
    \cup (IF head \notin {NoSha, recorded.head} THEN {"HEAD_MOVED"} ELSE {})
    \cup (IF count \notin {NoCount, recorded.count}
          THEN {"FILE_COUNT_CHANGED"} ELSE {})
    \cup (IF Compared(checks) # recorded.checks THEN {"CHECKS_CHANGED"} ELSE {})

\* _online_differences
PrintLines ==
    /\ pc = "print"
    /\ lines' = IF Differences = {} THEN {"NO_REOBSERVED_DIFFERENCES"}
                                    ELSE Differences
    /\ pc' = "done"
    /\ UNCHANGED <<github, recorded, head, count, listing, errors, read,
                   listed>>

Command == ReadPull \/ ReadChecks \/ ReadBack \/ PrintLines

Next == Environment \/ Command

SafetySpec == Init /\ [][Next]_vars

\* The command makes one request after the other, each with a time-out.
Spec == SafetySpec /\ WF_vars(Command)

-----------------------------------------------------------------------------
(* Properties *)

\* Type invariant: no check run is reported twice, and the listing stays
\* within its pages.
TypeOK ==
    /\ pull \in [head: Heads, base: Bases]
    /\ runs \in [Heads -> Seq(CheckRun)]
    /\ superseded \in [Heads -> Nat]
    /\ recorded \in [head: Heads, count: Nat, checks: SUBSET CheckRun]
    /\ pc \in {"pull", "checks", "readback", "print", "done"}
    /\ head \in Heads \cup {NoSha}
    /\ count \in Nat \cup {NoCount}
    /\ page \in 1 .. PageCeiling
    /\ checks \in Seq(CheckRun) /\ IsInjective(Ids(checks))
    /\ total \in Nat
    /\ errors \subseteq Codes
    /\ lines \subseteq Lines
    /\ read \in Seq(Heads)
    /\ listed \subseteq Nat

\* NO_REOBSERVED_DIFFERENCES is printed only if the branch was at the recorded
\* head at the first and at the last read, and the recorded check runs are all
\* that the head had when their listing began: never after a failed request,
\* a listing cut short, or a listing of another head.
NoDifferenceIsTrue ==
    "NO_REOBSERVED_DIFFERENCES" \in lines =>
        /\ lines = {"NO_REOBSERVED_DIFFERENCES"}
        /\ read = <<recorded.head, recorded.head>>
        /\ {c.id : c \in recorded.checks} = listed

\* Without REOBSERVATION_UNAVAILABLE a reported difference is one: CHECKS_CHANGED
\* for an unmoved head means that its check runs are not the recorded ones, and
\* a head that moved away or back while it was read is reported as drift, so
\* two heads are never compared as one.
DifferencesAreReal ==
    (lines # {} /\ "REOBSERVATION_UNAVAILABLE" \notin lines) =>
        /\ "CHECKS_CHANGED" \in lines =>
              \/ Range(runs[recorded.head]) # recorded.checks
              \/ lines \cap {"COORDINATE_DRIFT", "HEAD_MOVED"} # {}
        /\ "HEAD_MOVED" \in lines => read[2] # recorded.head
        /\ read[1] # read[2] => "COORDINATE_DRIFT" \in lines

\* The command ends, however the listing grows while it is read.
Terminates == <>(pc = "done")
=============================================================================
