---------------------------- MODULE SourceCommit ----------------------------
(***************************************************************************)
(* resolve_source_commit of src/proof_check/cli.py: the commit `check`      *)
(* writes into a receipt as the source of the tool.  The command compares   *)
(* every file it consists of with what `git show HEAD:file` prints, one     *)
(* process after the other, while the checkout it was installed from, or    *)
(* runs in, may be edited or moved to another commit.  What runs was        *)
(* loaded before: modules at start, the policy schema when the policy was   *)
(* validated; the receipt schema is loaded afterwards, by build_receipt.    *)
(*                                                                         *)
(* Contents stand for bytes.  Not modelled: the parameter of main that      *)
(* overrides the commit, used by tests only, and an installation from a     *)
(* VCS URL, which _configure_contract_schema_dir refuses, as the            *)
(* distribution does not hold the schemas.                                  *)
(***************************************************************************)
EXTENDS Integers, Sequences

CONSTANTS
    Commits,       \* commits HEAD may point to
    Modules,       \* the package's *.py files
    Contents,      \* what a file may hold
    Tree,          \* Tree[c][f]: the content of f in commit c
    Order,         \* the order in which the files are compared
    NoContent,     \* nothing read
    NoCommit,      \* None
    MaxChanges     \* bound on the changes of the checkout

PolicySchema == "policy"
ReceiptSchema == "receipt"
Files == Modules \cup {PolicySchema, ReceiptSchema}

ASSUME TreeAssumption == Tree \in [Commits -> [Files -> Contents]]

ASSUME NoneAssumption == NoContent \notin Contents /\ NoCommit \notin Commits

ASSUME OrderAssumption ==
    /\ Order \in Seq(Files)
    /\ \A f \in Files : \E k \in DOMAIN Order : Order[k] = f

ASSUME BoundAssumption == MaxChanges \in Nat

VARIABLES
    \* the checkout
    head,          \* HEAD
    disk,          \* disk[f]: the content of f in the working tree
    changes,       \* how often it was changed
    \* the command
    mode,          \* how the package was installed
    copy,          \* copy[f]: the module f in site-packages
    loaded,        \* loaded[f]: what runs
    pc, round,
    commit,        \* what rev-parse HEAD printed in this round
    next,          \* index in Order of the file compared next
    shown,         \* what git show printed for it
    recorded,      \* the commit resolve_source_commit returned
    failed,        \* a git process failed by itself
    \* history, read by the properties only
    moved,         \* HEAD changed since rev-parse
    written,       \* files written since they were loaded or compared
    late           \* files of which two moments were compared

checkout == <<head, disk, changes>>
history == <<moved, written, late>>
vars == <<checkout, mode, copy, loaded, pc, round, commit, next, shown,
          recorded, failed, history>>

-----------------------------------------------------------------------------
(* Seeded faults: wrong versions of definitions below, used by no behaviour *)

FaultInstalledSchema(f) == IF mode = "copy" THEN copy[f] ELSE disk[f]

FaultAnywhere(f) == TRUE

FaultZeroBased(ok) ==
    /\ next' = IF ok THEN next + 1 ELSE 0
    /\ pc' = IF ~ok THEN "reject"
             ELSE IF next = Len(Order) THEN "accept" ELSE "show"

-----------------------------------------------------------------------------
(* Installations *)

\* copy: pip install of a checkout.  editable: the package runs in the
\* checkout and direct_url.json names it.  place: it runs there without a
\* distribution.  foreign: in site-packages inside another repository.
Modes == {"copy", "editable", "place", "foreign"}

\* The copy is of the working tree as it was when pip ran: any content.
Init ==
    /\ head \in Commits /\ disk \in [Files -> Contents] /\ changes = 0
    /\ mode \in Modes
    /\ copy \in {[f \in Files |-> Tree[c][f]] : c \in Commits} \cup {disk}
    /\ loaded = [f \in Files |-> NoContent]
    /\ pc = "start" /\ round = 0
    /\ commit = NoCommit /\ next = 1 /\ shown = NoContent
    /\ recorded = NoCommit /\ failed = FALSE
    /\ moved = FALSE /\ written = {} /\ late = {}

\* The file that runs, as it is on disk now.
Running(f) == IF f \in Modules /\ mode \in {"copy", "foreign"}
              THEN copy[f] ELSE disk[f]

Read(f) == f \in {Order[k] : k \in 1 .. (next - 1)}

-----------------------------------------------------------------------------
(* The checkout *)

\* Whether a change of f now comes between the loading and the comparing.
Between(f) ==
    /\ \/ loaded[f] # NoContent \/ Read(f)
    /\ f \notin Modules \/ mode \notin {"copy", "foreign"}

Changed(tree) ==
    /\ changes < MaxChanges /\ changes' = changes + 1
    /\ disk' = tree
    /\ written' = written \cup
                     {f \in Files : tree[f] # disk[f] /\ Between(f)}
    /\ UNCHANGED <<mode, copy, loaded, pc, round, commit, next, shown,
                   recorded, failed, late>>

Edit ==
    \E f \in Files, content \in Contents :
        Changed([disk EXCEPT ![f] = content]) /\ UNCHANGED <<head, moved>>

Checkout ==
    \E c \in Commits \ {head} :
        Changed(Tree[c]) /\ head' = c /\ moved' = TRUE

-----------------------------------------------------------------------------
(* The command up to resolve_source_commit *)

Load(files) == loaded' = [f \in Files |-> IF f \in files THEN Running(f)
                                          ELSE loaded[f]]

Start ==
    /\ pc = "start" /\ pc' = "validate"
    /\ Load(Modules)
    /\ UNCHANGED <<checkout, mode, copy, round, commit, next, shown,
                   recorded, failed, history>>

Validate ==
    /\ pc = "validate" /\ pc' = "resolve"
    /\ Load({PolicySchema})
    /\ UNCHANGED <<checkout, mode, copy, round, commit, next, shown,
                   recorded, failed, history>>

-----------------------------------------------------------------------------
(* _git_commit *)

\* Which of the two calls of _git_commit this is: _direct_url_commit's if
\* direct_url.json names a checkout, then resolve_source_commit's own.
Rounds == IF mode \in {"copy", "editable"} THEN 2 ELSE 1

\* `git ls-files`: the second round of a copy, and a foreign repository, look
\* for site-packages in an index that does not hold it.
Tracked(f) ==
    \/ mode \in {"editable", "place"}
    \/ mode = "copy" /\ (round = 1 \/ f \notin Modules)

Resolve ==
    /\ pc \in {"resolve", "reject"} /\ round < Rounds
    /\ round' = round + 1 /\ next' = 1
    /\ \/ commit' = head /\ moved' = FALSE /\ pc' = "show" /\ UNCHANGED failed
       \/ failed' = TRUE /\ pc' = "reject" /\ UNCHANGED <<commit, moved>>
    /\ UNCHANGED <<checkout, mode, copy, loaded, shown, recorded, written,
                   late>>

\* HEAD is resolved anew for every file.
Show ==
    LET f == Order[next]
    IN  /\ pc = "show"
        /\ \/ /\ Tracked(f)
              /\ shown' = Tree[head][f] /\ pc' = "read"
              /\ late' = IF moved THEN late \cup {f} ELSE late \ {f}
              /\ UNCHANGED failed
           \/ /\ pc' = "reject" /\ failed' = (failed \/ Tracked(f))
              /\ UNCHANGED <<shown, late>>
        /\ UNCHANGED <<checkout, mode, copy, loaded, round, commit, next,
                       recorded, moved, written>>

\* The bytes that are compared with those of the commit.
Compared(f) == Running(f)

Proceed(ok) ==
    /\ next' = next + 1
    /\ pc' = IF ~ok THEN "reject"
             ELSE IF next = Len(Order) THEN "accept" ELSE "show"

Compare ==
    LET f == Order[next]
    IN  /\ pc = "read"
        /\ Proceed(Compared(f) = shown)
        /\ late' = IF f \in written /\ loaded[f] # NoContent
                   THEN late \cup {f} ELSE late
        /\ written' = IF loaded[f] = NoContent THEN written \ {f} ELSE written
        /\ UNCHANGED <<checkout, mode, copy, loaded, round, commit, shown,
                       recorded, failed, moved>>

Accept ==
    /\ pc = "accept" /\ pc' = "build"
    /\ recorded' = commit
    /\ UNCHANGED <<checkout, mode, copy, loaded, round, commit, next, shown,
                   failed, history>>

\* The ValueError that makes the command end with 2.
Refuse ==
    /\ pc = "reject" /\ round = Rounds /\ pc' = "done"
    /\ UNCHANGED <<checkout, mode, copy, loaded, round, commit, next, shown,
                   recorded, failed, history>>

\* build_receipt validates the receipt, with the schema as it is now.
Build ==
    /\ pc = "build" /\ pc' = "done"
    /\ Load({ReceiptSchema})
    /\ late' = IF ReceiptSchema \in written
               THEN late \cup {ReceiptSchema} ELSE late
    /\ UNCHANGED <<checkout, mode, copy, round, commit, next, shown,
                   recorded, failed, moved, written>>

Next ==
    \/ Edit \/ Checkout
    \/ Start \/ Validate
    \/ Resolve \/ Show \/ Compare \/ Accept \/ Refuse \/ Build

Spec == Init /\ [][Next]_vars

-----------------------------------------------------------------------------
(* Properties *)

TypeOK ==
    /\ head \in Commits /\ disk \in [Files -> Contents]
    /\ changes \in 0 .. MaxChanges
    /\ mode \in Modes /\ copy \in [Files -> Contents]
    /\ loaded \in [Files -> Contents \cup {NoContent}]
    /\ pc \in {"start", "validate", "resolve", "show", "read", "accept",
               "reject", "build", "done"}
    /\ round \in 0 .. Rounds /\ next \in 1 .. Len(Order) + 1
    /\ commit \in Commits \cup {NoCommit}
    /\ shown \in Contents \cup {NoContent}
    /\ recorded \in Commits \cup {NoCommit}
    /\ failed \in BOOLEAN /\ moved \in BOOLEAN
    /\ written \subseteq Files /\ late \subseteq Files

\* The commit a receipt names holds every file that ran, byte for byte: of
\* modules loaded before the comparison, of the policy schema used before it
\* and of the receipt schema used after it.  The only exceptions are files
\* that were rewritten between those two moments, or shown after HEAD had
\* left the commit that rev-parse printed.
RecordedCommitRan ==
    pc = "done" /\ recorded # NoCommit =>
        \A f \in Files \ late : loaded[f] = Tree[recorded][f]

\* The command records no commit of a repository that does not track the
\* files it runs from, and refuses only if git failed, the files are not
\* tracked, something changed, or a file differs from the commit.
RefusalHasCause ==
    pc = "done" =>
        /\ mode = "foreign" => recorded = NoCommit
        /\ recorded = NoCommit =>
              \/ failed \/ changes > 0 \/ mode = "foreign"
              \/ \E f \in Files : Running(f) # Tree[head][f]
=============================================================================
